-------------------------- MODULE DashboardProofs ---------------------------
(***************************************************************************)
(* Proofs about Dashboard, for every set of users, every set of files and  *)
(* every bound: the client and the server together, over a connection that *)
(* breaks, show the server of TripService, and the trips it saves are      *)
(* whole routes.  The lock of LockedDashboard changes nothing of that.     *)
(***************************************************************************)
EXTENDS LockedDashboard, TripServiceProofs

ValidFiles == {file \in RouteFiles : ValidRoute(file)}

Waypoint == [time : ElapsedInputs, coordinates : Coordinates]

Message ==
    [type : {"StartTrip", "TripCompleted"}]
      \cup [type : {"PositionUpdate"}, coordinata : Coordinates, elapsed_seconds : ElapsedInputs]
      \cup [type : {"Text"}, text : Nat, long : BOOLEAN]

SimulatorType == [running : BOOLEAN, route : Seq(Waypoint), channel : Seq(Waypoint)]

\* The speed is asked for when a route is selected.
AppOK ==
    {a \in AppType : a.input_mode = "SpeedSelection" <=> a.selected_route # NoFile}

LinkType ==
    /\ tokens \subseteq Users
    /\ client \in [Users -> {"off", "starting", "running"}]
    /\ app \in [Users -> AppOK]
    /\ socket \in [Users -> BOOLEAN]
    /\ simulator \in [Users -> SimulatorType]
    /\ \A u \in Users : Len(simulator[u].channel) <= ChannelCap
    /\ requests \in [Users -> Seq(Message)]
    /\ responses \in [Users -> Seq(Reply)]
    /\ starts \in 0 .. MaxTrips
    /\ textRows \in Seq(Users \X Nat)
    /\ sent \in [Users -> 0 .. MaxTexts]
    /\ gone \in [Users -> SUBSET Nat]
-----------------------------------------------------------------------------
(* The trip messages of a connection, in the order in which they are sent.   *)
Update(point) ==
    [type |-> "PositionUpdate", coordinata |-> point.coordinates, elapsed_seconds |-> point.time]

Script(route, k) ==
    IF k = 1 THEN [type |-> "StartTrip"]
    ELSE IF k = Len(route) + 2 THEN [type |-> "TripCompleted"]
    ELSE Update(route[k - 1])

(* A message is a text, or the line after those sent before it.              *)
Follows(message, route, k, next) ==
    \/ message.type = "Text" /\ next = k
    \/ next = k + 1 /\ message = Script(route, k + 1)

(* The messages hold lines first + 1 .. last of the script, among texts: at  *)
(* says how many lines were sent before each.                                *)
Carries(messages, route, first, last) ==
    \E at \in [1 .. Len(messages) + 1 -> 0 .. Len(route) + 2] :
        /\ at[1] = first /\ at[Len(messages) + 1] = last
        /\ \A i, j \in 1 .. Len(messages) + 1 : i <= j => at[i] <= at[j]
        /\ \A i \in 1 .. Len(messages) : Follows(messages[i], route, at[i], at[i + 1])

OnlyTexts(messages) == \A i \in 1 .. Len(messages) : messages[i].type = "Text"

Done(a) == a.trip_status \in {"AwaitingCompletion", "WaitingReconnect"}

(* How many lines of the script the client has sent.                         *)
ClientAt(u, route, sentLines) ==
    LET s == simulator[u] IN
    \/ /\ app[u].trip_status = "Running"
       /\ sentLines = Len(route) + 1 - Len(s.channel) - Len(s.route)
       /\ sentLines >= 1
       /\ \A i \in 1 .. Len(s.channel) : s.channel[i] = route[sentLines - 1 + i]
       /\ \A i \in 1 .. Len(s.route) :
             s.route[i] = route[sentLines - 1 + Len(s.channel) + i]
    \/ Done(app[u]) /\ sentLines = Len(route) + 2

(* How many lines of the script the server has served.                       *)
ServerAt(u, route, served) ==
    \/ served = 0 /\ u \notin DOMAIN trips
    \/ /\ u \in DOMAIN trips
       /\ served = Len(trips[u].positions) + 1
       /\ \A i \in 1 .. Len(trips[u].positions) :
             trips[u].positions[i] = [coordinates |-> route[i].coordinates,
                                      elapsed_seconds |-> route[i].time]

OnRoute(u, route) ==
    \E served, sentLines \in 0 .. Len(route) + 2 :
        /\ Carries(requests[u], route, served, sentLines)
        /\ ServerAt(u, route, served)
        /\ socket[u] => ClientAt(u, route, sentLines)

NoTripYet(u) ==
    /\ OnlyTexts(requests[u])
    /\ u \notin DOMAIN trips
    /\ socket[u] => app[u].trip_status = "Idle"

\* The session still serves commands.
Talking(u) == pc[u] = "looping" \/ (pc[u] = "replying" /\ ~closing[u])

Conversation(u) ==
    Talking(u) => NoTripYet(u) \/ \E file \in ValidFiles : OnRoute(u, LoadRoute(file))

Over == {"left", "discarded", "offline"}

RowSaved(u) == \E i \in 1 .. Len(origin) : tripRows[i].user_id = u /\ origin[i] = run[u]

PointsIn(file) == [i \in 1 .. Len(file) |-> file[i].point]

(* What is left to say when the trip was completed, and what was said.       *)
Ending(u) ==
    /\ pc[u] \in Saving => \E file \in ValidFiles : accepted[run[u]] = PointsIn(file)
    /\ socket[u] /\ (pc[u] \in Saving \/ (pc[u] = "replying" /\ closing[u])) => Done(app[u])
    /\ \A i \in 1 .. Len(responses[u]) : responses[u][i] = "trip_completed" =>
          Done(app[u]) /\ pc[u] \in Over /\ RowSaved(u)
    /\ app[u].trip_status = "WaitingReconnect" => pc[u] \in Over /\ RowSaved(u)

Bad == {"trip_already_active", "trip_not_found", "invalid_position_time", "invalid_message"}

Heard(u) ==
    /\ reply[u] \notin Bad
    /\ \A i \in 1 .. Len(responses[u]) : responses[u][i] \notin Bad
    /\ ~socket[u] => responses[u] = << >>

(* The client's picture of itself.                                           *)
Consistent(u) ==
    /\ socket[u] <=> app[u].connection_status = "Connected"
    /\ simulator[u].running <=> app[u].trip_status = "Running"
    /\ ~simulator[u].running => simulator[u] = NoSimulator
    /\ Active(app[u]) => socket[u]
    /\ app[u].input_mode # "Command" => app[u].trip_status = "Idle"
    /\ client[u] # "running" => app[u] = NewApp

(* The tables.                                                               *)
RowsOwned ==
    \A u \in Users, i \in 1 .. Len(origin) : origin[i] = run[u] => tripRows[i].user_id = u

RowsWhole ==
    \A i \in 1 .. Len(origin) : \E file \in ValidFiles : accepted[origin[i]] = PointsIn(file)

Each(u) == Consistent(u) /\ Heard(u) /\ Conversation(u) /\ Ending(u)
-----------------------------------------------------------------------------
(* What a valid file holds: one point every interval from time 0.            *)
LEMMA ParsedTime ==
    ASSUME NEW time, NEW elapsed \in ParseElapsedTime(time)
    PROVE  (CHOOSE e \in ParseElapsedTime(time) : TRUE) = elapsed
<1>1. ParseElapsedTime(time) = {elapsed}
  BY DEF ParseElapsedTime
<1>2. QED BY <1>1

LEMMA Loaded ==
    ASSUME NEW file \in ValidFiles, NEW route, route = LoadRoute(file)
    PROVE  /\ Len(file) \in Nat \ {0}
           /\ route \in Seq(Waypoint) /\ Len(route) = Len(file)
           /\ \A i \in 1 .. Len(file) : route[i].coordinates = file[i].point
           /\ route[1].time = 0
           /\ \A i \in 1 .. Len(file) - 1 :
                 route[i + 1].time = route[i].time + POSITION_INTERVAL_SECONDS
<1> DEFINE Time(i) == CHOOSE e \in ParseElapsedTime(file[i].time) : TRUE
           n == Len(file)
<1>1. /\ file \in Seq(Row) /\ file # << >> /\ \A i \in 1 .. n : GoodRow(file, i)
      /\ \A i \in 1 .. n : LoadRoute(file)[i].time \in ElapsedInputs
  BY DashboardAssumption DEF ValidFiles, ValidRoute
<1>2. n \in Nat \ {0}
  BY <1>1, EmptySeq, LenProperties
<1>3. route = [i \in 1 .. n |-> [time |-> Time(i), coordinates |-> file[i].point]]
  BY DEF LoadRoute
<1>4. \A i \in 1 .. n : file[i].point \in Coordinates
  BY <1>1 DEF GoodRow
<1>5. \A i \in 1 .. n : \A elapsed \in ParseElapsedTime(file[i].time) : Time(i) = elapsed
  BY ParsedTime
<1>6. Time(1) = 0
  BY <1>1, <1>2, <1>5 DEF GoodRow
<1>7. ASSUME NEW i \in 1 .. n - 1 PROVE Time(i + 1) = Time(i) + POSITION_INTERVAL_SECONDS
  <2>1. i \in 1 .. n /\ i + 1 \in 1 .. n /\ i + 1 # 1 /\ i + 1 - 1 = i
    BY <1>2
  <2>2. GoodRow(file, i + 1)
    BY <1>1, <2>1
  <2>3. PICK elapsed \in ParseElapsedTime(file[i + 1].time),
             previous \in ParseElapsedTime(file[i].time) :
                elapsed = previous + POSITION_INTERVAL_SECONDS
    BY <2>1, <2>2 DEF GoodRow
  <2>4. QED BY <1>5, <2>1, <2>3
<1> HIDE DEF Time
<1>8. route \in Seq(Waypoint) /\ Len(route) = n
  <2>1. \A i \in 1 .. n : [time |-> Time(i), coordinates |-> file[i].point] \in Waypoint
    BY <1>1, <1>3, <1>4 DEF Waypoint
  <2>2. QED BY <1>2, <1>3, <2>1
<1>9. QED BY <1>2, <1>3, <1>6, <1>7, <1>8
-----------------------------------------------------------------------------
(* Seen from the trips, every step is one of the service.                    *)
(* Seen from the trips, every step is one of the service.                    *)
LEMMA ClientLeavesServer ==
    ASSUME NEW u \in Users, LocalStep(u)
    PROVE  UNCHANGED << server, textRows >>
BY DEF LocalStep, Login, Exit, LoseConnection, StartCommand, SelectSpeed, SelectRoute,
       BeginTrip, SendText, EmitPoint, RoutePoint, RouteFinished, ServerText, texts

LEMMA ConnectsOrNot ==
    ASSUME NEW u \in Users, FirstConnect(u) \/ Reconnect(u)
    PROVE  Connect(u) \/ UNCHANGED server
BY DEF FirstConnect, Reconnect, OpenSocket

(* A message is one of its kinds.                                            *)
LEMMA MessageKinds ==
    ASSUME NEW message \in Message
    PROVE  /\ message.type \in {"StartTrip", "TripCompleted", "PositionUpdate", "Text"}
           /\ message.type = "StartTrip" => message = [type |-> "StartTrip"]
           /\ message.type = "TripCompleted" => message = [type |-> "TripCompleted"]
           /\ message.type = "PositionUpdate" =>
                 message.coordinata \in Coordinates /\ message.elapsed_seconds \in ElapsedInputs
           /\ message.type = "Text" => message.text \in Nat /\ message.long \in BOOLEAN
BY DEF Message

LEMMA HeadOfRequests ==
    ASSUME LinkType, NEW u \in Users, requests[u] # << >>
    PROVE  /\ Head(requests[u]) = requests[u][1]
           /\ Head(requests[u]) \in Message
           /\ Tail(requests[u]) \in Seq(Message)
           /\ Len(requests[u]) \in Nat \ {0} /\ Len(Tail(requests[u])) = Len(requests[u]) - 1
           /\ \A i \in 1 .. Len(requests[u]) - 1 : Tail(requests[u])[i] = requests[u][i + 1]
<1>1. requests[u] \in Seq(Message)
  BY DEF LinkType
<1>2. QED BY <1>1, HeadTailProperties, EmptySeq, LenProperties

LEMMA ServeIsCommand ==
    ASSUME LinkType, NEW u \in Users, ServeRequest(u)
    PROVE  Command(u) \/ UNCHANGED server
<1> DEFINE message == Head(requests[u])
<1>1. message \in Message
  BY HeadOfRequests DEF ServeRequest
<1>2. CASE message.type = "Text" /\ ServeText(u, message)
  BY <1>2 DEF ServeText, Command, Refusal
<1>3. CASE message.type = "PositionUpdate"
             /\ PositionUpdate(u, message.coordinata, message.elapsed_seconds)
  BY <1>1, <1>3, MessageKinds DEF Command
<1>4. QED BY <1>2, <1>3 DEF ServeRequest, Command

LEMMA StepIsServiceStep ==
    ASSUME LinkType, [DashboardNext]_dashboardVars
    PROVE  [Next]_vars
<1>1. ASSUME NEW u \in Users, ClientStep(u) PROVE [Next]_vars
  <2>1. LocalStep(u) \/ FirstConnect(u) \/ Reconnect(u)
    BY <1>1 DEF ClientStep, LocalStep
  <2>2. QED BY <2>1, ClientLeavesServer, ConnectsOrNot DEF Next, server
<1>2. ASSUME NEW u \in Users, ServerStep(u) PROVE [Next]_vars
  BY <1>2, ServeIsCommand DEF ServerStep, Respond, SessionStep, SocketEnds, Next, server
<1>3. ASSUME ServerRestart PROVE [Next]_vars
  BY <1>3 DEF ServerRestart, Next
<1>4. CASE UNCHANGED dashboardVars
  BY <1>4 DEF dashboardVars, server
<1>5. QED BY <1>1, <1>2, <1>3, <1>4 DEF DashboardNext
-----------------------------------------------------------------------------
(* The types of the client and of the link.                                  *)
LEMMA AppStays ==
    ASSUME NEW a \in AppOK
    PROVE  /\ MarkConnected(a) \in AppOK /\ MarkDisconnected(a) \in AppOK
           /\ MarkRouteFinished(a) \in AppOK /\ InvalidateActiveTrip(a) \in AppOK
           /\ \A kind : AfterText(a, kind) \in AppOK
BY DEF AppOK, AppType, MarkConnected, MarkDisconnected, MarkRouteFinished, InvalidateActiveTrip, AfterText

LEMMA SimulatorStarts ==
    /\ NoSimulator \in SimulatorType /\ Len(NoSimulator.channel) <= ChannelCap
    /\ \A file \in ValidFiles : /\ StartSimulator(file) \in SimulatorType
                                /\ Len(StartSimulator(file).channel) <= ChannelCap
<1>1. << >> \in Seq(Waypoint) /\ Len(<< >>) = 0 /\ 0 <= ChannelCap
  BY DashboardAssumption
<1>2. \A file \in ValidFiles : LoadRoute(file) \in Seq(Waypoint)
  BY Loaded
<1>3. QED BY <1>1, <1>2 DEF NoSimulator, StartSimulator, SimulatorType

LEMMA DisconnectedType ==
    ASSUME LinkType, NEW u \in Users, NEW a \in AppOK, Disconnected(u, a)
    PROVE  /\ app' \in [Users -> AppOK] /\ socket' \in [Users -> BOOLEAN]
           /\ simulator' \in [Users -> SimulatorType]
           /\ \A v \in Users : Len(simulator'[v].channel) <= ChannelCap
           /\ responses' \in [Users -> Seq(Reply)]
<1>1. app' \in [Users -> AppOK]
  BY AppStays DEF Disconnected, LinkType
<1>2. simulator' \in [Users -> SimulatorType]
      /\ \A v \in Users : Len(simulator'[v].channel) <= ChannelCap
  BY SimulatorStarts DEF Disconnected, LinkType, SimulatorType
<1>3. << >> \in Seq(Reply)
  OBVIOUS
<1>4. QED BY <1>1, <1>2, <1>3 DEF Disconnected, LinkType

LEMMA SentType ==
    ASSUME LinkType, NEW u \in Users, NEW message \in Message, Send(u, message)
    PROVE  requests' \in [Users -> Seq(Message)] /\ UNCHANGED << socket, responses >>
<1>1. Append(requests[u], message) \in Seq(Message)
  BY AppendProperties DEF LinkType
<1>2. QED BY <1>1 DEF Send, LinkType

LEMMA OpenedType ==
    ASSUME LinkType, NEW u \in Users, OpenSocket(u)
    PROVE  /\ app' \in [Users -> AppOK] /\ socket' \in [Users -> BOOLEAN]
           /\ requests' \in [Users -> Seq(Message)] /\ responses' \in [Users -> Seq(Reply)]
           /\ gone' \in [Users -> SUBSET Nat]
<1>1. app' \in [Users -> AppOK]
  BY AppStays DEF OpenSocket, LinkType
<1>2. << >> \in Seq(Message) /\ << >> \in Seq(Reply)
  OBVIOUS
<1>3. InTransit(u) \subseteq Nat
  <2>1. \A i \in 1 .. Len(requests[u]) : requests[u][i] \in Message
    BY ElementOfSeq DEF LinkType
  <2>2. QED BY <2>1, MessageKinds DEF InTransit
<1>4. gone' \in [Users -> SUBSET Nat]
  BY <1>3 DEF OpenSocket, LinkType
<1>5. QED BY <1>1, <1>2, <1>4 DEF OpenSocket, LinkType

LEMMA BeginType ==
    ASSUME LinkType, NEW u \in Users, NEW file \in RouteFiles, BeginTrip(u, file)
    PROVE  /\ app' \in [Users -> AppOK] /\ socket' \in [Users -> BOOLEAN]
           /\ simulator' \in [Users -> SimulatorType]
           /\ \A v \in Users : Len(simulator'[v].channel) <= ChannelCap
           /\ requests' \in [Users -> Seq(Message)] /\ responses' \in [Users -> Seq(Reply)]
           /\ starts' \in 0 .. MaxTrips
<1> DEFINE a == [app[u] EXCEPT !.input_mode = "Command", !.selected_route = NoFile]
<1>1. a \in AppOK /\ [a EXCEPT !.trip_status = "Running"] \in AppOK
  <2>1. app[u] \in AppOK
    BY DEF LinkType
  <2>2. a \in AppOK
    BY <2>1 DEF AppOK, AppType
  <2> HIDE DEF a
  <2>3. QED BY <2>2 DEF AppOK, AppType
<1>2. CASE UNCHANGED << link, simulator, starts >> /\ app' = [app EXCEPT ![u] = InvalidateActiveTrip(a)]
  BY <1>1, <1>2, AppStays DEF LinkType, link, SimulatorType
<1>3. CASE SendFailed(u, a) /\ UNCHANGED starts
  BY <1>1, <1>3, DisconnectedType DEF SendFailed, LinkType
<1>4. CASE /\ ValidRoute(file) /\ starts < MaxTrips /\ starts' = starts + 1
           /\ Send(u, [type |-> "StartTrip"])
           /\ simulator' = [simulator EXCEPT ![u] = StartSimulator(file)]
           /\ app' = [app EXCEPT ![u] = [a EXCEPT !.trip_status = "Running"]]
  <2>1. [type |-> "StartTrip"] \in Message /\ file \in ValidFiles
    BY <1>4 DEF Message, ValidFiles
  <2>2. requests' \in [Users -> Seq(Message)] /\ UNCHANGED << socket, responses >>
    BY <1>4, <2>1, SentType
  <2>3. simulator' \in [Users -> SimulatorType]
        /\ \A v \in Users : Len(simulator'[v].channel) <= ChannelCap
    BY <1>4, <2>1, SimulatorStarts DEF LinkType, SimulatorType
  <2>4. app' \in [Users -> AppOK]
    BY <1>1, <1>4 DEF LinkType
  <2>5. starts' \in 0 .. MaxTrips
    BY <1>4, ServiceAssumption DEF LinkType
  <2>6. QED BY <2>2, <2>3, <2>4, <2>5 DEF LinkType
<1>5. QED BY <1>2, <1>3, <1>4 DEF BeginTrip, link

LEMMA LinkTypeOfClient ==
    ASSUME LinkType, NEW u \in Users, ClientStep(u)
    PROVE  LinkType'
<1> USE DEF LinkType
<1>1. CASE Login(u)
  BY <1>1 DEF Login, link, texts
<1>2. CASE FirstConnect(u)
  <2>1. CASE OpenSocket(u)
    BY <1>2, <2>1, OpenedType DEF FirstConnect
  <2>2. CASE UNCHANGED << app, link, gone >>
    BY <1>2, <2>2 DEF FirstConnect, link
  <2>3. CASE app' = [app EXCEPT ![u] = MarkDisconnected(@)] /\ UNCHANGED << link, gone >>
    BY <1>2, <2>3, AppStays DEF FirstConnect, link
  <2>4. QED BY <1>2, <2>1, <2>2, <2>3 DEF FirstConnect
<1>3. CASE Reconnect(u)
  BY <1>3, OpenedType DEF Reconnect
<1>4. CASE Exit(u)
  <2>1. NewApp \in AppOK /\ << >> \in Seq(Reply)
    BY DEF AppOK, AppType, NewApp
  <2>2. QED BY <1>4, <2>1, SimulatorStarts DEF Exit, texts
<1>5. CASE LoseConnection(u)
  BY <1>5, DisconnectedType DEF LoseConnection, texts
<1>6. CASE StartCommand(u)
  <2>1. [app[u] EXCEPT !.input_mode = "RouteSelection"] \in AppOK
    <3>1. app[u] \in AppOK /\ app[u].input_mode = "Command"
      BY <1>6 DEF StartCommand
    <3>2. QED BY <3>1 DEF AppOK, AppType
  <2>2. QED BY <1>6, <2>1 DEF StartCommand, link, texts
<1>7. CASE SelectSpeed(u)
  <2>1. app[u].selected_route \in RouteFiles
    <3>1. app[u] \in AppOK
      OBVIOUS
    <3>2. QED BY <1>7, <3>1 DEF SelectSpeed, AppOK, AppType
  <2>2. QED BY <1>7, <2>1, BeginType DEF SelectSpeed, texts
<1>8. ASSUME NEW file \in RouteFiles, SelectRoute(u, file) PROVE LinkType'
  <2>1. CASE BeginTrip(u, file)
    BY <1>8, <2>1, BeginType DEF SelectRoute, texts
  <2>2. CASE /\ app' = [app EXCEPT ![u].input_mode = "SpeedSelection", ![u].selected_route = file]
             /\ UNCHANGED << link, simulator, starts >>
    <3> DEFINE a == [app[u] EXCEPT !.input_mode = "SpeedSelection", !.selected_route = file]
    <3>1. app[u] \in AppType
      BY DEF AppOK
    <3>2. a \in AppType
      BY <3>1 DEF AppType
    <3>3. a.input_mode = "SpeedSelection" /\ a.selected_route # NoFile
      BY <3>1, DashboardAssumption DEF AppType
    <3>4. a \in AppOK
      BY <3>2, <3>3 DEF AppOK
    <3>5. app' = [app EXCEPT ![u] = a]
      BY <2>2
    <3> HIDE DEF a
    <3>6. QED BY <1>8, <2>2, <3>4, <3>5 DEF SelectRoute, link, texts
  <2>3. QED BY <1>8, <2>1, <2>2 DEF SelectRoute
<1>9. ASSUME NEW long \in BOOLEAN, SendText(u, long) PROVE LinkType'
  <2>1. CASE SendFailed(u, app[u]) /\ UNCHANGED sent
    BY <1>9, <2>1, DisconnectedType DEF SendText, SendFailed
  <2>2. CASE /\ Send(u, [type |-> "Text", text |-> sent[u] + 1, long |-> long])
             /\ sent' = [sent EXCEPT ![u] = @ + 1] /\ UNCHANGED << app, simulator >>
    <3>1. sent[u] \in Nat /\ sent[u] + 1 \in 0 .. MaxTexts
      BY <1>9, DashboardAssumption DEF SendText
    <3>2. [type |-> "Text", text |-> sent[u] + 1, long |-> long] \in Message
      BY <3>1 DEF Message
    <3>3. requests' \in [Users -> Seq(Message)] /\ UNCHANGED << socket, responses >>
      BY <2>2, <3>2, SentType
    <3>4. QED BY <1>9, <2>2, <3>1, <3>3 DEF SendText
  <2>3. QED BY <1>9, <2>1, <2>2 DEF SendText
<1>10. CASE EmitPoint(u)
  <2> DEFINE s == simulator[u]
             moved == [s EXCEPT !.route = Tail(s.route), !.channel = Append(s.channel, Head(s.route))]
  <2>1. s.route \in Seq(Waypoint) /\ s.channel \in Seq(Waypoint) /\ s \in SimulatorType
    BY DEF SimulatorType
  <2>2. /\ Tail(s.route) \in Seq(Waypoint) /\ Head(s.route) \in Waypoint
    BY <1>10, <2>1, HeadTailProperties DEF EmitPoint
  <2>3. /\ Append(s.channel, Head(s.route)) \in Seq(Waypoint)
        /\ Len(Append(s.channel, Head(s.route))) <= ChannelCap
    <3>1. Len(s.channel) \in Nat /\ Len(s.channel) < ChannelCap
      BY <1>10, <2>1, LenProperties DEF EmitPoint
    <3>2. QED BY <2>1, <2>2, <3>1, AppendProperties, DashboardAssumption
  <2>4. simulator' = [simulator EXCEPT ![u] = moved]
    BY <1>10 DEF EmitPoint
  <2>5. moved \in SimulatorType /\ Len(moved.channel) <= ChannelCap
    <3>1. moved.channel = Append(s.channel, Head(s.route))
      BY <2>1 DEF SimulatorType
    <3>2. QED BY <2>1, <2>2, <2>3, <3>1 DEF SimulatorType
  <2> HIDE DEF s, moved
  <2>6. QED BY <1>10, <2>4, <2>5 DEF EmitPoint, link, texts
<1>11. CASE RoutePoint(u)
  <2> DEFINE point == Head(simulator[u].channel)
             update == [type |-> "PositionUpdate", coordinata |-> point.coordinates,
                        elapsed_seconds |-> point.time]
             left == [simulator[u] EXCEPT !.channel = Tail(@)]
  <2>1. simulator[u] \in SimulatorType /\ simulator[u].channel \in Seq(Waypoint)
    BY DEF SimulatorType
  <2>2. /\ point \in Waypoint /\ Tail(simulator[u].channel) \in Seq(Waypoint)
        /\ Len(Tail(simulator[u].channel)) <= ChannelCap
    <3>1. /\ point \in Waypoint /\ Tail(simulator[u].channel) \in Seq(Waypoint)
          /\ Len(Tail(simulator[u].channel)) = Len(simulator[u].channel) - 1
      BY <1>11, <2>1, HeadTailProperties DEF RoutePoint
    <3>2. Len(simulator[u].channel) \in Nat /\ Len(simulator[u].channel) <= ChannelCap
      BY <2>1, LenProperties
    <3>3. QED BY <3>1, <3>2, DashboardAssumption
  <2>3. left \in SimulatorType /\ Len(left.channel) <= ChannelCap
    BY <2>1, <2>2 DEF SimulatorType
  <2>4. update \in Message
    BY <2>2 DEF Message, Waypoint
  <2>5. CASE /\ Send(u, update) /\ UNCHANGED app
             /\ simulator' = [simulator EXCEPT ![u].channel = Tail(@)]
    <3>1. simulator' = [simulator EXCEPT ![u] = left]
      BY <2>5
    <3>2. requests' \in [Users -> Seq(Message)] /\ UNCHANGED << socket, responses >>
      BY <2>4, <2>5, SentType
    <3> HIDE DEF left, update, point
    <3>3. QED BY <1>11, <2>3, <2>5, <3>1, <3>2 DEF RoutePoint, texts
  <2>6. CASE SendFailed(u, app[u])
    BY <1>11, <2>6, DisconnectedType DEF RoutePoint, SendFailed, texts
  <2>7. QED BY <1>11, <2>5, <2>6 DEF RoutePoint
<1>12. CASE RouteFinished(u)
  <2>1. CASE SendFailed(u, app[u])
    BY <1>12, <2>1, DisconnectedType DEF RouteFinished, SendFailed, texts
  <2>2. CASE /\ Send(u, [type |-> "TripCompleted"])
             /\ simulator' = [simulator EXCEPT ![u] = NoSimulator]
             /\ app' = [app EXCEPT ![u] = MarkRouteFinished(@)]
    <3>1. [type |-> "TripCompleted"] \in Message
      BY DEF Message
    <3>2. requests' \in [Users -> Seq(Message)] /\ UNCHANGED << socket, responses >>
      BY <2>2, <3>1, SentType
    <3>3. app' \in [Users -> AppOK]
      BY <2>2, AppStays
    <3>4. simulator' \in [Users -> SimulatorType]
          /\ \A v \in Users : Len(simulator'[v].channel) <= ChannelCap
      BY <2>2, SimulatorStarts
    <3>5. QED BY <1>12, <3>2, <3>3, <3>4 DEF RouteFinished, texts
  <2>3. QED BY <1>12, <2>1, <2>2 DEF RouteFinished
<1>13. CASE ServerText(u)
  <2>1. app' \in [Users -> AppOK]
    BY <1>13, AppStays DEF ServerText
  <2>2. responses' \in [Users -> Seq(Reply)]
    <3>1. Tail(responses[u]) \in Seq(Reply)
      BY <1>13, HeadTailProperties DEF ServerText
    <3>2. QED BY <1>13, <3>1 DEF ServerText
  <2>3. simulator' \in [Users -> SimulatorType]
        /\ \A v \in Users : Len(simulator'[v].channel) <= ChannelCap
    BY <1>13, SimulatorStarts DEF ServerText
  <2>4. QED BY <1>13, <2>1, <2>2, <2>3 DEF ServerText, texts
<1>14. QED BY <1>1, <1>2, <1>3, <1>4, <1>5, <1>6, <1>7, <1>8, <1>9, <1>10, <1>11, <1>12, <1>13
           DEF ClientStep, LocalStep

LEMMA LinkTypeStep ==
    ASSUME TypeOK, LinkType, [DashboardNext]_dashboardVars
    PROVE  LinkType'
<1>1. ASSUME NEW u \in Users, ServeRequest(u) PROVE LinkType'
  <2> DEFINE message == Head(requests[u])
  <2>1. requests' = [requests EXCEPT ![u] = Tail(@)] /\ requests[u] # << >>
        /\ UNCHANGED << tokens, client, app, socket, responses, simulator, starts, sent >>
    BY <1>1 DEF ServeRequest
  <2>2. Tail(requests[u]) \in Seq(Message) /\ message \in Message
    BY <2>1, HeadOfRequests
  <2>3. requests' \in [Users -> Seq(Message)]
    BY <2>1, <2>2 DEF LinkType
  <2>4. CASE UNCHANGED << textRows, gone >>
    BY <2>1, <2>3, <2>4 DEF LinkType
  <2>5. CASE message.type = "Text" /\ ServeText(u, message)
    <3>1. message.text \in Nat
      BY <2>2, <2>5, MessageKinds
    <3>2. textRows' \in Seq(Users \X Nat)
      <4>1. << u, message.text >> \in Users \X Nat /\ textRows \in Seq(Users \X Nat)
        BY <3>1 DEF LinkType
      <4>2. textRows' = Append(textRows, << u, message.text >>) \/ textRows' = textRows
        BY <2>5 DEF ServeText
      <4>3. QED BY <4>1, <4>2, AppendProperties
    <3>3. gone' \in [Users -> SUBSET Nat]
      <4>1. gone' = gone \/ gone' = [gone EXCEPT ![u] = @ \cup {message.text}]
        BY <2>5 DEF ServeText
      <4>2. gone \in [Users -> SUBSET Nat]
        BY DEF LinkType
      <4>3. gone[u] \cup {message.text} \in SUBSET Nat
        BY <3>1, <4>2
      <4> HIDE DEF message
      <4>4. QED BY <4>1, <4>2, <4>3
    <3>4. QED BY <2>1, <2>3, <3>2, <3>3 DEF LinkType
  <2>6. QED BY <1>1, <2>4, <2>5 DEF ServeRequest
<1>2. ASSUME NEW u \in Users, Respond(u) PROVE LinkType'
  <2>1. responses' = responses
        \/ responses' = [responses EXCEPT ![u] = IF socket[u] THEN Append(@, reply[u]) ELSE @]
    BY <1>2 DEF Respond
  <2>2. Append(responses[u], reply[u]) \in Seq(Reply)
    BY AppendProperties DEF LinkType, TypeOK
  <2>3. responses' \in [Users -> Seq(Reply)]
    BY <2>1, <2>2 DEF LinkType
  <2>4. QED BY <1>2, <2>3 DEF Respond, texts, LinkType
<1>3. ASSUME NEW u \in Users, SessionStep(u) \/ SocketEnds(u) PROVE LinkType'
  BY <1>3 DEF SessionStep, SocketEnds, clientVars, link, texts, LinkType
<1>4. CASE ServerRestart
  BY <1>4 DEF ServerRestart, link, texts, LinkType
<1>5. CASE UNCHANGED dashboardVars
  BY <1>5 DEF dashboardVars, clientVars, link, texts, LinkType
<1>6. QED BY <1>1, <1>2, <1>3, <1>4, <1>5, LinkTypeOfClient DEF DashboardNext, ServerStep

LEMMA LinkTypeInit == DashboardInit => LinkType
<1> SUFFICES ASSUME DashboardInit PROVE LinkType
  OBVIOUS
<1>1. NewApp \in AppOK
  BY DEF AppOK, AppType, NewApp
<1>2. << >> \in Seq(Message) /\ << >> \in Seq(Reply) /\ << >> \in Seq(Users \X Nat)
  OBVIOUS
<1>3. 0 \in 0 .. MaxTrips /\ 0 \in 0 .. MaxTexts
  BY ServiceAssumption, DashboardAssumption
<1>4. QED BY <1>1, <1>2, <1>3, SimulatorStarts DEF DashboardInit, LinkType

LEMMA LinkInvariant == DashboardSpec => [](IInv /\ LinkType)
<1>1. DashboardInit => IInv /\ LinkType
  BY InitIInv, LinkTypeInit DEF DashboardInit
<1>2. IInv /\ LinkType /\ [DashboardNext]_dashboardVars => (IInv /\ LinkType)'
  BY StepIsServiceStep, NextIInv, LinkTypeStep DEF IInv
<1>3. QED BY <1>1, <1>2, PTL DEF DashboardSpec

(* With the client at the other end of its sessions, the server behaves as   *)
(* TripService says of any client: what is proved there holds here.          *)
THEOREM TripServiceImplemented == DashboardSpec => Spec
<1>1. DashboardInit => Init
  BY DEF DashboardInit
<1>2. LinkType /\ [DashboardNext]_dashboardVars => [Next]_vars
  BY StepIsServiceStep
<1>3. QED BY <1>1, <1>2, LinkInvariant, PTL DEF DashboardSpec, Spec

(* The client's variables keep their types; its simulator never holds more   *)
(* points than the channel takes (movement/simulator.rs).                    *)
THEOREM TypeOfClientCorrect == DashboardSpec => []DashboardTypeOK
<1>1. IInv /\ LinkType => DashboardTypeOK
  <2> SUFFICES ASSUME IInv, LinkType PROVE DashboardTypeOK
    OBVIOUS
  <2>1. app \in [Users -> AppType]
    BY DEF LinkType, AppOK
  <2>2. \A u \in Users : DOMAIN simulator[u] = {"running", "route", "channel"}
    BY DEF LinkType, SimulatorType
  <2>3. QED BY <2>1, <2>2 DEF IInv, LinkType, DashboardTypeOK
<1>2. QED BY <1>1, LinkInvariant, PTL
-----------------------------------------------------------------------------
(* The script in transit.                                                    *)
LEMMA CarriesTexts ==
    ASSUME NEW messages \in Seq(Message), OnlyTexts(messages),
           NEW route, Len(route) \in Nat, NEW n \in 0 .. Len(route) + 2
    PROVE  Carries(messages, route, n, n)
<1> DEFINE at == [i \in 1 .. Len(messages) + 1 |-> n]
<1>1. Len(messages) \in Nat
  BY LenProperties
<1>2. at \in [1 .. Len(messages) + 1 -> 0 .. Len(route) + 2]
  OBVIOUS
<1>3. \A i \in 1 .. Len(messages) + 1 : at[i] = n
  OBVIOUS
<1> HIDE DEF at
<1>4. QED BY <1>1, <1>2, <1>3 DEF Carries, OnlyTexts, Follows

LEMMA CarriesMore ==
    ASSUME NEW messages \in Seq(Message), NEW message \in Message, NEW route, Len(route) \in Nat,
           NEW first, NEW last \in 0 .. Len(route) + 2, NEW next \in 0 .. Len(route) + 2,
           Carries(messages, route, first, last), Follows(message, route, last, next)
    PROVE  Carries(Append(messages, message), route, first, next)
<1> DEFINE n == Len(messages)
           more == Append(messages, message)
<1>1. n \in Nat /\ Len(more) = n + 1 /\ more[n + 1] = message
      /\ \A i \in 1 .. n : more[i] = messages[i]
  BY LenProperties, AppendProperties
<1>2. PICK at \in [1 .. n + 1 -> 0 .. Len(route) + 2] :
        /\ at[1] = first /\ at[n + 1] = last
        /\ \A i, j \in 1 .. n + 1 : i <= j => at[i] <= at[j]
        /\ \A i \in 1 .. n : Follows(messages[i], route, at[i], at[i + 1])
  BY DEF Carries
<1> DEFINE then == [i \in 1 .. n + 2 |-> IF i = n + 2 THEN next ELSE at[i]]
<1>3. next >= last
  BY DEF Follows
<1> HIDE DEF more
<1>4. then \in [1 .. n + 2 -> 0 .. Len(route) + 2]
  <2>1. \A i \in 1 .. n + 2 : i # n + 2 => i \in 1 .. n + 1
    BY <1>1
  <2> HIDE DEF n
  <2>2. QED BY <1>2, <2>1
<1>5. then[n + 2] = next /\ \A i \in 1 .. n + 1 : then[i] = at[i]
  BY <1>1
<1> HIDE DEF then, n
<1>6. \A i, j \in 1 .. n + 2 : i <= j => then[i] <= then[j]
  <2>1. SUFFICES ASSUME NEW i \in 1 .. n + 2, NEW j \in 1 .. n + 2, i <= j
                 PROVE  then[i] <= then[j]
    OBVIOUS
  <2>2. CASE j \in 1 .. n + 1
    BY <1>1, <1>2, <1>5, <2>1, <2>2
  <2>3. CASE j = n + 2 /\ i \in 1 .. n + 1
    <3>1. at[i] <= last /\ at[i] \in 0 .. Len(route) + 2
      BY <1>1, <1>2, <2>3
    <3>2. QED BY <1>3, <1>5, <2>3, <3>1
  <2>4. CASE j = n + 2 /\ i = n + 2
    BY <1>5, <2>4
  <2>5. QED BY <1>1, <2>1, <2>2, <2>3, <2>4
<1>7. ASSUME NEW i \in 1 .. n + 1 PROVE Follows(more[i], route, then[i], then[i + 1])
  <2>1. CASE i \in 1 .. n
    BY <1>1, <1>2, <1>5, <2>1
  <2>2. CASE i = n + 1
    <3>1. then[i] = last /\ then[i + 1] = next /\ more[i] = message
      BY <1>1, <1>2, <1>5, <2>2
    <3>2. QED BY <3>1
  <2>3. QED BY <1>1, <2>1, <2>2
<1>8. /\ Len(more) + 1 = n + 2 /\ then[1] = first
  BY <1>1, <1>2, <1>5
<1>9. Carries(more, route, first, next)
  BY <1>1, <1>4, <1>5, <1>6, <1>7, <1>8 DEF Carries
<1>10. QED BY <1>9 DEF more

LEMMA CarriesLess ==
    ASSUME NEW messages \in Seq(Message), messages # << >>, NEW route, Len(route) \in Nat,
           NEW first, NEW last, Carries(messages, route, first, last)
    PROVE  \E next \in 0 .. Len(route) + 2 :
              /\ Follows(Head(messages), route, first, next) /\ next <= last
              /\ Carries(Tail(messages), route, next, last)
<1> DEFINE n == Len(messages) - 1
           less == Tail(messages)
<1>1. /\ n \in Nat /\ Len(less) = n /\ Len(messages) = n + 1 /\ Head(messages) = messages[1]
      /\ \A i \in 1 .. n : less[i] = messages[i + 1]
  BY LenProperties, HeadTailProperties, EmptySeq
<1>2. PICK at \in [1 .. Len(messages) + 1 -> 0 .. Len(route) + 2] :
        /\ at[1] = first /\ at[Len(messages) + 1] = last
        /\ \A i, j \in 1 .. Len(messages) + 1 : i <= j => at[i] <= at[j]
        /\ \A i \in 1 .. Len(messages) : Follows(messages[i], route, at[i], at[i + 1])
  BY DEF Carries
<1> DEFINE then == [i \in 1 .. n + 1 |-> at[i + 1]]
<1> HIDE DEF less, n
<1>3. /\ then \in [1 .. n + 1 -> 0 .. Len(route) + 2]
      /\ \A i \in 1 .. n + 1 : then[i] = at[i + 1]
  BY <1>1, <1>2
<1> HIDE DEF then
<1>4. \A i, j \in 1 .. n + 1 : i <= j => then[i] <= then[j]
  BY <1>1, <1>2, <1>3
<1>5. then[1] = at[2] /\ then[n + 1] = last
  BY <1>1, <1>2, <1>3
<1>6. ASSUME NEW i \in 1 .. n PROVE Follows(less[i], route, then[i], then[i + 1])
  <2>1. i + 1 \in 1 .. Len(messages) /\ then[i] = at[i + 1] /\ then[i + 1] = at[i + 1 + 1]
    BY <1>1, <1>3
  <2>2. QED BY <1>1, <1>2, <2>1
<1>7. Carries(less, route, at[2], last)
  BY <1>1, <1>3, <1>4, <1>5, <1>6 DEF Carries
<1>8. at[2] \in 0 .. Len(route) + 2 /\ at[2] <= last /\ Follows(Head(messages), route, first, at[2])
  <2>1. 1 \in 1 .. Len(messages) /\ 2 \in 1 .. Len(messages) + 1
        /\ Len(messages) + 1 \in 1 .. Len(messages) + 1 /\ 2 <= Len(messages) + 1
    BY <1>1
  <2>2. Follows(messages[1], route, at[1], at[1 + 1])
    BY <1>2, <2>1
  <2>3. QED BY <1>1, <1>2, <2>1, <2>2
<1>9. QED BY <1>7, <1>8 DEF less

\* What is left is no less than what was served.
LEMMA CarriesOrder ==
    ASSUME NEW messages \in Seq(Message), NEW route, NEW first, NEW last, Len(route) \in Nat,
           Carries(messages, route, first, last)
    PROVE  first <= last /\ first \in 0 .. Len(route) + 2 /\ last \in 0 .. Len(route) + 2
<1>1. 1 \in 1 .. Len(messages) + 1 /\ Len(messages) + 1 \in 1 .. Len(messages) + 1
      /\ 1 <= Len(messages) + 1
  BY LenProperties
<1>2. QED BY <1>1 DEF Carries
-----------------------------------------------------------------------------
(* What a step leaves alone.                                                 *)

(* What the client and the link of a user are to the other users' steps.     *)
Local(v) ==
    /\ client'[v] = client[v] /\ app'[v] = app[v] /\ socket'[v] = socket[v]
    /\ simulator'[v] = simulator[v]
    /\ requests'[v] = requests[v] /\ responses'[v] = responses[v]
    /\ sent'[v] = sent[v] /\ gone'[v] = gone[v]

LEMMA OthersLocal ==
    ASSUME LinkType, NEW u \in Users, ClientStep(u) \/ ServerStep(u),
           NEW v \in Users, v # u
    PROVE  Local(v)
<1> USE DEF LinkType, Local
<1>1. CASE Login(u) \/ LoseConnection(u) \/ StartCommand(u) \/ Exit(u)
  BY <1>1 DEF Login, LoseConnection, StartCommand, Exit, Disconnected, link, texts
<1>2. CASE FirstConnect(u) \/ Reconnect(u)
  BY <1>2 DEF FirstConnect, Reconnect, OpenSocket, link
<1>3. CASE SelectSpeed(u) \/ \E file \in RouteFiles : SelectRoute(u, file)
  <2>1. ASSUME NEW file, BeginTrip(u, file), UNCHANGED << client, sent, gone >> PROVE Local(v)
    BY <2>1 DEF BeginTrip, SendFailed, Disconnected, Send, link
  <2>2. QED BY <1>3, <2>1 DEF SelectSpeed, SelectRoute, link, texts
<1>4. CASE \E long \in BOOLEAN : SendText(u, long)
  BY <1>4 DEF SendText, SendFailed, Disconnected, Send
<1>5. CASE EmitPoint(u) \/ RoutePoint(u) \/ RouteFinished(u) \/ ServerText(u)
  BY <1>5 DEF EmitPoint, RoutePoint, RouteFinished, ServerText, SendFailed, Disconnected, Send,
              link, texts
<1>6. CASE ServeRequest(u)
  BY <1>6 DEF ServeRequest, ServeText
<1>7. CASE Respond(u) \/ SessionStep(u) \/ SocketEnds(u)
  BY <1>7 DEF Respond, SessionStep, SocketEnds, clientVars, link, texts
<1>8. QED BY <1>1, <1>2, <1>3, <1>4, <1>5, <1>6, <1>7 DEF ClientStep, LocalStep, ServerStep

(* What the session and the trip of a user are to the other users' steps.    *)
Same(v) ==
    /\ pc'[v] = pc[v] /\ reply'[v] = reply[v] /\ closing'[v] = closing[v] /\ run'[v] = run[v]
    /\ v \in DOMAIN trips' <=> v \in DOMAIN trips
    /\ v \in DOMAIN trips => trips'[v] = trips[v] /\ accepted'[run[v]] = accepted[run[v]]

ServiceStep(u) ==
    \/ Connect(u) \/ Command(u) \/ SaveStep(u)
    \/ SendReply(u) \/ SendFails(u) \/ Leave(u) \/ EndOfSession(u)

LEMMA OthersSame ==
    ASSUME IInv, NEW u \in Users, ServiceStep(u), NEW v \in Users, v # u
    PROVE  Same(v)
<1>1. /\ pc \in [Users -> PC] /\ reply \in [Users -> Reply] /\ closing \in [Users -> BOOLEAN]
      /\ run \in [Users -> Nat] /\ accepted \in Seq(Seq(Coordinates)) /\ DOMAIN trips \subseteq Users
  BY DEF IInv, TypeOK
<1>2. v \in DOMAIN trips => run[v] \in 1 .. Len(accepted)
  BY TripInMemory
<1>3. /\ \A value : (v \in DOMAIN Put(trips, u, value) <=> v \in DOMAIN trips)
                    /\ (v \in DOMAIN trips => Put(trips, u, value)[v] = trips[v])
      /\ v \in DOMAIN Drop(trips, u) <=> v \in DOMAIN trips
      /\ v \in DOMAIN trips => Drop(trips, u)[v] = trips[v]
  BY DEF Put, Drop
<1>4. \A value : v \in DOMAIN trips => Append(accepted, value)[run[v]] = accepted[run[v]]
  <2>1. SUFFICES ASSUME v \in DOMAIN trips, NEW value
                 PROVE  Append(accepted, value)[run[v]] = accepted[run[v]]
    OBVIOUS
  <2>2. QED BY <1>1, <1>2, <2>1
<1>5. CASE Connect(u) \/ SendReply(u) \/ SendFails(u) \/ Leave(u) \/ RemoveClient(u)
  BY <1>1, <1>5 DEF Connect, SendReply, SendFails, Leave, RemoveClient, Goto, history, Same
<1>6. CASE DiscardTrip(u)
  BY <1>1, <1>3, <1>6 DEF DiscardTrip, Goto, history, Same
<1>7. CASE SaveStep(u)
  <2>1. CASE DiscardSaved(u)
    BY <1>1, <1>3, <2>1 DEF DiscardSaved, Answer, Goto, history, Same
  <2>2. CASE CopyPositions(u) \/ InsertTrip(u) \/ InsertPoint(u) \/ Commit(u) \/ SaveFails(u)
    BY <1>1, <2>2 DEF CopyPositions, InsertTrip, InsertPoint, Commit, SaveFails, Answer, Goto,
                      session, history, Same
  <2>3. QED BY <1>7, <2>1, <2>2 DEF SaveStep
<1>8. CASE StartTrip(u)
  BY <1>1, <1>3, <1>4, <1>8 DEF StartTrip, Answer, Goto, Same
<1>9. ASSUME NEW c, NEW elapsed, PositionUpdate(u, c, elapsed) PROVE Same(v)
  <2>1. CASE u \in DOMAIN trips
    <3>1. run[u] \in 1 .. Len(accepted)
      BY <2>1, TripInMemory
    <3>2. v \in DOMAIN trips => run[v] # run[u]
      BY <1>2, <3>1 DEF IInv, Apart
    <3>3. QED BY <1>1, <1>2, <1>9, <2>1, <3>2 DEF PositionUpdate, Answer, Goto, Same
  <2>2. CASE u \notin DOMAIN trips
    BY <1>1, <1>9, <2>2 DEF PositionUpdate, Answer, Goto, Same
  <2>3. QED BY <2>1, <2>2
<1>10. CASE FinishTrip(u)
  BY <1>1, <1>10 DEF FinishTrip, Answer, Goto, history, Same
<1>11. ASSUME NEW kind, Refuse(u, kind) PROVE Same(v)
  BY <1>1, <1>11 DEF Refuse, Answer, Goto, history, Same
<1>12. QED BY <1>5, <1>6, <1>7, <1>8, <1>9, <1>10, <1>11 DEF ServiceStep, Command, EndOfSession

(* The tables of a step, and how a row that is there stays.                  *)
Grows ==
    /\ Len(origin) <= Len(origin')
    /\ \A i \in 1 .. Len(origin) : origin'[i] = origin[i] /\ tripRows'[i] = tripRows[i]

LEMMA CommittedRow ==
    ASSUME IInv, NEW u \in Users, Commit(u)
    PROVE  /\ Grows /\ Len(origin') = Len(origin) + 1 /\ Len(origin) \in Nat
           /\ Len(tripRows) = Len(origin) /\ Len(tripRows') = Len(tripRows) + 1
           /\ origin'[Len(origin')] = run[u] /\ tripRows'[Len(origin')].user_id = u
           /\ UNCHANGED << run, accepted >>
<1>1. /\ origin \in Seq(Nat) /\ tripRows \in Seq(RowType) /\ Len(origin) = Len(tripRows)
      /\ WriteOK(u)
  BY DEF IInv, TypeOK, TablesOK, UserOK
<1>2. tripRows' = Append(tripRows, tx[u].row) /\ origin' = Append(origin, run[u])
      /\ pc[u] = "writing" /\ UNCHANGED << run, accepted >>
  BY DEF Commit, history
<1>3. tx[u].row.user_id = u
  BY <1>1, <1>2 DEF WriteOK
<1>4. /\ Len(origin) \in Nat
      /\ Len(origin') = Len(origin) + 1 /\ origin'[Len(origin) + 1] = run[u]
      /\ \A i \in 1 .. Len(origin) : origin'[i] = origin[i]
  BY <1>1, <1>2, LenProperties, AppendProperties
<1>5. /\ Len(tripRows') = Len(tripRows) + 1 /\ tripRows'[Len(tripRows) + 1] = tx[u].row
      /\ \A i \in 1 .. Len(tripRows) : tripRows'[i] = tripRows[i]
  BY <1>1, <1>2, AppendProperties
<1>6. QED BY <1>1, <1>2, <1>3, <1>4, <1>5 DEF Grows

LEMMA StepGrows ==
    ASSUME IInv, NEW u \in Users, ServiceStep(u)
    PROVE  Grows /\ (Commit(u) \/ UNCHANGED << origin, tripRows >>)
<1>1. Commit(u) \/ UNCHANGED << origin, tripRows >>
  <2>1. CASE SaveStep(u)
    BY <2>1 DEF SaveStep, CopyPositions, InsertTrip, InsertPoint, SaveFails, DiscardSaved, database
  <2>2. CASE Command(u)
    BY <2>2 DEF Command, StartTrip, PositionUpdate, FinishTrip, Refuse, database
  <2>3. QED BY <2>1, <2>2 DEF ServiceStep, Connect, SendReply, SendFails, Leave, EndOfSession,
                              DiscardTrip, RemoveClient, database
<1>2. Len(origin) \in Nat
  BY LenProperties DEF IInv, TypeOK
<1>3. QED BY <1>1, <1>2, CommittedRow DEF Grows

LEMMA RowStays ==
    ASSUME NEW u, RowSaved(u), Grows, run'[u] = run[u], Len(origin) \in Nat, Len(origin') \in Nat
    PROVE  RowSaved(u)'
BY DEF RowSaved, Grows
-----------------------------------------------------------------------------
(* What is true of a user stays so as long as nothing of the user changes.   *)
LEMMA RowStaysHere ==
    ASSUME IInv, IInv', NEW u, RowSaved(u), Grows, run'[u] = run[u]
    PROVE  RowSaved(u)'
<1>1. Len(origin) \in Nat /\ Len(origin') \in Nat
  <2>1. origin \in Seq(Nat) /\ origin' \in Seq(Nat)
    BY DEF IInv, TypeOK
  <2>2. QED BY <2>1, LenProperties
<1>2. QED BY <1>1, RowStays

(* A conversation goes on, or ends with the session, while no message is     *)
(* sent or served; the client may drop out of it.                            *)
LEMMA ConversationKept ==
    ASSUME NEW u, Conversation(u), requests'[u] = requests[u],
           u \in DOMAIN trips' <=> u \in DOMAIN trips,
           u \in DOMAIN trips => trips'[u] = trips[u],
           Talking(u)' => Talking(u),
           socket'[u] => /\ socket[u] /\ app'[u].trip_status = app[u].trip_status
                         /\ simulator'[u] = simulator[u]
    PROVE  Conversation(u)'
<1>1. SUFFICES ASSUME Talking(u)'
               PROVE  (NoTripYet(u) \/ \E file \in ValidFiles : OnRoute(u, LoadRoute(file)))'
  BY DEF Conversation
<1>2. Talking(u)
  BY <1>1
<1>3. NoTripYet(u) => NoTripYet(u)'
  BY DEF NoTripYet
<1>4. ASSUME NEW route, OnRoute(u, route) PROVE OnRoute(u, route)'
  <2>1. PICK served \in 0 .. Len(route) + 2, sentLines \in 0 .. Len(route) + 2 :
          /\ Carries(requests[u], route, served, sentLines)
          /\ ServerAt(u, route, served)
          /\ socket[u] => ClientAt(u, route, sentLines)
    BY <1>4 DEF OnRoute
  <2>2. ServerAt(u, route, served)'
    BY <2>1 DEF ServerAt
  <2>3. socket'[u] => ClientAt(u, route, sentLines)'
    BY <2>1 DEF ClientAt, Done
  <2>4. QED BY <2>1, <2>2, <2>3 DEF OnRoute
<1>5. ASSUME NEW file \in ValidFiles, OnRoute(u, LoadRoute(file))
      PROVE  OnRoute(u, LoadRoute(file))'
  BY <1>4, <1>5
<1>6. (\E file \in ValidFiles : OnRoute(u, LoadRoute(file)))
        => (\E file \in ValidFiles : OnRoute(u, LoadRoute(file)))'
  BY <1>5
<1>7. QED BY <1>2, <1>3, <1>6 DEF Conversation

LEMMA OthersEach ==
    ASSUME IInv, IInv', NEW v \in Users, Each(v), Same(v), Local(v), Grows
    PROVE  Each(v)'
<1>1. Consistent(v)'
  BY DEF Each, Consistent, Local, Active
<1>2. Heard(v)'
  BY DEF Each, Heard, Same, Local
<1>3. Conversation(v)'
  <2>1. Talking(v)' => Talking(v)
    BY DEF Talking, Same
  <2>2. QED BY <2>1, ConversationKept DEF Each, Same, Local
<1>4. Ending(v)'
  <2>1. Ending(v) /\ SessionOK(v)
    BY DEF Each, IInv, UserOK
  <2>2. RowSaved(v) => RowSaved(v)'
    BY RowStaysHere DEF Same
  <2>3. pc[v] \in Saving => accepted'[run'[v]] = accepted[run[v]]
    BY <2>1 DEF SessionOK, Same
  <2>4. QED BY <2>1, <2>2, <2>3 DEF Ending, Same, Local, Done
<1>5. QED BY <1>1, <1>2, <1>3, <1>4 DEF Each
-----------------------------------------------------------------------------
(* The steps of the client that send nothing.                                *)
LEMMA EndingKept ==
    ASSUME NEW u, Ending(u), UNCHANGED server,
           responses'[u] \in {responses[u], << >>},
           socket'[u] => socket[u],
           (socket'[u] \/ responses'[u] # << >>) /\ Done(app[u]) => Done(app'[u]),
           app'[u].trip_status = "WaitingReconnect" => app[u].trip_status = "WaitingReconnect"
    PROVE  Ending(u)'
<1>1. /\ UNCHANGED << pc, closing, run, accepted, origin, tripRows >>
  BY DEF server, vars, session, history, database
<1>2. RowSaved(u)' <=> RowSaved(u)
  BY <1>1 DEF RowSaved
<1>3. \A i \in 1 .. Len(responses'[u]) : responses'[u] = responses[u] /\ responses'[u] # << >>
  OBVIOUS
<1>4. QED BY <1>1, <1>2, <1>3 DEF Ending

(* The connection is cut: a trip that was active is given up.                *)
LEMMA CutEach ==
    ASSUME NEW u \in Users, LinkType, Each(u), UNCHANGED << server, requests >>,
           NEW a, Disconnected(u, a), a.trip_status = app[u].trip_status,
           a.input_mode \in {app[u].input_mode, "Command"},
           a \in AppOK, client[u] = "running", client'[u] = client[u]
    PROVE  Each(u)'
<1>1. /\ app[u] \in AppOK /\ app \in [Users -> AppOK] /\ socket \in [Users -> BOOLEAN]
      /\ simulator \in [Users -> SimulatorType] /\ responses \in [Users -> Seq(Reply)]
  BY DEF LinkType
<1>2. /\ socket'[u] = FALSE /\ responses'[u] = << >>
      /\ app'[u] = MarkDisconnected(IF Active(a) THEN InvalidateActiveTrip(a) ELSE a)
      /\ simulator'[u] = IF Active(a) THEN NoSimulator ELSE simulator[u]
  BY <1>1 DEF Disconnected
<1>3. /\ app'[u].connection_status = "Reconnecting"
      /\ app'[u].trip_status = IF Active(a) THEN "Idle" ELSE app[u].trip_status
      /\ app'[u].input_mode = IF Active(a) THEN "Command" ELSE a.input_mode
  BY <1>1, <1>2 DEF MarkDisconnected, InvalidateActiveTrip, AppOK, AppType
<1>4. Active(a) <=> app[u].trip_status \in {"Running", "AwaitingCompletion"}
  BY DEF Active
<1>5. Consistent(u)'
  BY <1>2, <1>3, <1>4 DEF Each, Consistent, Active, NoSimulator
<1>6. Heard(u)'
  BY <1>2 DEF Each, Heard, server, vars, session
<1>7. Conversation(u)'
  BY <1>2, ConversationKept DEF Each, Talking, server, vars, session
<1>8. Ending(u)'
  BY <1>2, <1>3, EndingKept DEF Each
<1>9. QED BY <1>5, <1>6, <1>7, <1>8 DEF Each

(* Nothing that matters here changes.                                        *)
LEMMA SteadyEach ==
    ASSUME NEW u \in Users, LinkType, Each(u), UNCHANGED << server, requests, responses, socket >>,
           simulator'[u] = simulator[u], app'[u].trip_status = app[u].trip_status,
           app'[u].connection_status = app[u].connection_status,
           app'[u].input_mode # "Command" => app'[u].trip_status = "Idle",
           client'[u] # "running" => app'[u] = NewApp
    PROVE  Each(u)'
<1>1. Consistent(u)'
  BY DEF Each, Consistent, Active
<1>2. Heard(u)'
  BY DEF Each, Heard, server, vars, session
<1>3. Conversation(u)'
  BY ConversationKept DEF Each, Talking, server, vars, session
<1>4. Ending(u)'
  BY EndingKept DEF Each, Done
<1>5. QED BY <1>1, <1>2, <1>3, <1>4 DEF Each

LEMMA LoginEach ==
    ASSUME NEW u \in Users, LinkType, Each(u), Login(u)
    PROVE  Each(u)'
<1>1. client[u] = "off" /\ client'[u] = "starting"
  BY DEF Login, LinkType
<1>2. app[u] = NewApp
  BY <1>1 DEF Each, Consistent
<1>3. UNCHANGED << server, requests, responses, socket, simulator, app >>
  BY DEF Login, link
<1>4. QED BY <1>1, <1>2, <1>3, SteadyEach DEF Each, Consistent

LEMMA ExitEach ==
    ASSUME NEW u \in Users, LinkType, Each(u), Exit(u)
    PROVE  Each(u)'
<1>1. /\ client'[u] = "off" /\ simulator'[u] = NoSimulator /\ socket'[u] = FALSE
      /\ responses'[u] = << >> /\ app'[u] = NewApp
      /\ UNCHANGED << server, requests >>
  BY DEF Exit, LinkType
<1>2. Consistent(u)'
  BY <1>1 DEF Consistent, Active, NewApp, NoSimulator
<1>3. Heard(u)'
  BY <1>1 DEF Each, Heard, server, vars, session
<1>4. Conversation(u)'
  BY <1>1, ConversationKept DEF Each, Talking, server, vars, session
<1>5. Ending(u)'
  BY <1>1, EndingKept DEF Each, NewApp
<1>6. QED BY <1>2, <1>3, <1>4, <1>5 DEF Each

LEMMA StartCommandEach ==
    ASSUME NEW u \in Users, LinkType, Each(u), StartCommand(u)
    PROVE  Each(u)'
<1>1. /\ UNCHANGED << server, requests, responses, socket, simulator, client >>
      /\ app' = [app EXCEPT ![u].input_mode = "RouteSelection"]
      /\ app[u].trip_status = "Idle" /\ client[u] = "running"
  BY DEF StartCommand, link
<1>2. app[u] \in AppOK
  BY DEF LinkType
<1>3. /\ app'[u].trip_status = "Idle" /\ app'[u].connection_status = app[u].connection_status
  BY <1>1, <1>2 DEF LinkType, AppOK, AppType
<1>4. QED BY <1>1, <1>3, SteadyEach

LEMMA FirstFailsEach ==
    ASSUME NEW u \in Users, LinkType, Each(u), client[u] = "starting",
           UNCHANGED << server, link, simulator >>,
           \/ client'[u] = "off" /\ app' = app
           \/ client'[u] = "running" /\ app' = [app EXCEPT ![u] = MarkDisconnected(@)]
    PROVE  Each(u)'
<1>1. app[u] = NewApp
  BY DEF Each, Consistent
<1>2. app'[u] = NewApp
  BY <1>1 DEF LinkType, NewApp, MarkDisconnected
<1>3. UNCHANGED << server, requests, responses, socket, simulator >>
  BY DEF link
<1>4. QED BY <1>1, <1>2, <1>3, SteadyEach DEF NewApp

(* A new connection has a session of its own, and nothing in it yet.         *)
LEMMA OpenedEach ==
    ASSUME NEW u \in Users, IInv, LinkType, Each(u), OpenSocket(u), ~socket[u],
           client'[u] = "running", simulator' = simulator
    PROVE  Each(u)'
<1>1. /\ pc[u] = "offline" /\ pc'[u] = "looping" /\ closing'[u] = FALSE
      /\ UNCHANGED << trips, reply, run, accepted, origin, tripRows >>
  BY DEF OpenSocket, Connect, Goto, database, history, IInv, TypeOK
<1>2. /\ socket'[u] = TRUE /\ requests'[u] = << >> /\ responses'[u] = << >>
      /\ app'[u] = MarkConnected(app[u]) /\ app[u] \in AppOK
  BY DEF OpenSocket, LinkType
<1>3. app[u].trip_status \in {"Idle", "WaitingReconnect"}
  BY <1>2 DEF Each, Consistent, Active, AppOK, AppType
<1>4. /\ app'[u].connection_status = "Connected" /\ app'[u].trip_status = "Idle"
      /\ app'[u].input_mode = app[u].input_mode
  BY <1>2, <1>3 DEF MarkConnected, AppOK, AppType
<1>5. Consistent(u)'
  BY <1>2, <1>3, <1>4 DEF Each, Consistent, Active
<1>6. Heard(u)'
  BY <1>1, <1>2 DEF Each, Heard
<1>7. Conversation(u)'
  <2>1. u \notin DOMAIN trips
    BY <1>1 DEF IInv, UserOK, SessionOK
  <2>2. NoTripYet(u)'
    BY <1>1, <1>2, <1>4, <2>1 DEF NoTripYet, OnlyTexts
  <2>3. QED BY <2>2 DEF Conversation
<1>8. Ending(u)'
  BY <1>1, <1>2, <1>4 DEF Ending, Saving
<1>9. QED BY <1>5, <1>6, <1>7, <1>8 DEF Each

(* What arrives changes the trip only when it was completed.                 *)
LEMMA ServerTextEach ==
    ASSUME NEW u \in Users, IInv, LinkType, Each(u), ServerText(u)
    PROVE  Each(u)'
<1> DEFINE kind == Head(responses[u])
           n == Len(responses[u])
<1>1. /\ UNCHANGED << server, requests, client >> /\ socket'[u] = socket[u] /\ socket[u]
      /\ responses[u] # << >> /\ responses'[u] = Tail(responses[u])
      /\ app'[u] = AfterText(app[u], kind) /\ app[u] \in AppOK
      /\ simulator'[u] = IF kind = "trip_already_active" THEN NoSimulator ELSE simulator[u]
  BY DEF ServerText, LinkType
<1>2. /\ n \in Nat \ {0} /\ kind = responses[u][1] /\ Len(Tail(responses[u])) = n - 1
      /\ \A i \in 1 .. n - 1 : Tail(responses[u])[i] = responses[u][i + 1]
  <2>1. responses[u] \in Seq(Reply)
    BY DEF LinkType
  <2>2. QED BY <1>1, <2>1, HeadTailProperties, LenProperties, EmptySeq
<1>3. kind \notin Bad
  BY <1>2 DEF Each, Heard
<1>4. simulator'[u] = simulator[u]
  BY <1>1, <1>3 DEF Bad
<1>5. kind = "trip_completed" => Done(app[u]) /\ pc[u] \in Over /\ RowSaved(u)
  BY <1>2 DEF Each, Ending
<1>6. /\ app'[u].connection_status = app[u].connection_status
      /\ app'[u].input_mode = app[u].input_mode
      /\ app'[u].trip_status = IF kind = "trip_completed" THEN "WaitingReconnect"
                               ELSE app[u].trip_status
      /\ kind # "trip_completed" => app'[u] = app[u]
  BY <1>1, <1>3 DEF AfterText, Bad, AppOK, AppType
<1>7. UNCHANGED << pc, reply, closing, run, trips, accepted, origin, tripRows >>
  BY <1>1 DEF server, vars, session, history, database
<1> HIDE DEF kind, n
<1>8. Consistent(u)'
  BY <1>1, <1>4, <1>5, <1>6 DEF Each, Consistent, Active, Done, NewApp
<1>9. \A i \in 1 .. Len(responses'[u]) : i + 1 \in 1 .. n /\ responses'[u][i] = responses[u][i + 1]
  BY <1>1, <1>2
<1>10. Heard(u)'
  BY <1>1, <1>2, <1>7, <1>9 DEF Each, Heard, n
<1>11. Conversation(u)'
  <2>1. CASE kind = "trip_completed"
    BY <1>5, <1>7, <2>1 DEF Over, Talking, Conversation
  <2>2. CASE kind # "trip_completed"
    BY <1>1, <1>4, <1>6, <1>7, <2>2, ConversationKept DEF Each, Talking
  <2>3. QED BY <2>1, <2>2
<1>12. Ending(u)'
  <2>1. RowSaved(u)' <=> RowSaved(u)
    BY <1>7 DEF RowSaved
  <2>2. Done(app[u]) => Done(app'[u])
    BY <1>6 DEF Done
  <2>3. Ending(u)
    BY DEF Each
  <2>4. \A i \in 1 .. Len(responses'[u]) : responses'[u][i] = "trip_completed" =>
           Done(app[u]) /\ pc[u] \in Over /\ RowSaved(u)
    BY <1>9, <2>3 DEF Ending, n
  <2>5. QED BY <1>1, <1>5, <1>6, <1>7, <2>1, <2>2, <2>3, <2>4 DEF Ending
<1>13. QED BY <1>8, <1>10, <1>11, <1>12 DEF Each
-----------------------------------------------------------------------------
(* The steps of the client that send.                                        *)

(* A message more: what the client's and the server's side make of it.       *)
LEMMA SentFrame ==
    ASSUME NEW u \in Users, LinkType, NEW message \in Message, Send(u, message)
    PROVE  /\ socket[u] /\ UNCHANGED << socket, responses >>
           /\ requests[u] \in Seq(Message) /\ requests'[u] = Append(requests[u], message)
           /\ Len(Append(requests[u], message)) = Len(requests[u]) + 1 /\ Len(requests[u]) \in Nat
           /\ Append(requests[u], message)[Len(requests[u]) + 1] = message
           /\ \A i \in 1 .. Len(requests[u]) : Append(requests[u], message)[i] = requests[u][i]
<1>1. requests[u] \in Seq(Message)
  BY DEF LinkType
<1>2. QED BY <1>1, AppendProperties, LenProperties DEF Send, LinkType

LEMMA RouteLength ==
    ASSUME NEW file \in ValidFiles
    PROVE  Len(LoadRoute(file)) \in Nat \ {0}
BY Loaded

LEMMA TextEach ==
    ASSUME NEW u \in Users, LinkType, Each(u), NEW message \in Message, message.type = "Text",
           Send(u, message), UNCHANGED << server, client, app, simulator >>
    PROVE  Each(u)'
<1>1. /\ socket[u] /\ UNCHANGED << socket, responses >> /\ requests[u] \in Seq(Message)
      /\ requests'[u] = Append(requests[u], message)
      /\ \A i \in 1 .. Len(requests'[u]) : requests'[u][i] = message \/
            (i \in 1 .. Len(requests[u]) /\ requests'[u][i] = requests[u][i])
  <2>1. \A n \in Nat : \A i \in 1 .. n + 1 : i = n + 1 \/ i \in 1 .. n
    OBVIOUS
  <2>2. QED BY <2>1, SentFrame
<1>2. Consistent(u)' /\ Heard(u)'
  BY <1>1 DEF Each, Consistent, Heard, Active, server, vars, session
<1>3. Conversation(u)'
  <2>1. SUFFICES ASSUME Talking(u)'
                 PROVE  NoTripYet(u)' \/ \E file \in ValidFiles : OnRoute(u, LoadRoute(file))'
    BY DEF Conversation
  <2>2. Talking(u) /\ UNCHANGED trips
    BY <2>1 DEF Talking, server, vars, session
  <2>3. NoTripYet(u) => NoTripYet(u)'
    BY <1>1, <2>2 DEF NoTripYet, OnlyTexts
  <2>4. ASSUME NEW file \in ValidFiles, OnRoute(u, LoadRoute(file))
        PROVE  OnRoute(u, LoadRoute(file))'
    <3> DEFINE route == LoadRoute(file)
    <3>1. Len(route) \in Nat
      BY RouteLength
    <3> HIDE DEF route
    <3>2. PICK served \in 0 .. Len(route) + 2, sentLines \in 0 .. Len(route) + 2 :
            /\ Carries(requests[u], route, served, sentLines)
            /\ ServerAt(u, route, served)
            /\ socket[u] => ClientAt(u, route, sentLines)
      BY <2>4 DEF OnRoute, route
    <3>3. Carries(requests'[u], route, served, sentLines)
      BY <1>1, <3>1, <3>2, CarriesMore DEF Follows
    <3>4. ServerAt(u, route, served)' /\ (socket'[u] => ClientAt(u, route, sentLines)')
      BY <1>1, <2>2, <3>2 DEF ServerAt, ClientAt, Done
    <3>5. OnRoute(u, route)'
      BY <3>2, <3>3, <3>4 DEF OnRoute
    <3>6. QED BY <3>5 DEF route
  <2>5. QED BY <2>2, <2>3, <2>4 DEF Each, Conversation
<1>4. Ending(u)'
  BY <1>1, EndingKept DEF Each
<1>5. QED BY <1>2, <1>3, <1>4 DEF Each

(* The first line of the script.                                             *)
LEMMA BegunEach ==
    ASSUME NEW u \in Users, LinkType, Each(u), NEW file \in ValidFiles,
           Send(u, [type |-> "StartTrip"]), UNCHANGED << server, client >>,
           client[u] = "running",
           app[u].trip_status = "Idle",
           app'[u].trip_status = "Running", app'[u].input_mode = "Command",
           app'[u].connection_status = app[u].connection_status,
           simulator'[u] = StartSimulator(file)
    PROVE  Each(u)'
<1> DEFINE message == [type |-> "StartTrip"]
           route == LoadRoute(file)
<1>1. message \in Message
  BY DEF Message
<1>2. /\ socket[u] /\ UNCHANGED << socket, responses >> /\ requests[u] \in Seq(Message)
      /\ requests'[u] = Append(requests[u], message)
  BY <1>1, SentFrame
<1>3. Consistent(u)'
  BY <1>2 DEF Each, Consistent, Active, StartSimulator
<1>4. Heard(u)'
  BY <1>2 DEF Each, Heard, server, vars, session
<1>5. Conversation(u)'
  <2>1. SUFFICES ASSUME Talking(u)' PROVE OnRoute(u, route)'
    BY DEF Conversation
  <2>2. Talking(u) /\ UNCHANGED trips
    BY <2>1 DEF Talking, server, vars, session
  <2>3. Len(route) \in Nat
    BY RouteLength
  <2>4. NoTripYet(u)
    <3>1. ASSUME NEW other, OnRoute(u, other) PROVE FALSE
      BY <1>2, <3>1 DEF OnRoute, ClientAt, Done
    <3>2. QED BY <2>2, <3>1 DEF Each, Conversation
  <2>5. simulator'[u].route = route /\ simulator'[u].channel = << >>
    BY DEF StartSimulator
  <2> HIDE DEF route
  <2>6. Carries(requests[u], route, 0, 0)
    BY <1>2, <2>3, <2>4, CarriesTexts DEF NoTripYet
  <2>7. 0 \in 0 .. Len(route) + 2 /\ 1 \in 0 .. Len(route) + 2
    BY <2>3
  <2>8. Follows(message, route, 0, 1)
    BY DEF Follows, Script
  <2>9. Carries(requests'[u], route, 0, 1)
    <3> HIDE DEF message
    <3>1. QED BY <1>1, <1>2, <2>3, <2>6, <2>7, <2>8, CarriesMore
  <2>10. ServerAt(u, route, 0)'
    BY <2>2, <2>4 DEF NoTripYet, ServerAt
  <2>11. ClientAt(u, route, 1)'
    <3>1. \A i : 1 - 1 + 0 + i = 0 + i /\ Len(<< >>) = 0
      OBVIOUS
    <3>2. \A i \in 1 .. Len(route) : 1 - 1 + 0 + i = i
      BY <2>3
    <3>3. QED BY <2>3, <2>5, <3>2 DEF ClientAt
  <2>12. QED BY <2>7, <2>9, <2>10, <2>11 DEF OnRoute
<1>6. Ending(u)'
  BY <1>2, EndingKept DEF Each, Done
<1>7. QED BY <1>3, <1>4, <1>5, <1>6 DEF Each

(* The simulator's task moves a point into the channel.                      *)
LEMMA EmittedEach ==
    ASSUME NEW u \in Users, LinkType, Each(u), EmitPoint(u)
    PROVE  Each(u)'
<1> DEFINE s == simulator[u]
           t == simulator'[u]
<1>1. /\ s \in SimulatorType /\ s.route # << >> /\ UNCHANGED << server, client, app, link >>
      /\ t = [s EXCEPT !.route = Tail(s.route), !.channel = Append(s.channel, Head(s.route))]
  BY DEF EmitPoint, LinkType
<1>2. /\ s.route \in Seq(Waypoint) /\ s.channel \in Seq(Waypoint)
      /\ t.running = s.running /\ t.route = Tail(s.route)
      /\ t.channel = Append(s.channel, Head(s.route))
  BY <1>1 DEF SimulatorType
<1>3. UNCHANGED << requests, responses, socket >>
  BY <1>1 DEF link
<1>4. s.running /\ t.running
  BY <1>1, <1>2 DEF Each, Consistent, NoSimulator
<1>5. Consistent(u)'
  BY <1>1, <1>3, <1>4 DEF Each, Consistent, Active
<1>6. Heard(u)'
  BY <1>1, <1>3 DEF Each, Heard, server, vars, session
<1>7. Ending(u)'
  BY <1>1, <1>3, EndingKept DEF Each
<1>8. Conversation(u)'
  <2>1. SUFFICES ASSUME Talking(u)'
                 PROVE  NoTripYet(u)' \/ \E file \in ValidFiles : OnRoute(u, LoadRoute(file))'
    BY DEF Conversation
  <2>2. Talking(u) /\ UNCHANGED trips
    BY <1>1, <2>1 DEF Talking, server, vars, session
  <2>3. NoTripYet(u) => NoTripYet(u)'
    BY <1>1, <1>3, <2>2 DEF NoTripYet
  <2>4. ASSUME NEW route, Len(route) \in Nat, NEW sentLines \in 0 .. Len(route) + 2,
               ClientAt(u, route, sentLines)
        PROVE  ClientAt(u, route, sentLines)'
    <3> DEFINE m == Len(s.channel)
               n == Len(s.route)
    <3>1. /\ m \in Nat /\ n \in Nat \ {0}
          /\ Len(t.route) = n - 1 /\ \A i \in 1 .. n - 1 : t.route[i] = s.route[i + 1]
          /\ Len(t.channel) = m + 1 /\ t.channel[m + 1] = s.route[1]
          /\ \A i \in 1 .. m : t.channel[i] = s.channel[i]
      BY <1>1, <1>2, HeadTailProperties, AppendProperties, LenProperties, EmptySeq
    <3>2. app'[u].trip_status = app[u].trip_status
      BY <1>1
    <3>3. CASE Done(app[u]) /\ sentLines = Len(route) + 2
      BY <3>2, <3>3 DEF ClientAt, Done
    <3>4. CASE ~Done(app[u])
      <4>1. /\ app[u].trip_status = "Running" /\ sentLines = Len(route) + 1 - m - n
            /\ sentLines >= 1
            /\ \A i \in 1 .. m : s.channel[i] = route[sentLines - 1 + i]
            /\ \A i \in 1 .. n : s.route[i] = route[sentLines - 1 + m + i]
        BY <2>4, <3>4 DEF ClientAt
      <4> HIDE DEF m, n, s, t
      <4>2. sentLines = Len(route) + 1 - (m + 1) - (n - 1)
        BY <3>1, <4>1
      <4>3. ASSUME NEW i \in 1 .. m + 1 PROVE t.channel[i] = route[sentLines - 1 + i]
        <5>1. CASE i \in 1 .. m
          BY <3>1, <4>1, <5>1
        <5>2. CASE i = m + 1
          <6>1. sentLines - 1 + m + 1 = sentLines - 1 + i /\ 1 \in 1 .. n
            BY <3>1, <5>2
          <6>2. QED BY <3>1, <4>1, <5>2, <6>1
        <5>3. QED BY <3>1, <5>1, <5>2
      <4>4. ASSUME NEW i \in 1 .. n - 1 PROVE t.route[i] = route[sentLines - 1 + (m + 1) + i]
        <5>1. i + 1 \in 1 .. n /\ sentLines - 1 + m + (i + 1) = sentLines - 1 + (m + 1) + i
          BY <3>1
        <5>2. QED BY <3>1, <4>1, <5>1
      <4>5. QED BY <3>1, <3>2, <4>1, <4>2, <4>3, <4>4 DEF ClientAt, t
    <3>5. Done(app[u]) => sentLines = Len(route) + 2
      BY <2>4 DEF ClientAt, Done
    <3>6. QED BY <3>3, <3>4, <3>5
  <2>5. ASSUME NEW file \in ValidFiles, OnRoute(u, LoadRoute(file))
        PROVE  OnRoute(u, LoadRoute(file))'
    <3> DEFINE route == LoadRoute(file)
    <3>1. Len(route) \in Nat
      BY RouteLength
    <3> HIDE DEF route
    <3>2. PICK served \in 0 .. Len(route) + 2, sentLines \in 0 .. Len(route) + 2 :
            /\ Carries(requests[u], route, served, sentLines)
            /\ ServerAt(u, route, served)
            /\ socket[u] => ClientAt(u, route, sentLines)
      BY <2>5 DEF OnRoute, route
    <3>3. ServerAt(u, route, served)' /\ (socket'[u] => ClientAt(u, route, sentLines)')
      BY <1>3, <2>2, <2>4, <3>1, <3>2 DEF ServerAt
    <3>4. OnRoute(u, route)'
      BY <1>3, <3>2, <3>3 DEF OnRoute
    <3>5. QED BY <3>4 DEF route
  <2>6. QED BY <2>2, <2>3, <2>5 DEF Each, Conversation
<1>9. QED BY <1>5, <1>6, <1>7, <1>8 DEF Each

(* A line of the script is sent while the route is under way.                *)
LEMMA LineSent ==
    ASSUME NEW u \in Users, LinkType, Each(u), NEW message \in Message,
           Send(u, message), UNCHANGED server, app[u].trip_status = "Running",
           \A file \in ValidFiles : \A sentLines \in 0 .. Len(LoadRoute(file)) + 2 :
              ClientAt(u, LoadRoute(file), sentLines) =>
                 /\ Follows(message, LoadRoute(file), sentLines, sentLines + 1)
                 /\ sentLines + 1 \in 0 .. Len(LoadRoute(file)) + 2
                 /\ ClientAt(u, LoadRoute(file), sentLines + 1)'
    PROVE  Conversation(u)'
<1>1. /\ socket[u] /\ UNCHANGED << socket, responses >> /\ requests[u] \in Seq(Message)
      /\ requests'[u] = Append(requests[u], message)
  BY SentFrame
<1>2. SUFFICES ASSUME Talking(u)'
               PROVE  \E file \in ValidFiles : OnRoute(u, LoadRoute(file))'
  BY DEF Conversation
<1>3. Talking(u) /\ UNCHANGED trips
  BY <1>2 DEF Talking, server, vars, session
<1>4. ~NoTripYet(u)
  BY <1>1 DEF NoTripYet
<1>5. PICK file \in ValidFiles : OnRoute(u, LoadRoute(file))
  BY <1>3, <1>4 DEF Each, Conversation
<1> DEFINE route == LoadRoute(file)
<1>6. Len(route) \in Nat
  BY RouteLength
<1>7. PICK served \in 0 .. Len(route) + 2, sentLines \in 0 .. Len(route) + 2 :
        /\ Carries(requests[u], route, served, sentLines)
        /\ ServerAt(u, route, served)
        /\ socket[u] => ClientAt(u, route, sentLines)
  BY <1>5 DEF OnRoute
<1>8. /\ Follows(message, route, sentLines, sentLines + 1)
      /\ sentLines + 1 \in 0 .. Len(route) + 2
      /\ ClientAt(u, route, sentLines + 1)'
  BY <1>1, <1>7
<1> HIDE DEF route
<1>9. Carries(requests'[u], route, served, sentLines + 1)
  BY <1>1, <1>6, <1>7, <1>8, CarriesMore
<1>10. ServerAt(u, route, served)'
  BY <1>3, <1>7 DEF ServerAt
<1>11. OnRoute(u, route)'
  BY <1>7, <1>8, <1>9, <1>10 DEF OnRoute
<1>12. QED BY <1>11 DEF route

LEMMA PointSentEach ==
    ASSUME NEW u \in Users, LinkType, Each(u), simulator[u].channel # << >>,
           Send(u, Update(Head(simulator[u].channel))),
           simulator' = [simulator EXCEPT ![u].channel = Tail(@)],
           UNCHANGED << server, client, app >>
    PROVE  Each(u)'
<1> DEFINE s == simulator[u]
           t == simulator'[u]
           point == Head(s.channel)
           m == Len(s.channel)
           n == Len(s.route)
<1>1. s \in SimulatorType /\ t = [s EXCEPT !.channel = Tail(s.channel)]
  BY DEF LinkType
<1>2. /\ s.route \in Seq(Waypoint) /\ s.channel \in Seq(Waypoint)
      /\ t.running = s.running /\ t.route = s.route /\ t.channel = Tail(s.channel)
  BY <1>1 DEF SimulatorType
<1>3. /\ m \in Nat \ {0} /\ n \in Nat /\ point = s.channel[1] /\ point \in Waypoint
      /\ Len(Tail(s.channel)) = m - 1
      /\ \A i \in 1 .. m - 1 : Tail(s.channel)[i] = s.channel[i + 1]
  BY <1>2, HeadTailProperties, LenProperties, EmptySeq
<1>4. Update(point) \in Message
  BY <1>3 DEF Waypoint, Update, Message
<1>5. s.running /\ app[u].trip_status = "Running"
  BY <1>2 DEF Each, Consistent, NoSimulator
<1>6. socket[u] /\ UNCHANGED << socket, responses >>
  BY <1>4, SentFrame
<1>7. Consistent(u)'
  BY <1>2, <1>5, <1>6 DEF Each, Consistent, Active
<1>8. Heard(u)'
  BY <1>6 DEF Each, Heard, server, vars, session
<1>9. Ending(u)'
  BY <1>6, EndingKept DEF Each
<1>10. ASSUME NEW file \in ValidFiles, NEW sentLines \in 0 .. Len(LoadRoute(file)) + 2,
              ClientAt(u, LoadRoute(file), sentLines)
       PROVE  /\ Follows(Update(point), LoadRoute(file), sentLines, sentLines + 1)
              /\ sentLines + 1 \in 0 .. Len(LoadRoute(file)) + 2
              /\ ClientAt(u, LoadRoute(file), sentLines + 1)'
  <2> DEFINE route == LoadRoute(file)
  <2>1. Len(route) \in Nat
    BY RouteLength
  <2>2. /\ sentLines = Len(route) + 1 - m - n /\ sentLines >= 1
        /\ \A i \in 1 .. m : s.channel[i] = route[sentLines - 1 + i]
        /\ \A i \in 1 .. n : s.route[i] = route[sentLines - 1 + m + i]
    BY <1>5, <1>10 DEF ClientAt, Done
  <2> HIDE DEF route, s, t, m, n
  <2>3. /\ sentLines + 1 # 1 /\ sentLines + 1 # Len(route) + 2 /\ (sentLines + 1) - 1 = sentLines
        /\ sentLines + 1 \in 0 .. Len(route) + 2 /\ sentLines - 1 + 1 = sentLines /\ 1 \in 1 .. m
    BY <1>3, <2>1, <2>2
  <2>4. point = route[sentLines]
    BY <1>3, <2>2, <2>3
  <2>5. Follows(Update(point), route, sentLines, sentLines + 1)
    BY <2>3, <2>4 DEF Follows, Script
  <2>6. Len(t.channel) = m - 1 /\ Len(t.route) = n /\ t.channel = Tail(s.channel) /\ t.route = s.route
    BY <1>2, <1>3 DEF n
  <2>7. sentLines + 1 = Len(route) + 1 - (m - 1) - n /\ sentLines + 1 >= 1
    BY <1>3, <2>1, <2>2
  <2>8. ASSUME NEW i \in 1 .. m - 1 PROVE t.channel[i] = route[(sentLines + 1) - 1 + i]
    <3>1. i + 1 \in 1 .. m /\ sentLines - 1 + (i + 1) = (sentLines + 1) - 1 + i
      BY <1>3
    <3>2. QED BY <1>3, <2>2, <2>6, <3>1
  <2>9. ASSUME NEW i \in 1 .. n PROVE t.route[i] = route[(sentLines + 1) - 1 + (m - 1) + i]
    <3>1. sentLines - 1 + m + i = (sentLines + 1) - 1 + (m - 1) + i
      BY <1>3
    <3>2. QED BY <2>2, <2>6, <3>1
  <2>10. ClientAt(u, route, sentLines + 1)'
    BY <1>5, <2>6, <2>7, <2>8, <2>9 DEF ClientAt, t
  <2>11. QED BY <2>3, <2>5, <2>10 DEF route
<1>11. Conversation(u)'
  <2> HIDE DEF point
  <2>1. Send(u, Update(point))
    BY DEF point
  <2>2. QED BY <1>4, <1>5, <1>10, <2>1, LineSent
<1>12. QED BY <1>7, <1>8, <1>9, <1>11 DEF Each

LEMMA LastSentEach ==
    ASSUME NEW u \in Users, LinkType, Each(u),
           simulator[u] = [NoSimulator EXCEPT !.running = TRUE],
           Send(u, [type |-> "TripCompleted"]),
           simulator' = [simulator EXCEPT ![u] = NoSimulator],
           app' = [app EXCEPT ![u] = MarkRouteFinished(@)],
           UNCHANGED << server, client >>
    PROVE  Each(u)'
<1> DEFINE message == [type |-> "TripCompleted"]
<1>1. message \in Message
  BY DEF Message
<1>2. /\ simulator[u].running /\ simulator[u].route = << >> /\ simulator[u].channel = << >>
      /\ simulator'[u] = NoSimulator /\ ~NoSimulator.running
  BY DEF NoSimulator, LinkType
<1>3. app[u].trip_status = "Running"
  BY <1>2 DEF Each, Consistent
<1>4. /\ app'[u].trip_status = "AwaitingCompletion"
      /\ app'[u].connection_status = app[u].connection_status
      /\ app'[u].input_mode = app[u].input_mode
  <2>1. app[u] \in AppOK /\ app'[u] = MarkRouteFinished(app[u])
    BY DEF LinkType
  <2>2. QED BY <1>3, <2>1 DEF MarkRouteFinished, AppOK, AppType
<1>5. socket[u] /\ UNCHANGED << socket, responses >>
  BY <1>1, SentFrame
<1>6. Consistent(u)'
  BY <1>2, <1>3, <1>4, <1>5 DEF Each, Consistent, Active, NewApp
<1>7. Heard(u)'
  BY <1>5 DEF Each, Heard, server, vars, session
<1>8. Ending(u)'
  BY <1>4, <1>5, EndingKept DEF Each, Done
<1>9. ASSUME NEW file \in ValidFiles, NEW sentLines \in 0 .. Len(LoadRoute(file)) + 2,
             ClientAt(u, LoadRoute(file), sentLines)
      PROVE  /\ Follows(message, LoadRoute(file), sentLines, sentLines + 1)
             /\ sentLines + 1 \in 0 .. Len(LoadRoute(file)) + 2
             /\ ClientAt(u, LoadRoute(file), sentLines + 1)'
  <2> DEFINE route == LoadRoute(file)
  <2>1. Len(route) \in Nat \ {0}
    BY RouteLength
  <2> HIDE DEF route
  <2>2. sentLines = Len(route) + 1
    <3>1. Len(simulator[u].channel) = 0 /\ Len(simulator[u].route) = 0
      BY <1>2
    <3>2. sentLines = Len(route) + 1 - Len(simulator[u].channel) - Len(simulator[u].route)
      BY <1>3, <1>9 DEF ClientAt, Done, route
    <3>3. QED BY <2>1, <3>1, <3>2
  <2>3. sentLines + 1 = Len(route) + 2 /\ sentLines + 1 # 1 /\ sentLines + 1 \in 0 .. Len(route) + 2
    BY <2>1, <2>2
  <2>4. Follows(message, route, sentLines, sentLines + 1)
    BY <2>3 DEF Follows, Script
  <2>5. ClientAt(u, route, sentLines + 1)'
    BY <1>4, <2>3 DEF ClientAt, Done
  <2>6. QED BY <2>3, <2>4, <2>5 DEF route
<1>10. Conversation(u)'
  <2> HIDE DEF message
  <2>1. Send(u, message)
    BY DEF message
  <2>2. QED BY <1>1, <1>3, <1>9, <2>1, LineSent
<1>11. QED BY <1>6, <1>7, <1>8, <1>10 DEF Each

LEMMA BeginEach ==
    ASSUME NEW u \in Users, LinkType, Each(u), NEW file \in RouteFiles, BeginTrip(u, file),
           client[u] = "running", app[u].input_mode # "Command", UNCHANGED << server, client >>
    PROVE  Each(u)'
<1> DEFINE a == [app[u] EXCEPT !.input_mode = "Command", !.selected_route = NoFile]
<1>1. app[u] \in AppOK /\ app \in [Users -> AppOK] /\ app[u].trip_status = "Idle"
  BY DEF LinkType, Each, Consistent
<1>2. /\ a \in AppOK /\ a.trip_status = "Idle" /\ a.input_mode = "Command"
      /\ a.connection_status = app[u].connection_status
  BY <1>1 DEF AppOK, AppType
<1> HIDE DEF a
<1>3. CASE ~ValidRoute(file) /\ app' = [app EXCEPT ![u] = InvalidateActiveTrip(a)]
           /\ UNCHANGED << link, simulator >>
  <2>1. /\ app'[u].trip_status = "Idle" /\ app'[u].input_mode = "Command"
        /\ app'[u].connection_status = app[u].connection_status
    BY <1>1, <1>2, <1>3 DEF InvalidateActiveTrip, AppOK, AppType
  <2>2. UNCHANGED << requests, responses, socket >>
    BY <1>3 DEF link
  <2>3. QED BY <1>1, <1>3, <2>1, <2>2, SteadyEach
<1>4. CASE SendFailed(u, a)
  <2>1. Disconnected(u, a) /\ UNCHANGED requests
    BY <1>4 DEF SendFailed
  <2>2. QED BY <1>1, <1>2, <2>1, CutEach
<1>5. CASE /\ ValidRoute(file) /\ Send(u, [type |-> "StartTrip"])
           /\ simulator' = [simulator EXCEPT ![u] = StartSimulator(file)]
           /\ app' = [app EXCEPT ![u] = [a EXCEPT !.trip_status = "Running"]]
  <2>1. file \in ValidFiles
    BY <1>5 DEF ValidFiles
  <2>2. /\ app'[u].trip_status = "Running" /\ app'[u].input_mode = "Command"
        /\ app'[u].connection_status = app[u].connection_status
    BY <1>1, <1>2, <1>5 DEF AppOK, AppType
  <2>3. simulator'[u] = StartSimulator(file)
    BY <1>5 DEF LinkType
  <2>4. QED BY <1>1, <1>5, <2>1, <2>2, <2>3, BegunEach
<1>6. QED BY <1>3, <1>4, <1>5 DEF BeginTrip, a

LEMMA SelectEach ==
    ASSUME NEW u \in Users, LinkType, Each(u),
           SelectSpeed(u) \/ \E file \in RouteFiles : SelectRoute(u, file)
    PROVE  Each(u)'
<1>1. app[u] \in AppOK
  BY DEF LinkType
<1>2. CASE SelectSpeed(u)
  <2>1. app[u].selected_route \in RouteFiles /\ app[u].input_mode # "Command"
    BY <1>1, <1>2 DEF SelectSpeed, AppOK, AppType
  <2>2. QED BY <1>2, <2>1, BeginEach DEF SelectSpeed
<1>3. ASSUME NEW file \in RouteFiles, SelectRoute(u, file) PROVE Each(u)'
  <2>1. app[u].input_mode # "Command" /\ client[u] = "running" /\ UNCHANGED << server, client >>
    BY <1>3 DEF SelectRoute
  <2>2. CASE BeginTrip(u, file)
    BY <2>1, <2>2, BeginEach
  <2>3. CASE /\ app' = [app EXCEPT ![u].input_mode = "SpeedSelection", ![u].selected_route = file]
             /\ UNCHANGED << link, simulator >>
    <3>1. /\ app'[u].trip_status = app[u].trip_status
          /\ app'[u].connection_status = app[u].connection_status
      BY <1>1, <2>3 DEF LinkType, AppOK, AppType
    <3>2. app[u].trip_status = "Idle"
      BY <2>1 DEF Each, Consistent
    <3>3. UNCHANGED << requests, responses, socket >>
      BY <2>3 DEF link
    <3>4. QED BY <2>1, <2>3, <3>1, <3>2, <3>3, SteadyEach
  <2>4. QED BY <1>3, <2>2, <2>3 DEF SelectRoute
<1>4. QED BY <1>2, <1>3

LEMMA ClientEach ==
    ASSUME NEW u \in Users, IInv, LinkType, Each(u), ClientStep(u)
    PROVE  Each(u)'
<1>1. app[u] \in AppOK
  BY DEF LinkType
<1>2. app[u] # NewApp => client[u] = "running"
  BY DEF Each, Consistent
<1>3. socket[u] \/ simulator[u].running => app[u] # NewApp
  BY DEF Each, Consistent, NewApp
<1>4. ASSUME SendFailed(u, app[u]), client[u] = "running", UNCHANGED << server, client >>
      PROVE  Each(u)'
  <2>1. Disconnected(u, app[u]) /\ UNCHANGED requests
    BY <1>4 DEF SendFailed
  <2>2. QED BY <1>1, <1>4, <2>1, CutEach
<1>5. CASE Login(u)
  BY <1>5, LoginEach
<1>6. CASE FirstConnect(u)
  <2>1. client[u] = "starting" /\ simulator' = simulator
    BY <1>6 DEF FirstConnect
  <2>2. ~socket[u]
    BY <1>2, <1>3, <2>1
  <2>3. CASE OpenSocket(u) /\ client' = [client EXCEPT ![u] = "running"]
    <3>1. client'[u] = "running"
      BY <2>3 DEF LinkType
    <3>2. QED BY <2>1, <2>2, <2>3, <3>1, OpenedEach
  <2>4. CASE client' = [client EXCEPT ![u] = "off"] /\ UNCHANGED << server, app, link >>
    <3>1. client'[u] = "off"
      BY <2>4 DEF LinkType
    <3>2. QED BY <2>1, <2>4, <3>1, FirstFailsEach
  <2>5. CASE /\ client' = [client EXCEPT ![u] = "running"]
             /\ app' = [app EXCEPT ![u] = MarkDisconnected(@)] /\ UNCHANGED << server, link >>
    <3>1. client'[u] = "running"
      BY <2>5 DEF LinkType
    <3>2. QED BY <2>1, <2>5, <3>1, FirstFailsEach
  <2>6. QED BY <1>6, <2>3, <2>4, <2>5 DEF FirstConnect
<1>7. CASE Reconnect(u)
  BY <1>7, OpenedEach DEF Reconnect
<1>8. CASE Exit(u)
  BY <1>8, ExitEach
<1>9. CASE LoseConnection(u)
  BY <1>1, <1>2, <1>3, <1>9, CutEach DEF LoseConnection
<1>10. CASE StartCommand(u)
  BY <1>10, StartCommandEach
<1>11. CASE SelectSpeed(u) \/ \E file \in RouteFiles : SelectRoute(u, file)
  BY <1>11, SelectEach
<1>12. ASSUME NEW long \in BOOLEAN, SendText(u, long) PROVE Each(u)'
  <2> DEFINE message == [type |-> "Text", text |-> sent[u] + 1, long |-> long]
  <2>1. client[u] = "running" /\ UNCHANGED << server, client >>
    BY <1>12 DEF SendText
  <2>2. CASE Send(u, message) /\ UNCHANGED << app, simulator >>
    <3>1. message \in Message /\ message.type = "Text"
      BY DEF LinkType, Message
    <3> HIDE DEF message
    <3>2. QED BY <2>1, <2>2, <3>1, TextEach
  <2>3. QED BY <1>4, <1>12, <2>1, <2>2 DEF SendText
<1>13. CASE EmitPoint(u)
  BY <1>13, EmittedEach
<1>14. CASE RoutePoint(u)
  <2>1. simulator[u].channel # << >> /\ UNCHANGED << server, client >>
    BY <1>14 DEF RoutePoint
  <2>2. client[u] = "running"
    BY <1>2, <1>3, <2>1 DEF Each, Consistent, NoSimulator
  <2>3. \/ /\ Send(u, Update(Head(simulator[u].channel)))
           /\ simulator' = [simulator EXCEPT ![u].channel = Tail(@)] /\ UNCHANGED app
        \/ SendFailed(u, app[u])
    BY <1>14 DEF RoutePoint, Update
  <2>4. QED BY <1>4, <2>1, <2>2, <2>3, PointSentEach
<1>15. CASE RouteFinished(u)
  <2>1. simulator[u].running /\ UNCHANGED << server, client >>
    BY <1>15 DEF RouteFinished, NoSimulator
  <2>2. client[u] = "running"
    BY <1>2, <1>3, <2>1
  <2>3. QED BY <1>4, <1>15, <2>1, <2>2, LastSentEach DEF RouteFinished
<1>16. CASE ServerText(u)
  BY <1>16, ServerTextEach
<1>17. QED BY <1>5, <1>6, <1>7, <1>8, <1>9, <1>10, <1>11, <1>12, <1>13, <1>14, <1>15, <1>16
           DEF ClientStep, LocalStep
-----------------------------------------------------------------------------
(* The session serves the messages of its client.                            *)

LEMMA ServeFrame ==
    ASSUME NEW u \in Users, IInv, LinkType, Each(u), ServeRequest(u)
    PROVE  /\ pc[u] = "looping" /\ closing[u] = FALSE /\ reply[u] = "none"
           /\ requests[u] # << >> /\ requests[u] \in Seq(Message)
           /\ requests'[u] = Tail(requests[u]) /\ Head(requests[u]) \in Message
           /\ UNCHANGED << client, app, socket, responses, simulator >>
           /\ Consistent(u)'
<1>1. /\ pc[u] = "looping" /\ requests[u] # << >> /\ requests'[u] = Tail(requests[u])
      /\ UNCHANGED << client, app, socket, responses, simulator >>
  BY DEF ServeRequest, LinkType
<1>2. closing[u] = FALSE /\ reply[u] = "none"
  BY <1>1, UserFields DEF IInv, UserOK, SessionOK
<1>3. requests[u] \in Seq(Message) /\ Head(requests[u]) \in Message
  BY <1>1, HeadOfRequests DEF LinkType
<1>4. Consistent(u)'
  BY <1>1 DEF Each, Consistent, Active
<1>5. QED BY <1>1, <1>2, <1>3, <1>4

(* A session that goes on has nothing to say of an end.                      *)
LEMMA GoesOn ==
    ASSUME NEW u \in Users, Each(u), pc[u] = "looping", UNCHANGED << app, socket, responses >>,
           pc'[u] \in {"looping", "replying"}, closing'[u] = FALSE,
           reply'[u] \notin Bad
    PROVE  Ending(u)' /\ Heard(u)' /\ (Talking(u)' <=> TRUE)
<1>1. /\ \A i \in 1 .. Len(responses[u]) : responses[u][i] # "trip_completed"
      /\ app[u].trip_status # "WaitingReconnect"
  BY DEF Each, Ending, Over
<1>2. Ending(u)'
  BY <1>1 DEF Ending, Saving
<1>3. Heard(u)'
  BY DEF Each, Heard
<1>4. Talking(u)'
  BY DEF Talking
<1>5. QED BY <1>2, <1>3, <1>4

(* Where the messages left stand after one was served.                       *)
LEMMA ServedEach ==
    ASSUME NEW u \in Users, IInv, LinkType, Each(u), ServeRequest(u),
           pc'[u] \in {"looping", "replying"}, closing'[u] = FALSE, reply'[u] \notin Bad,
           NEW route, Len(route) \in Nat,
           NEW served \in 0 .. Len(route) + 2, NEW sentLines \in 0 .. Len(route) + 2,
           Carries(Tail(requests[u]), route, served, sentLines),
           ServerAt(u, route, served)',
           socket[u] => ClientAt(u, route, sentLines)
    PROVE  OnRoute(u, route)'
<1>1. requests'[u] = Tail(requests[u]) /\ UNCHANGED << app, socket, simulator >>
  BY ServeFrame
<1>2. socket'[u] => ClientAt(u, route, sentLines)'
  BY <1>1 DEF ClientAt, Done
<1>3. QED BY <1>1, <1>2 DEF OnRoute

LEMMA TextServedEach ==
    ASSUME NEW u \in Users, IInv, LinkType, Each(u), ServeRequest(u),
           Head(requests[u]).type = "Text"
    PROVE  Each(u)'
<1> DEFINE message == Head(requests[u])
<1>1. /\ pc[u] = "looping" /\ closing[u] = FALSE /\ reply[u] = "none"
      /\ requests[u] # << >> /\ requests[u] \in Seq(Message)
      /\ requests'[u] = Tail(requests[u]) /\ message \in Message
      /\ UNCHANGED << client, app, socket, responses, simulator >>
      /\ Consistent(u)'
  BY ServeFrame
<1>2. ServeText(u, message)
  BY DEF ServeRequest
<1>3. /\ UNCHANGED << trips, closing >> /\ pc'[u] \in {"looping", "replying"}
      /\ reply'[u] \in {"none", "validation_error", "internal_error"}
  BY <1>1, <1>2 DEF ServeText, Refuse, Answer, Goto, server, vars, session, IInv, TypeOK
<1>4. Ending(u)' /\ Heard(u)' /\ Talking(u)'
  BY <1>1, <1>3, GoesOn DEF Bad
<1>5. CASE NoTripYet(u)
  <2>1. OnlyTexts(Tail(requests[u]))
    BY <1>1, <1>5, HeadOfRequests DEF NoTripYet, OnlyTexts
  <2>2. NoTripYet(u)'
    BY <1>1, <1>3, <1>5, <2>1 DEF NoTripYet
  <2>3. QED BY <1>1, <1>4, <2>2 DEF Each, Conversation
<1>6. ASSUME NEW file \in ValidFiles, OnRoute(u, LoadRoute(file))
      PROVE  OnRoute(u, LoadRoute(file))'
  <2> DEFINE route == LoadRoute(file)
  <2>1. Len(route) \in Nat
    BY RouteLength
  <2> HIDE DEF route
  <2>2. PICK served \in 0 .. Len(route) + 2, sentLines \in 0 .. Len(route) + 2 :
          /\ Carries(requests[u], route, served, sentLines)
          /\ ServerAt(u, route, served)
          /\ socket[u] => ClientAt(u, route, sentLines)
    BY <1>6 DEF OnRoute, route
  <2>3. PICK next \in 0 .. Len(route) + 2 :
          /\ Follows(message, route, served, next)
          /\ Carries(Tail(requests[u]), route, next, sentLines)
    BY <1>1, <2>1, <2>2, CarriesLess
  <2>4. next = served
    BY <2>1, <2>3 DEF Follows, Script, Update
  <2>5. ServerAt(u, route, served)'
    BY <1>3, <2>2 DEF ServerAt
  <2>6. OnRoute(u, route)'
    BY <1>1, <1>3, <2>1, <2>2, <2>3, <2>4, <2>5, ServedEach DEF Bad
  <2>7. QED BY <2>6 DEF route
<1>7. QED BY <1>1, <1>4, <1>5, <1>6 DEF Each, Conversation, Talking

(* The first line starts the trip.                                           *)
LEMMA StartServed ==
    ASSUME NEW u \in Users, IInv, LinkType, Each(u), ServeRequest(u),
           NEW route, Head(requests[u]) = Script(route, 1), u \notin DOMAIN trips
    PROVE  /\ pc'[u] \in {"looping", "replying"} /\ closing'[u] = FALSE /\ reply'[u] \notin Bad
           /\ ServerAt(u, route, 1)'
<1>1. Head(requests[u]).type = "StartTrip"
  BY DEF Script
<1>2. StartTrip(u)
  BY <1>1 DEF ServeRequest
<1>3. /\ pc'[u] = "replying" /\ closing'[u] = FALSE /\ reply'[u] = "trip_started"
      /\ trips' = Put(trips, u, NewTrip)
  BY <1>2, ServeFrame DEF StartTrip, Answer, Goto, IInv, TypeOK
<1>4. u \in DOMAIN trips' /\ trips'[u].positions = << >>
  BY <1>3 DEF Put, NewTrip
<1>5. ServerAt(u, route, 1)'
  BY <1>4 DEF ServerAt
<1>6. QED BY <1>3, <1>5 DEF Bad

(* A point of the route is accepted: it is the next, in time.                *)
LEMMA PointServed ==
    ASSUME NEW u \in Users, IInv, LinkType, Each(u), ServeRequest(u),
           NEW file \in ValidFiles, NEW route, route = LoadRoute(file),
           NEW served \in 1 .. Len(route), ServerAt(u, route, served),
           Head(requests[u]) = Update(route[served])
    PROVE  /\ pc'[u] \in {"looping", "replying"} /\ closing'[u] = FALSE /\ reply'[u] \notin Bad
           /\ ServerAt(u, route, served + 1)'
<1> DEFINE t == trips[u]
           point == route[served]
           sample == [coordinates |-> point.coordinates, elapsed_seconds |-> point.time]
<1>1. PositionUpdate(u, point.coordinates, point.time)
  BY DEF ServeRequest, Update
<1>2. /\ Len(file) \in Nat \ {0} /\ Len(route) = Len(file) /\ route \in Seq(Waypoint)
      /\ route[1].time = 0
      /\ \A i \in 1 .. Len(route) - 1 :
            route[i + 1].time = route[i].time + POSITION_INTERVAL_SECONDS
  BY Loaded
<1>3. /\ u \in DOMAIN trips /\ served = Len(t.positions) + 1
      /\ \A i \in 1 .. Len(t.positions) :
            t.positions[i] = [coordinates |-> route[i].coordinates,
                              elapsed_seconds |-> route[i].time]
  BY DEF ServerAt
<1>4. t \in TripType /\ t.positions \in Seq(PositionSample) /\ Len(t.positions) \in Nat
      /\ (t.positions = << >> <=> Len(t.positions) = 0)
  BY <1>3, TripInMemory, LenProperties, EmptySeq
<1>5. point \in Waypoint
  BY <1>2
<1>6. point.time \in 0 .. MaxElapsed /\ sample \in PositionSample
  BY <1>5, ServiceAssumption DEF Waypoint, PositionSample
<1>7. PositionResult(t, point.time) = "Ok"
  <2>1. CASE t.positions = << >>
    BY <1>2, <1>3, <1>4, <2>1 DEF PositionResult
  <2>2. CASE t.positions # << >>
    <3>1. /\ Len(t.positions) \in 1 .. Len(t.positions) /\ Len(t.positions) \in 1 .. Len(route) - 1
          /\ served = Len(t.positions) + 1
      BY <1>2, <1>3, <1>4, <2>2
    <3>2. Previous(t).elapsed_seconds = route[Len(t.positions)].time
      <4>1. Previous(t) = t.positions[Len(t.positions)]
        BY DEF Previous
      <4>2. t.positions[Len(t.positions)]
              = [coordinates |-> route[Len(t.positions)].coordinates,
                 elapsed_seconds |-> route[Len(t.positions)].time]
        BY <1>3, <3>1
      <4>3. QED BY <4>1, <4>2
    <3>3. Expected(t) = point.time
      BY <1>2, <3>1, <3>2 DEF Expected
    <3>4. ~ (Expected(t) > MaxElapsed)
      BY <1>6, <3>3, TripAssumption
    <3>5. QED BY <2>2, <3>3, <3>4 DEF PositionResult
  <2>3. QED BY <2>1, <2>2
<1> HIDE DEF point
<1>8. /\ pc'[u] = "replying" /\ closing'[u] = FALSE /\ reply'[u] = "position_accepted"
      /\ trips' = [trips EXCEPT ![u] = RecordPosition(@, point.coordinates, point.time)]
  BY <1>1, <1>3, <1>7, ServeFrame DEF PositionUpdate, Answer, Goto, IInv, TypeOK
<1>9. u \in DOMAIN trips' /\ trips'[u] = RecordPosition(t, point.coordinates, point.time)
  BY <1>3, <1>8
<1>10. trips'[u].positions = Append(t.positions, sample)
  <2> DEFINE updated == IF t.positions = << >>
                          THEN FirstPosition(t)
                          ELSE AccountInterval(t, point.coordinates # Previous(t).coordinates)
  <2>1. RecordPosition(t, point.coordinates, point.time)
          = [updated EXCEPT !.positions = Append(@, sample)]
    BY <1>7 DEF RecordPosition
  <2>2. updated \in TripType /\ updated.positions = t.positions
    <3>1. PendingOK(t)
      BY <1>3 DEF IInv, UserOK, TripOK
    <3>2. Accounted(t, AccountInterval(t, point.coordinates # Previous(t).coordinates),
                    IF t.state = "Disconnected" THEN 0 ELSE POSITION_INTERVAL_SECONDS)
      BY <1>4, <3>1, AccountIntervalAccounts
    <3>3. FirstPosition(t) \in TripType /\ FirstPosition(t).positions = t.positions
      BY <1>4 DEF FirstPosition, TripType, UserState
    <3>4. QED BY <3>2, <3>3 DEF Accounted
  <2> HIDE DEF updated, sample
  <2>3. QED BY <1>6, <1>9, <2>1, <2>2, PushPosition
<1>11. /\ Len(Append(t.positions, sample)) = served /\ Append(t.positions, sample)[served] = sample
       /\ \A i \in 1 .. served - 1 : Append(t.positions, sample)[i] = t.positions[i]
  BY <1>3, <1>4, <1>6, AppendProperties
<1>12. \A i \in 1 .. served : trips'[u].positions[i] = [coordinates |-> route[i].coordinates,
                                                        elapsed_seconds |-> route[i].time]
  <2>1. \A i \in 1 .. served : i = served \/ i \in 1 .. Len(t.positions)
    BY <1>3, <1>4
  <2>2. QED BY <1>3, <1>10, <1>11, <2>1 DEF point
<1>13. ServerAt(u, route, served + 1)'
  BY <1>9, <1>10, <1>11, <1>12 DEF ServerAt
<1>14. QED BY <1>8, <1>13 DEF Bad

(* The last line completes the trip: what was accepted is the file.          *)
LEMMA LastServed ==
    ASSUME NEW u \in Users, IInv, LinkType, Each(u), ServeRequest(u),
           NEW file \in ValidFiles, NEW route, route = LoadRoute(file),
           Head(requests[u]) = [type |-> "TripCompleted"],
           ServerAt(u, route, Len(route) + 1),
           socket[u] => ClientAt(u, route, Len(route) + 2)
    PROVE  Each(u)'
<1>1. /\ pc[u] = "looping" /\ closing[u] = FALSE /\ reply[u] = "none"
      /\ UNCHANGED << client, app, socket, responses, simulator >>
      /\ Consistent(u)'
  BY ServeFrame
<1>2. FinishTrip(u)
  BY DEF ServeRequest
<1>3. /\ Len(file) \in Nat \ {0} /\ Len(route) = Len(file)
      /\ \A i \in 1 .. Len(file) : route[i].coordinates = file[i].point
  BY Loaded
<1>4. /\ u \in DOMAIN trips /\ Len(trips[u].positions) = Len(file)
      /\ \A i \in 1 .. Len(file) : trips[u].positions[i].coordinates = file[i].point
  <2>1. /\ u \in DOMAIN trips /\ Len(route) + 1 = Len(trips[u].positions) + 1
        /\ \A i \in 1 .. Len(trips[u].positions) :
              trips[u].positions[i] = [coordinates |-> route[i].coordinates,
                                       elapsed_seconds |-> route[i].time]
    BY <1>3 DEF ServerAt
  <2>2. Len(trips[u].positions) \in Nat
    BY <2>1, TripInMemory
  <2>3. Len(trips[u].positions) = Len(file)
    BY <1>3, <2>1, <2>2
  <2>4. ASSUME NEW i \in 1 .. Len(file) PROVE trips[u].positions[i].coordinates = file[i].point
    <3>1. trips[u].positions[i] = [coordinates |-> route[i].coordinates,
                                   elapsed_seconds |-> route[i].time]
      BY <2>1, <2>3
    <3>2. QED BY <1>3, <3>1
  <2>5. QED BY <2>1, <2>3, <2>4
<1>5. /\ pc'[u] = "finished" /\ reply'[u] = "none"
      /\ UNCHANGED << run, accepted >>
  BY <1>1, <1>2, <1>4 DEF FinishTrip, Goto, history, IInv, TypeOK
<1>6. accepted[run[u]] = PointsIn(file)
  <2>1. /\ Len(accepted[run[u]]) = Len(file) /\ accepted[run[u]] \in Seq(Coordinates)
        /\ \A i \in 1 .. Len(accepted[run[u]]) :
              trips[u].positions[i] = Sample(accepted[run[u]], i)
    BY <1>4, TripInMemory DEF IInv, UserOK, TripOK
  <2>2. ASSUME NEW i \in 1 .. Len(file) PROVE accepted[run[u]][i] = file[i].point
    <3>1. trips[u].positions[i] = [coordinates |-> accepted[run[u]][i],
                                   elapsed_seconds |-> (i - 1) * POSITION_INTERVAL_SECONDS]
      BY <2>1 DEF Sample
    <3>2. QED BY <1>4, <3>1
  <2>3. accepted[run[u]] = [i \in 1 .. Len(file) |-> accepted[run[u]][i]]
    BY <2>1
  <2>4. QED BY <2>2, <2>3 DEF PointsIn
<1>7. socket[u] => Done(app[u])
  <2>1. Len(simulator[u].channel) \in Nat /\ Len(simulator[u].route) \in Nat
    <3>1. simulator[u].channel \in Seq(Waypoint) /\ simulator[u].route \in Seq(Waypoint)
      BY DEF LinkType, SimulatorType
    <3>2. QED BY <3>1, LenProperties
  <2>2. \A a, b, n \in Nat : n + 2 # n + 1 - a - b
    OBVIOUS
  <2>3. Len(route) \in Nat
    BY <1>3
  <2>4. Len(route) + 2 # Len(route) + 1 - Len(simulator[u].channel) - Len(simulator[u].route)
    BY <2>1, <2>2, <2>3
  <2>5. QED BY <2>4 DEF ClientAt
<1>8. /\ \A i \in 1 .. Len(responses[u]) : responses[u][i] # "trip_completed"
      /\ app[u].trip_status # "WaitingReconnect"
  BY <1>1 DEF Each, Ending, Over
<1>9. Heard(u)'
  BY <1>1, <1>5 DEF Each, Heard, Bad
<1>10. Conversation(u)'
  BY <1>5 DEF Conversation, Talking
<1>11. Ending(u)'
  BY <1>1, <1>5, <1>6, <1>7, <1>8 DEF Ending
<1>12. QED BY <1>1, <1>9, <1>10, <1>11 DEF Each

LEMMA ServeEach ==
    ASSUME NEW u \in Users, IInv, LinkType, Each(u), ServeRequest(u)
    PROVE  Each(u)'
<1> DEFINE message == Head(requests[u])
<1>1. /\ pc[u] = "looping" /\ requests[u] # << >> /\ requests[u] \in Seq(Message)
      /\ message \in Message /\ Consistent(u)'
      /\ UNCHANGED << client, app, socket, responses, simulator >>
  BY ServeFrame
<1>2. CASE message.type = "Text"
  BY <1>2, TextServedEach
<1>3. CASE message.type # "Text"
  <2>1. ~NoTripYet(u)
    BY <1>1, <1>3, HeadOfRequests DEF NoTripYet, OnlyTexts
  <2>2. PICK file \in ValidFiles : OnRoute(u, LoadRoute(file))
    BY <1>1, <2>1 DEF Each, Conversation, Talking
  <2> DEFINE route == LoadRoute(file)
  <2>3. Len(route) \in Nat \ {0}
    BY RouteLength
  <2>4. PICK served \in 0 .. Len(route) + 2, sentLines \in 0 .. Len(route) + 2 :
          /\ Carries(requests[u], route, served, sentLines)
          /\ ServerAt(u, route, served)
          /\ socket[u] => ClientAt(u, route, sentLines)
    BY <2>2 DEF OnRoute
  <2> HIDE DEF route
  <2>5. PICK next \in 0 .. Len(route) + 2 :
          /\ Follows(message, route, served, next) /\ next <= sentLines
          /\ Carries(Tail(requests[u]), route, next, sentLines)
    BY <1>1, <2>3, <2>4, CarriesLess
  <2>6. next = served + 1 /\ message = Script(route, served + 1)
    BY <1>3, <2>5 DEF Follows
  <2>7. ASSUME /\ pc'[u] \in {"looping", "replying"} /\ closing'[u] = FALSE /\ reply'[u] \notin Bad
               /\ ServerAt(u, route, served + 1)'
        PROVE  Each(u)'
    <3>1. Ending(u)' /\ Heard(u)' /\ Talking(u)'
      BY <1>1, <2>7, GoesOn
    <3>2. OnRoute(u, route)'
      BY <2>3, <2>4, <2>5, <2>6, <2>7, ServedEach
    <3>3. OnRoute(u, LoadRoute(file))'
      BY <3>2 DEF route
    <3>4. QED BY <1>1, <3>1, <3>3 DEF Each, Conversation
  <2>8. CASE served = 0
    <3>1. u \notin DOMAIN trips
      <4>1. u \in DOMAIN trips => Len(trips[u].positions) \in Nat
        BY TripInMemory
      <4>2. QED BY <2>4, <2>8, <4>1 DEF ServerAt
    <3>2. message = Script(route, 1)
      BY <2>6, <2>8
    <3>3. /\ pc'[u] \in {"looping", "replying"} /\ closing'[u] = FALSE /\ reply'[u] \notin Bad
          /\ ServerAt(u, route, 1)'
      BY <3>1, <3>2, StartServed
    <3>4. served + 1 = 1
      BY <2>8
    <3>5. ServerAt(u, route, served + 1)'
      BY <3>3, <3>4
    <3>6. QED BY <2>7, <3>3, <3>5
  <2>9. CASE served \in 1 .. Len(route)
    <3>1. served + 1 # 1 /\ served + 1 # Len(route) + 2 /\ (served + 1) - 1 = served
      BY <2>3, <2>9
    <3>2. message = Update(route[served])
      BY <2>6, <3>1 DEF Script
    <3>3. route = LoadRoute(file)
      BY DEF route
    <3>4. QED BY <2>4, <2>7, <2>9, <3>2, <3>3, PointServed
  <2>10. CASE served = Len(route) + 1
    <3>1. sentLines = Len(route) + 2 /\ served + 1 # 1 /\ served + 1 = Len(route) + 2
      BY <2>3, <2>5, <2>6, <2>10
    <3>2. message = [type |-> "TripCompleted"]
      BY <2>6, <3>1 DEF Script
    <3>3. ServerAt(u, route, Len(route) + 1) /\ (socket[u] => ClientAt(u, route, Len(route) + 2))
      BY <2>4, <2>10, <3>1
    <3>4. route = LoadRoute(file)
      BY DEF route
    <3>5. QED BY <3>2, <3>3, <3>4, LastServed
  <2>11. QED
    <3>1. served + 1 \in 0 .. Len(route) + 2
      BY <2>5, <2>6
    <3>2. served = 0 \/ served \in 1 .. Len(route) \/ served = Len(route) + 1
      BY <2>3, <3>1
    <3>3. QED BY <2>8, <2>9, <2>10, <3>2
<1>4. QED BY <1>2, <1>3
-----------------------------------------------------------------------------
(* The other steps of the server.                                            *)

(* The session saves, ends, or stops with the server.                        *)
LEMMA EndsEach ==
    ASSUME NEW u \in Users, IInv, IInv', Each(u),
           UNCHANGED << client, app, socket, requests, responses, simulator >>,
           Grows, run'[u] = run[u], ~Talking(u)', reply'[u] \notin Bad,
           pc'[u] \in Saving => pc[u] \in Saving /\ accepted'[run[u]] = accepted[run[u]],
           pc'[u] = "replying" => pc[u] \in Saving,
           pc[u] \in Over => pc'[u] \in Over
    PROVE  Each(u)'
<1>1. Consistent(u)' /\ Heard(u)' /\ Conversation(u)'
  BY DEF Each, Consistent, Heard, Conversation, Active
<1>2. RowSaved(u) => RowSaved(u)'
  BY RowStaysHere
<1>3. Ending(u)'
  BY <1>2 DEF Each, Ending
<1>4. QED BY <1>1, <1>3 DEF Each

LEMMA RespondEach ==
    ASSUME NEW u \in Users, IInv, IInv', LinkType, RowsOwned, Each(u), Respond(u)
    PROVE  Each(u)'
<1>1. /\ pc[u] = "replying" /\ UNCHANGED << client, app, socket, requests, simulator >>
      /\ UNCHANGED << trips, run, closing, accepted, origin, tripRows >> /\ reply'[u] = "none"
  BY DEF Respond, SendReply, SendFails, database, history, IInv, TypeOK
<1>2. Grows
  <2>1. Len(origin) \in Nat
    BY LenProperties DEF IInv, TypeOK
  <2>2. QED BY <1>1, <2>1 DEF Grows
<1>3. /\ \A i \in 1 .. Len(responses[u]) : responses[u][i] # "trip_completed"
      /\ app[u].trip_status # "WaitingReconnect"
  BY <1>1 DEF Each, Ending, Over
<1>4. CASE SendFails(u) /\ UNCHANGED responses
  <2>1. pc'[u] = "left"
    BY <1>4 DEF SendFails, Goto, IInv, TypeOK
  <2>2. QED BY <1>1, <1>2, <1>4, <2>1, EndsEach DEF Bad, Over, Saving, Talking
<1>5. CASE SendReply(u) /\ responses' = [responses EXCEPT ![u] =
                                          IF socket[u] THEN Append(@, reply[u]) ELSE @]
  <2>1. pc'[u] = IF closing[u] THEN "left" ELSE "looping"
    BY <1>5 DEF SendReply, Goto, IInv, TypeOK
  <2>2. /\ responses'[u] = IF socket[u] THEN Append(responses[u], reply[u]) ELSE responses[u]
        /\ responses[u] \in Seq(Reply) /\ reply[u] \in Reply
    BY <1>5 DEF LinkType, IInv, TypeOK
  <2>3. \A i \in 1 .. Len(responses'[u]) :
           \/ i \in 1 .. Len(responses[u]) /\ responses'[u][i] = responses[u][i]
           \/ socket[u] /\ responses'[u][i] = reply[u]
    <3>1. \A n \in Nat : \A i \in 1 .. n + 1 : i = n + 1 \/ i \in 1 .. n
      OBVIOUS
    <3>2. QED BY <2>2, <3>1, AppendProperties, LenProperties
  <2>4. Consistent(u)'
    BY <1>1 DEF Each, Consistent, Active
  <2>5. Heard(u)'
    BY <1>1, <2>2, <2>3 DEF Each, Heard, Bad
  <2>6. Conversation(u)'
    BY <1>1, <2>1, ConversationKept DEF Each, Talking
  <2>7. ASSUME socket[u], reply[u] = "trip_completed"
        PROVE  Done(app[u]) /\ pc'[u] = "left" /\ RowSaved(u)
    <3>1. closing[u] /\ run[u] \in Saved
      BY <2>7 DEF IInv, UserOK, SessionOK
    <3>2. Done(app[u])
      BY <1>1, <2>7, <3>1 DEF Each, Ending
    <3>3. RowSaved(u)
      BY <3>1 DEF Saved, RowSaved, RowsOwned
    <3>4. QED BY <2>1, <3>1, <3>2, <3>3
  <2>8. RowSaved(u) => RowSaved(u)'
    BY <1>1 DEF RowSaved
  <2>9. \A i \in 1 .. Len(responses'[u]) : responses'[u][i] = "trip_completed" =>
           Done(app'[u]) /\ pc'[u] \in Over /\ RowSaved(u)'
    BY <1>1, <1>3, <2>3, <2>7, <2>8 DEF Over
  <2>10. pc'[u] \notin Saving /\ pc'[u] # "replying"
    BY <2>1 DEF Saving
  <2>11. Ending(u)'
    BY <1>1, <1>3, <2>9, <2>10 DEF Ending
  <2>12. QED BY <2>4, <2>5, <2>6, <2>11 DEF Each
<1>6. QED BY <1>4, <1>5 DEF Respond

LEMMA SessionEach ==
    ASSUME NEW u \in Users, IInv, IInv', LinkType, Each(u), SessionStep(u) \/ SocketEnds(u)
    PROVE  Each(u)'
<1>1. UNCHANGED << client, app, socket, requests, responses, simulator >>
  BY DEF SessionStep, SocketEnds, clientVars, link
<1>2. Grows
  BY StepGrows DEF SessionStep, SocketEnds, ServiceStep
<1>3. reply[u] \notin Bad
  BY DEF Each, Heard
<1>4. CASE Leave(u) \/ EndOfSession(u)
  <2>1. /\ pc'[u] \in Over /\ reply'[u] = reply[u] /\ run' = run
    BY <1>4 DEF Leave, EndOfSession, DiscardTrip, RemoveClient, Goto, Over, history, IInv, TypeOK
  <2>2. pc'[u] \notin Saving /\ pc'[u] # "replying" /\ pc'[u] # "looping"
    BY <2>1 DEF Over, Saving
  <2>3. QED BY <1>1, <1>2, <1>3, <2>1, <2>2, EndsEach DEF Talking
<1>5. CASE SaveStep(u)
  <2>1. pc[u] \in Saving /\ UNCHANGED << closing, run, accepted >>
    BY <1>5 DEF SaveStep, CopyPositions, InsertTrip, InsertPoint, Commit, SaveFails, DiscardSaved,
                Saving, session, history
  <2>2. closing[u] /\ pc[u] \notin Over
    BY <2>1 DEF IInv, UserOK, SessionOK, Saving, Over
  <2>3. pc'[u] \in Saving \cup {"replying"} /\ reply'[u] \notin Bad
    BY <1>3, <1>5, <2>1 DEF SaveStep, CopyPositions, InsertTrip, InsertPoint, Commit, SaveFails,
                     DiscardSaved, Answer, Goto, Saving, Bad, session, IInv, TypeOK
  <2>4. pc'[u] # "looping" /\ closing'[u]
    BY <2>1, <2>2, <2>3 DEF Saving
  <2>5. QED BY <1>1, <1>2, <2>1, <2>2, <2>3, <2>4, EndsEach DEF Talking
<1>6. QED BY <1>4, <1>5 DEF SessionStep, SocketEnds

LEMMA RestartEach ==
    ASSUME NEW u \in Users, IInv, IInv', LinkType, Each(u), ServerRestart
    PROVE  Each(u)'
<1>1. /\ UNCHANGED << client, app, socket, requests, responses, simulator >>
      /\ UNCHANGED << run, accepted, origin, tripRows >>
      /\ pc'[u] = "offline" /\ reply'[u] = "none"
  BY DEF ServerRestart, Restart, link, database, history
<1>2. Grows
  <2>1. Len(origin) \in Nat
    BY LenProperties DEF IInv, TypeOK
  <2>2. QED BY <1>1, <2>1 DEF Grows
<1>3. QED BY <1>1, <1>2, EndsEach DEF Bad, Over, Saving, Talking
-----------------------------------------------------------------------------
(* The rows: each is of the user whose trip it is, and is a whole route.     *)
LEMMA RowsStep ==
    ASSUME IInv, RowsOwned, RowsWhole, \A u \in Users : Ending(u), [Next]_vars
    PROVE  RowsOwned' /\ RowsWhole'
<1>1. /\ origin \in Seq(Nat) /\ tripRows \in Seq(RowType) /\ Len(origin) = Len(tripRows)
      /\ accepted \in Seq(Seq(Coordinates)) /\ run \in [Users -> Nat]
      /\ Len(origin) \in Nat /\ Len(accepted) \in Nat
  BY LenProperties DEF IInv, TypeOK, TablesOK
<1>2. \A i \in 1 .. Len(origin) : origin[i] \in 1 .. Len(accepted) /\ origin[i] \in Saved
  BY <1>1 DEF IInv, TablesOK, Saved
<1>3. CASE Fades
  BY <1>3 DEF Fades, RowsOwned, RowsWhole
<1>4. ASSUME NEW w \in Users, Begun(w) PROVE RowsOwned' /\ RowsWhole'
  <2>1. /\ accepted' = Append(accepted, << >>) /\ run' = [run EXCEPT ![w] = Len(accepted) + 1]
        /\ UNCHANGED << tripRows, origin >>
    BY <1>4 DEF Begun
  <2>2. \A i \in 1 .. Len(origin) : accepted'[origin[i]] = accepted[origin[i]]
                                    /\ origin[i] # Len(accepted) + 1
    BY <1>1, <1>2, <2>1, AppendProperties
  <2>3. RowsWhole'
    BY <2>1, <2>2 DEF RowsWhole
  <2>4. ASSUME NEW u \in Users, NEW i \in 1 .. Len(origin), origin[i] = run'[u]
        PROVE  tripRows[i].user_id = u
    <3>1. u # w
      BY <1>1, <2>1, <2>2, <2>4
    <3>2. run'[u] = run[u]
      BY <1>1, <2>1, <3>1
    <3>3. QED BY <2>4, <3>2 DEF RowsOwned
  <2>5. RowsOwned'
    BY <2>1, <2>4 DEF RowsOwned
  <2>6. QED BY <2>3, <2>5
<1>5. ASSUME NEW w \in Users, NEW c, NEW elapsed, Extended(w, c, elapsed)
      PROVE  RowsOwned' /\ RowsWhole'
  <2>1. /\ accepted' = [accepted EXCEPT ![run[w]] = Append(accepted[run[w]], c)]
        /\ pc[w] = "looping" /\ w \in DOMAIN trips /\ UNCHANGED << run, tripRows, origin >>
    BY <1>5 DEF Extended
  <2>2. run[w] \notin Saved
    BY <2>1 DEF IInv, UserOK, TripOK
  <2>3. \A i \in 1 .. Len(origin) : accepted'[origin[i]] = accepted[origin[i]]
    BY <1>1, <1>2, <2>1, <2>2
  <2>4. RowsOwned'
    BY <2>1 DEF RowsOwned
  <2>5. RowsWhole'
    BY <2>1, <2>3 DEF RowsWhole
  <2>6. QED BY <2>4, <2>5
<1>6. ASSUME NEW w \in Users, Entered(w) PROVE RowsOwned' /\ RowsWhole'
  <2>1. /\ tripRows' = Append(tripRows, tx[w].row) /\ origin' = Append(origin, run[w])
        /\ pc[w] = "writing" /\ UNCHANGED << run, accepted >>
    BY <1>6 DEF Entered
  <2>2. tx[w].row.user_id = w
    <3>1. tx[w].row = [user_id |-> w,
                       moving_seconds |-> trips[w].moving_time,
                       stopped_seconds |-> trips[w].stopped_time]
      BY <2>1 DEF IInv, UserOK, WriteOK
    <3>2. QED BY <3>1
  <2>3. run[w] \in 1 .. Len(accepted)
    <3>1. w \in DOMAIN trips
      BY <2>1 DEF IInv, UserOK, SessionOK, Saving
    <3>2. QED BY <3>1, TripInMemory
  <2>4. /\ Len(origin') = Len(origin) + 1 /\ origin'[Len(origin) + 1] = run[w]
        /\ \A i \in 1 .. Len(origin) : origin'[i] = origin[i]
    BY <1>1, <2>1, AppendProperties
  <2>5. /\ tripRows'[Len(origin) + 1] = tx[w].row
        /\ \A i \in 1 .. Len(origin) : tripRows'[i] = tripRows[i]
    BY <1>1, <2>1, AppendProperties
  <2>6. \A i \in 1 .. Len(origin') : i \in 1 .. Len(origin) \/ i = Len(origin) + 1
    BY <1>1, <2>4
  <2>7. \E file \in ValidFiles : accepted[run[w]] = PointsIn(file)
    BY <2>1 DEF Ending, Saving
  <2>8. RowsWhole'
    BY <2>1, <2>4, <2>6, <2>7 DEF RowsWhole
  <2>9. \A u \in Users : run[u] = run[w] => u = w
    BY <1>1, <2>3 DEF IInv, Apart
  <2>10. ASSUME NEW u \in Users, NEW i \in 1 .. Len(origin'), origin'[i] = run[u]
         PROVE  tripRows'[i].user_id = u
    <3>1. CASE i \in 1 .. Len(origin)
      BY <2>4, <2>5, <2>10, <3>1 DEF RowsOwned
    <3>2. CASE i = Len(origin) + 1
      BY <2>2, <2>4, <2>5, <2>9, <2>10, <3>2
    <3>3. QED BY <2>6, <3>1, <3>2
  <2>11. RowsOwned'
    BY <2>1, <2>10 DEF RowsOwned
  <2>12. QED BY <2>8, <2>11
<1>7. QED BY <1>3, <1>4, <1>5, <1>6, Kinds
-----------------------------------------------------------------------------
(* What holds of the client, the connection and the session of every user.   *)
ClientInv ==
    /\ IInv
    /\ LinkType
    /\ \A u \in Users : Each(u)
    /\ RowsOwned /\ RowsWhole

LEMMA EachStep ==
    ASSUME ClientInv, IInv', NEW u \in Users, [DashboardNext]_dashboardVars
    PROVE  Each(u)'
<1>1. IInv /\ LinkType /\ Each(u) /\ RowsOwned
  BY DEF ClientInv
<1>2. CASE ClientStep(u)
  BY <1>1, <1>2, ClientEach
<1>3. CASE ServerStep(u)
  BY <1>1, <1>3, ServeEach, RespondEach, SessionEach DEF ServerStep
<1>4. ASSUME NEW w \in Users, w # u, ClientStep(w) \/ ServerStep(w) PROVE Each(u)'
  <2>1. Local(u)
    BY <1>1, <1>4, OthersLocal
  <2>2. ServiceStep(w) \/ UNCHANGED server
    <3>1. CASE ClientStep(w)
      <4>1. LocalStep(w) \/ FirstConnect(w) \/ Reconnect(w)
        BY <3>1 DEF ClientStep, LocalStep
      <4>2. QED BY <4>1, ClientLeavesServer, ConnectsOrNot DEF ServiceStep
    <3>2. CASE ServerStep(w)
      BY <1>1, <3>2, ServeIsCommand
      DEF ServerStep, Respond, SessionStep, SocketEnds, ServiceStep
    <3>3. QED BY <1>4, <3>1, <3>2
  <2>3. CASE ServiceStep(w)
    <3>1. Same(u)
      BY <1>1, <1>4, <2>3, OthersSame
    <3>2. Grows
      BY <1>1, <2>3, StepGrows
    <3>3. QED BY <1>1, <2>1, <3>1, <3>2, OthersEach
  <2>4. CASE UNCHANGED server
    <3>1. UNCHANGED << trips, pc, reply, closing, run, accepted, origin, tripRows >>
      BY <2>4 DEF server, vars, session, history, database
    <3>2. Len(origin) \in Nat
      BY <1>1, LenProperties DEF IInv, TypeOK
    <3>3. Same(u) /\ Grows
      BY <3>1, <3>2 DEF Same, Grows
    <3>4. QED BY <1>1, <2>1, <3>3, OthersEach
  <2>5. QED BY <2>2, <2>3, <2>4
<1>5. CASE ServerRestart
  BY <1>1, <1>5, RestartEach
<1>6. CASE UNCHANGED dashboardVars
  <2>1. /\ UNCHANGED << server, requests, responses, socket, client, app, simulator >>
    BY <1>6 DEF dashboardVars, clientVars, link
  <2>2. QED BY <1>1, <2>1, SteadyEach DEF Each, Consistent
<1>7. QED BY <1>2, <1>3, <1>4, <1>5, <1>6 DEF DashboardNext

LEMMA ClientInvInit == DashboardInit => ClientInv
<1> SUFFICES ASSUME DashboardInit PROVE ClientInv
  OBVIOUS
<1>1. IInv /\ LinkType
  BY InitIInv, LinkTypeInit DEF DashboardInit
<1>2. ASSUME NEW u \in Users PROVE Each(u)
  <2>1. /\ client[u] = "off" /\ app[u] = NewApp /\ socket[u] = FALSE /\ requests[u] = << >>
        /\ responses[u] = << >> /\ simulator[u] = NoSimulator /\ pc[u] = "offline"
        /\ reply[u] = "none"
    BY DEF DashboardInit, Init
  <2>2. Consistent(u)
    BY <2>1 DEF Consistent, NewApp, NoSimulator, Active
  <2>3. Heard(u)
    BY <2>1 DEF Heard, Bad
  <2>4. Conversation(u)
    BY <2>1 DEF Conversation, Talking
  <2>5. Ending(u)
    BY <2>1 DEF Ending, Saving, NewApp
  <2>6. QED BY <2>2, <2>3, <2>4, <2>5 DEF Each
<1>3. RowsOwned /\ RowsWhole
  BY DEF DashboardInit, Init, RowsOwned, RowsWhole
<1>4. QED BY <1>1, <1>2, <1>3 DEF ClientInv

LEMMA ClientInvNext == ClientInv /\ [DashboardNext]_dashboardVars => ClientInv'
<1> SUFFICES ASSUME ClientInv, [DashboardNext]_dashboardVars PROVE ClientInv'
  OBVIOUS
<1>1. IInv /\ LinkType /\ [Next]_vars
  BY StepIsServiceStep DEF ClientInv
<1>2. IInv' /\ LinkType'
  BY <1>1, NextIInv, LinkTypeStep DEF IInv
<1>3. (\A u \in Users : Each(u))'
  BY <1>2, EachStep
<1>4. RowsOwned' /\ RowsWhole'
  BY <1>1, RowsStep DEF ClientInv, Each
<1>5. QED BY <1>2, <1>3, <1>4 DEF ClientInv

LEMMA ClientInvariant == DashboardSpec => []ClientInv
BY ClientInvInit, ClientInvNext, PTL DEF DashboardSpec

(* The client says Connected when it holds a socket, runs a trip exactly     *)
(* while it has a simulator, and is active only on a socket, wherever a send *)
(* or the connection failed (runtime.rs, app.rs).                            *)
THEOREM ClientStaysConsistent == DashboardSpec => []ClientConsistent
<1>1. ClientInv => ClientConsistent
  <2> SUFFICES ASSUME ClientInv, NEW u \in Users
               PROVE  /\ socket[u] <=> app[u].connection_status = "Connected"
                      /\ simulator[u].running <=> app[u].trip_status = "Running"
                      /\ Active(app[u]) => socket[u]
                      /\ app[u].input_mode # "Command" => app[u].trip_status = "Idle"
                      /\ app[u].input_mode = "SpeedSelection" <=> app[u].selected_route # NoFile
    BY DEF ClientConsistent
  <2>1. Consistent(u) /\ app[u] \in AppOK
    BY DEF ClientInv, Each, LinkType
  <2>2. QED BY <2>1 DEF Consistent, AppOK
<1>2. QED BY <1>1, ClientInvariant, PTL

(* Every saved trip is a whole route: the server accepted each of its points *)
(* once, in order, before the TripCompleted that came after the last.        *)
THEOREM OnlyRoutesAreSaved == DashboardSpec => []SavedTripsAreRoutes
<1>1. ClientInv => SavedTripsAreRoutes
  <2> SUFFICES ASSUME ClientInv, NEW id \in 1 .. Len(tripRows)
               PROVE  \E file \in RouteFiles :
                         /\ ValidRoute(file)
                         /\ RowPoints(id) = [i \in 1 .. Len(file) |-> file[i].point]
    BY DEF SavedTripsAreRoutes
  <2>1. IInv /\ RowsWhole /\ Len(origin) = Len(tripRows)
    BY DEF ClientInv, IInv, TablesOK
  <2>2. PICK file \in ValidFiles : accepted[origin[id]] = PointsIn(file)
    BY <2>1 DEF RowsWhole
  <2>3. RowPoints(id) = PointsIn(file)
    BY <2>1, <2>2, RowPointsAccepted
  <2>4. QED BY <2>2, <2>3 DEF ValidFiles, PointsIn
<1>2. QED BY <1>1, ClientInvariant, PTL

(* The server refuses nothing of what this client sends: whatever a broken   *)
(* connection left in transit, the next session starts with no trip.         *)
THEOREM NothingIsRefused == DashboardSpec => []NeverRefused
<1>1. ClientInv => NeverRefused
  BY DEF ClientInv, Each, Heard, Bad, NeverRefused
<1>2. QED BY <1>1, ClientInvariant, PTL

(* A client that shows a trip as completed shows one that is in the table:   *)
(* the answer follows the commit on the session that completed the trip.     *)
THEOREM CompletedIsInTable == DashboardSpec => []ShownCompletedIsSaved
<1>1. ClientInv => ShownCompletedIsSaved
  BY DEF ClientInv, Each, Ending, RowSaved, ShownCompletedIsSaved
<1>2. QED BY <1>1, ClientInvariant, PTL

(* No row is added for a user whose client is still driving: either it has   *)
(* sent its last point on the connection whose session saves, or it has lost *)
(* the connection and given the trip up.                                     *)
THEOREM SavesFollowRoutes == DashboardSpec => SavedAfterRoute
<1>1. ASSUME ClientInv, [DashboardNext]_dashboardVars, NEW u \in Users,
             Len(tripRows') > Len(tripRows), tripRows'[Len(tripRows')].user_id = u
      PROVE  app[u].trip_status # "Running"
  <2>1. IInv /\ Each(u) /\ [Next]_vars
    BY <1>1, StepIsServiceStep DEF ClientInv
  <2>2. tripRows \in Seq(RowType) /\ Len(tripRows) \in Nat
    BY <2>1, LenProperties DEF IInv, TypeOK
  <2>3. PICK w \in Users : Entered(w)
    BY <1>1, <2>1, <2>2, Kinds DEF Fades, Begun, Extended
  <2>4. /\ pc[w] = "writing" /\ tripRows' = Append(tripRows, tx[w].row)
    BY <2>3 DEF Entered
  <2>5. tx[w].row = [user_id |-> w,
                     moving_seconds |-> trips[w].moving_time,
                     stopped_seconds |-> trips[w].stopped_time]
    BY <2>1, <2>4 DEF IInv, UserOK, WriteOK
  <2>6. tripRows'[Len(tripRows')] = tx[w].row
    BY <2>2, <2>4, AppendProperties
  <2>7. w = u
    BY <1>1, <2>5, <2>6
  <2>8. QED BY <2>1, <2>4, <2>7 DEF Each, Ending, Consistent, Saving, Done, Active
<1>2. ClientInv /\ [DashboardNext]_dashboardVars =>
        [ \A u \in Users :
            /\ Len(tripRows') > Len(tripRows)
            /\ tripRows'[Len(tripRows')].user_id = u
            => app[u].trip_status # "Running" ]_dashboardVars
  BY <1>1
<1>3. QED BY <1>2, ClientInvariant, PTL DEF DashboardSpec, SavedAfterRoute
-----------------------------------------------------------------------------
(* The texts.                                                                *)

TextsIn(messages) ==
    {messages[i].text : i \in {j \in 1 .. Len(messages) : messages[j].type = "Text"}}

(* The texts in transit are in the order of their numbers.                   *)
Rising(messages) ==
    \A i, j \in 1 .. Len(messages) :
        i < j /\ messages[i].type = "Text" /\ messages[j].type = "Text"
          => messages[i].text < messages[j].text

Kept(u) == {textRows[i][2] : i \in {j \in 1 .. Len(textRows) : textRows[j][1] = u}}

KeptInOrder(u) ==
    \A i, j \in 1 .. Len(textRows) :
        textRows[i][1] = u /\ textRows[j][1] = u /\ i < j => textRows[i][2] < textRows[j][2]

(* What is stored or lost comes before what is in transit.                   *)
TextsOK(u) ==
    /\ KeptInOrder(u)
    /\ Kept(u) \cap gone[u] = {}
    /\ 1 .. sent[u] = Kept(u) \cup gone[u] \cup TextsIn(requests[u])
    /\ Rising(requests[u])
    /\ \A x \in TextsIn(requests[u]), y \in Kept(u) \cup gone[u] : y < x

LEMMA TextsAppended ==
    ASSUME NEW messages \in Seq(Message), NEW message \in Message
    PROVE  /\ TextsIn(Append(messages, message))
                = TextsIn(messages) \cup (IF message.type = "Text" THEN {message.text} ELSE {})
           /\ Rising(messages)
              /\ (message.type = "Text" => \A x \in TextsIn(messages) : x < message.text)
              => Rising(Append(messages, message))
<1> DEFINE n == Len(messages)
           more == Append(messages, message)
<1>1. /\ n \in Nat /\ Len(more) = n + 1 /\ more[n + 1] = message
      /\ \A i \in 1 .. n : more[i] = messages[i]
  BY LenProperties, AppendProperties
<1>2. \A i \in 1 .. n + 1 : i \in 1 .. n \/ i = n + 1
  BY <1>1
<1>3. n + 1 \in 1 .. n + 1 /\ \A i \in 1 .. n : i \in 1 .. n + 1
  BY <1>1
<1> HIDE DEF n, more
<1>4. \A x : x \in TextsIn(more) <=>
         x \in TextsIn(messages) \cup (IF message.type = "Text" THEN {message.text} ELSE {})
  <2>1. \A x : x \in TextsIn(more) <=>
           \E i \in 1 .. n + 1 : more[i].type = "Text" /\ x = more[i].text
    BY <1>1 DEF TextsIn
  <2>2. \A x : x \in TextsIn(messages) <=>
           \E i \in 1 .. n : messages[i].type = "Text" /\ x = messages[i].text
    BY DEF TextsIn, n
  <2>3. ASSUME NEW x PROVE x \in TextsIn(more) <=>
           x \in TextsIn(messages) \/ (message.type = "Text" /\ x = message.text)
    BY <1>1, <1>2, <1>3, <2>1, <2>2
  <2>4. QED BY <2>3
<1>5. ASSUME Rising(messages), message.type = "Text" => \A x \in TextsIn(messages) : x < message.text
      PROVE  Rising(more)
  <2>1. SUFFICES ASSUME NEW i \in 1 .. n + 1, NEW j \in 1 .. n + 1, i < j,
                        more[i].type = "Text", more[j].type = "Text"
                 PROVE  more[i].text < more[j].text
    BY <1>1 DEF Rising
  <2>2. i \in 1 .. n
    BY <1>1, <1>2, <2>1
  <2>3. CASE j \in 1 .. n
    BY <1>1, <1>5, <2>1, <2>2, <2>3 DEF Rising, n
  <2>4. CASE j = n + 1
    <3>1. messages[i].text \in TextsIn(messages)
      BY <1>1, <2>1, <2>2 DEF TextsIn, n
    <3>2. QED BY <1>1, <1>5, <2>1, <2>2, <2>4, <3>1
  <2>5. QED BY <1>2, <2>3, <2>4
<1>6. QED BY <1>4, <1>5 DEF more

LEMMA TextsServed ==
    ASSUME NEW messages \in Seq(Message), messages # << >>, Rising(messages)
    PROVE  LET message == Head(messages)
               rest == TextsIn(Tail(messages))
           IN  /\ Rising(Tail(messages))
               /\ TextsIn(messages) = rest \cup (IF message.type = "Text" THEN {message.text} ELSE {})
               /\ message.type = "Text" => \A x \in rest : message.text < x
<1> DEFINE n == Len(messages) - 1
           message == Head(messages)
           less == Tail(messages)
<1>1. /\ n \in Nat /\ Len(less) = n /\ Len(messages) = n + 1 /\ message = messages[1]
      /\ \A i \in 1 .. n : less[i] = messages[i + 1]
  BY LenProperties, HeadTailProperties, EmptySeq
<1> HIDE DEF n, less, message
<1>2. /\ \A i \in 1 .. n : i + 1 \in 1 .. n + 1 /\ 1 < i + 1
      /\ \A i \in 1 .. n + 1 : i = 1 \/ (i - 1 \in 1 .. n /\ (i - 1) + 1 = i)
      /\ 1 \in 1 .. n + 1
      /\ \A i, j \in 1 .. n : i < j => i + 1 < j + 1
  BY <1>1
<1>3. \A x : x \in TextsIn(messages) <=>
         \E i \in 1 .. n + 1 : messages[i].type = "Text" /\ x = messages[i].text
  BY <1>1 DEF TextsIn
<1>4. \A x : x \in TextsIn(less) <=>
         \E i \in 1 .. n : less[i].type = "Text" /\ x = less[i].text
  BY <1>1 DEF TextsIn
<1>5. \A i, j \in 1 .. n + 1 : i < j /\ messages[i].type = "Text" /\ messages[j].type = "Text"
         => messages[i].text < messages[j].text
  BY <1>1 DEF Rising
<1>6. Rising(less)
  <2>1. SUFFICES ASSUME NEW i \in 1 .. n, NEW j \in 1 .. n, i < j,
                        less[i].type = "Text", less[j].type = "Text"
                 PROVE  less[i].text < less[j].text
    BY <1>1 DEF Rising
  <2>2. QED BY <1>1, <1>2, <1>5, <2>1
<1>7. ASSUME message.type = "Text", NEW x \in TextsIn(less) PROVE message.text < x
  <2>1. PICK i \in 1 .. n : less[i].type = "Text" /\ x = less[i].text
    BY <1>4, <1>7
  <2>2. QED BY <1>1, <1>2, <1>5, <1>7, <2>1
<1>8. ASSUME NEW x PROVE x \in TextsIn(messages) <=>
         x \in TextsIn(less) \/ (message.type = "Text" /\ x = message.text)
  <2>1. ASSUME NEW i \in 1 .. n + 1, messages[i].type = "Text", x = messages[i].text
        PROVE  x \in TextsIn(less) \/ (message.type = "Text" /\ x = message.text)
    <3>1. CASE i = 1
      BY <1>1, <2>1, <3>1
    <3>2. CASE i - 1 \in 1 .. n /\ (i - 1) + 1 = i
      <4>1. less[i - 1] = messages[i]
        BY <1>1, <3>2
      <4>2. QED BY <1>4, <2>1, <3>2, <4>1
    <3>3. QED BY <1>2, <3>1, <3>2
  <2>2. ASSUME NEW i \in 1 .. n, less[i].type = "Text", x = less[i].text
        PROVE  x \in TextsIn(messages)
    BY <1>1, <1>2, <1>3, <2>2
  <2>3. message.type = "Text" /\ x = message.text => x \in TextsIn(messages)
    BY <1>1, <1>2, <1>3
  <2>4. QED BY <1>3, <1>4, <2>1, <2>2, <2>3
<1>9. TextsIn(messages) = TextsIn(less) \cup (IF message.type = "Text" THEN {message.text} ELSE {})
  BY <1>8
<1>10. QED BY <1>6, <1>7, <1>9 DEF message, less

(* A row more.                                                               *)
LEMMA KeptMore ==
    ASSUME LinkType, NEW u \in Users, NEW w \in Users, NEW x \in Nat,
           textRows' = Append(textRows, << w, x >>)
    PROVE  /\ Kept(u)' = Kept(u) \cup (IF w = u THEN {x} ELSE {})
           /\ KeptInOrder(u) /\ (w = u => \A y \in Kept(u) : y < x) => KeptInOrder(u)'
<1> DEFINE n == Len(textRows)
           row == << w, x >>
<1>0. row \in Users \X Nat /\ row[1] = w /\ row[2] = x
  OBVIOUS
<1> HIDE DEF row
<1>1. /\ n \in Nat /\ Len(textRows') = n + 1 /\ textRows'[n + 1] = row
      /\ \A i \in 1 .. n : textRows'[i] = textRows[i]
  <2>1. textRows \in Seq(Users \X Nat) /\ textRows' = Append(textRows, row)
    BY DEF LinkType, row
  <2>2. QED BY <1>0, <2>1, LenProperties, AppendProperties
<1>2. /\ \A i \in 1 .. n + 1 : i \in 1 .. n \/ i = n + 1
      /\ n + 1 \in 1 .. n + 1 /\ \A i \in 1 .. n : i \in 1 .. n + 1
      /\ \A i, j \in 1 .. n + 1 : i < j => i \in 1 .. n
  BY <1>1
<1> HIDE DEF n
<1>3. \A y : y \in Kept(u)' <=> \E i \in 1 .. n + 1 : textRows'[i][1] = u /\ y = textRows'[i][2]
  BY <1>1 DEF Kept
<1>4. \A y : y \in Kept(u) <=> \E i \in 1 .. n : textRows[i][1] = u /\ y = textRows[i][2]
  BY DEF Kept, n
<1>5. \A y : y \in Kept(u)' <=> y \in Kept(u) \/ (w = u /\ y = x)
  BY <1>0, <1>1, <1>2, <1>3, <1>4
<1>6. ASSUME KeptInOrder(u), w = u => \A y \in Kept(u) : y < x PROVE KeptInOrder(u)'
  <2>1. SUFFICES ASSUME NEW i \in 1 .. n + 1, NEW j \in 1 .. n + 1, i < j,
                        textRows'[i][1] = u, textRows'[j][1] = u
                 PROVE  textRows'[i][2] < textRows'[j][2]
    BY <1>1 DEF KeptInOrder
  <2>2. i \in 1 .. n
    BY <1>2, <2>1
  <2>3. CASE j \in 1 .. n
    BY <1>1, <1>6, <2>1, <2>2, <2>3 DEF KeptInOrder, n
  <2>4. CASE j = n + 1
    <3>1. textRows[i][2] \in Kept(u) /\ w = u
      BY <1>0, <1>1, <1>4, <2>1, <2>2, <2>4
    <3>2. QED BY <1>0, <1>1, <1>6, <2>2, <2>4, <3>1
  <2>5. QED BY <1>2, <2>3, <2>4
<1>7. Kept(u)' = Kept(u) \cup (IF w = u THEN {x} ELSE {})
  BY <1>5
<1>8. QED BY <1>6, <1>7

LEMMA TransitIsTexts == \A u \in Users : InTransit(u) = TextsIn(requests[u])
BY DEF InTransit, TextsIn

(* What a step of the client does with texts: nothing, a message that is     *)
(* none, the next text, or a new connection.                                 *)
LEMMA ClientTexts ==
    ASSUME LinkType, NEW u \in Users, ClientStep(u)
    PROVE  /\ UNCHANGED textRows
           /\ \/ requests'[u] = requests[u] /\ sent'[u] = sent[u] /\ gone'[u] = gone[u]
              \/ \E message \in Message :
                    /\ requests'[u] = Append(requests[u], message)
                    /\ gone'[u] = gone[u]
                    /\ \/ message.type # "Text" /\ sent'[u] = sent[u]
                       \/ /\ message.type = "Text" /\ message.text = sent[u] + 1
                          /\ sent'[u] = sent[u] + 1
              \/ /\ requests'[u] = << >> /\ sent'[u] = sent[u]
                 /\ gone'[u] = gone[u] \cup TextsIn(requests[u])
<1> DEFINE Quiet1 == requests'[u] = requests[u] /\ sent'[u] = sent[u] /\ gone'[u] = gone[u]
           Opens == /\ requests'[u] = << >> /\ sent'[u] = sent[u]
                    /\ gone'[u] = gone[u] \cup TextsIn(requests[u])
           Says(message) ==
              /\ requests'[u] = Append(requests[u], message)
              /\ gone'[u] = gone[u]
              /\ \/ message.type # "Text" /\ sent'[u] = sent[u]
                 \/ /\ message.type = "Text" /\ message.text = sent[u] + 1
                    /\ sent'[u] = sent[u] + 1
           Result == UNCHANGED textRows
                     /\ (Quiet1 \/ (\E message \in Message : Says(message)) \/ Opens)
<1>1. /\ requests \in [Users -> Seq(Message)] /\ sent[u] \in Nat
      /\ gone \in [Users -> SUBSET Nat] /\ sent \in [Users -> 0 .. MaxTexts]
  BY DashboardAssumption DEF LinkType
<1>2. ASSUME OpenSocket(u), UNCHANGED << textRows, sent >> PROVE Result
  BY <1>1, <1>2, TransitIsTexts DEF OpenSocket
<1>3. ASSUME UNCHANGED << textRows, requests, sent, gone >> PROVE Result
  BY <1>3
<1>4. ASSUME NEW message \in Message, message.type # "Text", Send(u, message),
             UNCHANGED << textRows, sent, gone >>
      PROVE  Result
  BY <1>1, <1>4 DEF Send
<1>5. ASSUME Login(u) \/ LoseConnection(u) \/ StartCommand(u) \/ Exit(u) \/ EmitPoint(u)
           \/ ServerText(u)
      PROVE  Result
  BY <1>3, <1>5 DEF Login, LoseConnection, StartCommand, Exit, EmitPoint, ServerText, link, texts
<1>6. ASSUME FirstConnect(u) \/ Reconnect(u)
      PROVE  Result
  <2>1. OpenSocket(u) \/ UNCHANGED << requests, gone >>
    BY <1>6 DEF FirstConnect, Reconnect, link
  <2>2. UNCHANGED << textRows, sent >>
    BY <1>6 DEF FirstConnect, Reconnect
  <2>3. QED BY <1>2, <1>3, <2>1, <2>2
<1>7. ASSUME SelectSpeed(u) \/ \E file \in RouteFiles : SelectRoute(u, file)
      PROVE  Result
  <2>1. UNCHANGED << textRows, sent, gone >>
    BY <1>7 DEF SelectSpeed, SelectRoute, texts
  <2>2. Send(u, [type |-> "StartTrip"]) \/ UNCHANGED requests
    <3>1. ASSUME NEW file, BeginTrip(u, file)
          PROVE  Send(u, [type |-> "StartTrip"]) \/ UNCHANGED requests
      BY <3>1 DEF BeginTrip, SendFailed, link
    <3>2. QED BY <1>7, <3>1 DEF SelectSpeed, SelectRoute, link
  <2>3. [type |-> "StartTrip"] \in Message /\ [type |-> "StartTrip"].type # "Text"
    BY DEF Message
  <2> HIDE DEF Result
  <2>4. QED BY <1>3, <1>4, <2>1, <2>2, <2>3
<1>8. ASSUME NEW long \in BOOLEAN, SendText(u, long) PROVE Result
  <2> DEFINE message == [type |-> "Text", text |-> sent[u] + 1, long |-> long]
  <2>1. UNCHANGED << textRows, gone >>
    BY <1>8 DEF SendText
  <2>2. CASE Send(u, message) /\ sent' = [sent EXCEPT ![u] = @ + 1]
    <3>1. message \in Message /\ message.type = "Text" /\ message.text = sent[u] + 1
      BY <1>1 DEF Message
    <3> HIDE DEF message
    <3>2. Says(message)
      BY <1>1, <2>1, <2>2, <3>1 DEF Send
    <3>3. QED BY <2>1, <3>1, <3>2
  <2>3. CASE SendFailed(u, app[u]) /\ UNCHANGED sent
    <3>1. UNCHANGED requests
      BY <2>3 DEF SendFailed
    <3>2. QED BY <1>3, <2>1, <2>3, <3>1
  <2>4. QED BY <1>8, <2>2, <2>3 DEF SendText
<1>9. ASSUME RoutePoint(u)
      PROVE  Result
  <2> DEFINE message == Update(Head(simulator[u].channel))
  <2>1. /\ UNCHANGED << textRows, sent, gone >> /\ simulator[u].channel # << >>
        /\ Send(u, message) \/ UNCHANGED requests
    BY <1>9 DEF RoutePoint, Update, SendFailed, texts
  <2>2. message \in Message /\ message.type # "Text"
    <3>1. Head(simulator[u].channel) \in Waypoint
      BY <2>1, HeadTailProperties DEF LinkType, SimulatorType
    <3>2. QED BY <3>1 DEF Waypoint, Update, Message
  <2> HIDE DEF message, Result
  <2>3. QED BY <1>3, <1>4, <2>1, <2>2
<1>10. ASSUME RouteFinished(u)
      PROVE  Result
  <2>1. /\ UNCHANGED << textRows, sent, gone >>
        /\ Send(u, [type |-> "TripCompleted"]) \/ UNCHANGED requests
    BY <1>10 DEF RouteFinished, SendFailed, texts
  <2>2. [type |-> "TripCompleted"] \in Message /\ [type |-> "TripCompleted"].type # "Text"
    BY DEF Message
  <2> HIDE DEF Result
  <2>3. QED BY <1>3, <1>4, <2>1, <2>2
<1> HIDE DEF Result
<1>11. Result
  BY <1>5, <1>6, <1>7, <1>8, <1>9, <1>10 DEF ClientStep, LocalStep
<1>12. QED BY <1>11 DEF Result

(* What a step of the session does with them: the first in transit is stored *)
(* or answered with an error.                                                *)
LEMMA ServerTexts ==
    ASSUME LinkType, NEW u \in Users, ServerStep(u)
    PROVE  /\ UNCHANGED sent
           /\ \/ requests'[u] = requests[u] /\ gone'[u] = gone[u] /\ UNCHANGED textRows
              \/ /\ requests[u] # << >> /\ requests'[u] = Tail(requests[u])
                 /\ \/ Head(requests[u]).type # "Text" /\ gone'[u] = gone[u] /\ UNCHANGED textRows
                    \/ /\ Head(requests[u]).type = "Text" /\ gone'[u] = gone[u]
                       /\ textRows' = Append(textRows, << u, Head(requests[u]).text >>)
                    \/ /\ Head(requests[u]).type = "Text" /\ UNCHANGED textRows
                       /\ gone'[u] = gone[u] \cup {Head(requests[u]).text}
<1>1. requests \in [Users -> Seq(Message)] /\ gone \in [Users -> SUBSET Nat]
  BY DEF LinkType
<1>2. CASE Respond(u) \/ SessionStep(u) \/ SocketEnds(u)
  BY <1>2 DEF Respond, SessionStep, SocketEnds, clientVars, link, texts
<1>3. CASE ServeRequest(u)
  <2>1. /\ UNCHANGED sent /\ requests[u] # << >> /\ requests'[u] = Tail(requests[u])
    BY <1>1, <1>3 DEF ServeRequest
  <2>2. CASE Head(requests[u]).type # "Text"
    <3>1. UNCHANGED << textRows, gone >>
      BY <1>3, <2>2 DEF ServeRequest
    <3>2. QED BY <2>1, <2>2, <3>1
  <2>3. CASE Head(requests[u]).type = "Text"
    <3>1. ServeText(u, Head(requests[u]))
      BY <1>3, <2>3 DEF ServeRequest
    <3>2. QED BY <1>1, <2>1, <2>3, <3>1 DEF ServeText
  <2>4. QED BY <2>2, <2>3
<1>4. QED BY <1>2, <1>3 DEF ServerStep

LEMMA RowsOfTexts ==
    ASSUME NEW u, UNCHANGED textRows
    PROVE  Kept(u)' = Kept(u) /\ (KeptInOrder(u)' <=> KeptInOrder(u))
BY DEF Kept, KeptInOrder

LEMMA TextsOfClient ==
    ASSUME LinkType, NEW u \in Users, TextsOK(u), ClientStep(u)
    PROVE  TextsOK(u)'
<1> DEFINE transit == TextsIn(requests[u])
<1>1. /\ requests[u] \in Seq(Message) /\ sent[u] \in Nat
  BY DashboardAssumption DEF LinkType
<1>2. /\ UNCHANGED textRows /\ Kept(u)' = Kept(u) /\ KeptInOrder(u)'
  BY ClientTexts, RowsOfTexts DEF TextsOK
<1>3. /\ Kept(u) \cap gone[u] = {} /\ 1 .. sent[u] = Kept(u) \cup gone[u] \cup transit
      /\ Rising(requests[u]) /\ \A x \in transit, y \in Kept(u) \cup gone[u] : y < x
  BY DEF TextsOK
<1>4. CASE requests'[u] = requests[u] /\ sent'[u] = sent[u] /\ gone'[u] = gone[u]
  BY <1>2, <1>3, <1>4 DEF TextsOK
<1>5. ASSUME NEW message \in Message, requests'[u] = Append(requests[u], message),
             gone'[u] = gone[u], message.type # "Text", sent'[u] = sent[u]
      PROVE  TextsOK(u)'
  <2>1. TextsIn(requests'[u]) = transit /\ Rising(requests'[u])
    BY <1>1, <1>3, <1>5, TextsAppended
  <2>2. QED BY <1>2, <1>3, <1>5, <2>1 DEF TextsOK
<1>6. ASSUME NEW message \in Message, requests'[u] = Append(requests[u], message),
             gone'[u] = gone[u], message.type = "Text", message.text = sent[u] + 1,
             sent'[u] = sent[u] + 1
      PROVE  TextsOK(u)'
  <2>1. \A x \in Kept(u) \cup gone[u] \cup transit : x < sent[u] + 1
    <3>1. \A x \in 1 .. sent[u] : x < sent[u] + 1
      BY <1>1
    <3>2. QED BY <1>3, <3>1
  <2>2. TextsIn(requests'[u]) = transit \cup {sent[u] + 1} /\ Rising(requests'[u])
    BY <1>1, <1>3, <1>6, <2>1, TextsAppended
  <2>3. 1 .. sent[u] + 1 = (1 .. sent[u]) \cup {sent[u] + 1}
    BY <1>1
  <2> HIDE DEF transit
  <2>4. 1 .. sent'[u] = Kept(u) \cup gone[u] \cup TextsIn(requests'[u])
    BY <1>3, <1>6, <2>2, <2>3
  <2>5. \A x \in TextsIn(requests'[u]), y \in Kept(u) \cup gone[u] : y < x
    BY <1>3, <2>1, <2>2
  <2>6. QED BY <1>2, <1>3, <1>6, <2>2, <2>4, <2>5 DEF TextsOK
<1>7. CASE requests'[u] = << >> /\ sent'[u] = sent[u] /\ gone'[u] = gone[u] \cup transit
  <2>1. TextsIn(requests'[u]) = {} /\ Rising(requests'[u])
    BY <1>7 DEF TextsIn, Rising
  <2>2. \A y \in transit : y \in Nat
    <3>1. \A y \in 1 .. sent[u] : y \in Nat
      OBVIOUS
    <3>2. QED BY <1>3, <3>1
  <2>3. Kept(u) \cap transit = {}
    <3>1. ASSUME NEW y \in Kept(u), y \in transit PROVE FALSE
      <4>1. y < y /\ y \in Nat
        BY <1>3, <2>2, <3>1
      <4>2. QED BY <4>1
    <3>2. QED BY <3>1
  <2> HIDE DEF transit
  <2>4. QED BY <1>2, <1>3, <1>7, <2>1, <2>3 DEF TextsOK
<1>8. QED BY <1>4, <1>5, <1>6, <1>7, ClientTexts

LEMMA TextsOfServer ==
    ASSUME LinkType, NEW u \in Users, TextsOK(u), ServerStep(u)
    PROVE  TextsOK(u)'
<1> DEFINE transit == TextsIn(requests[u])
           rest == TextsIn(Tail(requests[u]))
           message == Head(requests[u])
<1>1. requests[u] \in Seq(Message)
  BY DEF LinkType
<1>2. /\ KeptInOrder(u)
      /\ Kept(u) \cap gone[u] = {} /\ 1 .. sent[u] = Kept(u) \cup gone[u] \cup transit
      /\ Rising(requests[u]) /\ \A x \in transit, y \in Kept(u) \cup gone[u] : y < x
  BY DEF TextsOK
<1>3. sent' = sent
  BY ServerTexts
<1>4. CASE requests'[u] = requests[u] /\ gone'[u] = gone[u] /\ UNCHANGED textRows
  BY <1>2, <1>3, <1>4, RowsOfTexts DEF TextsOK
<1>5. CASE requests[u] # << >> /\ requests'[u] = Tail(requests[u])
  <2>1. /\ Rising(Tail(requests[u]))
        /\ transit = rest \cup (IF message.type = "Text" THEN {message.text} ELSE {})
        /\ message.type = "Text" => \A x \in rest : message.text < x
    BY <1>1, <1>2, <1>5, TextsServed
  <2>2. requests'[u] = Tail(requests[u])
    BY <1>5
  <2>3. CASE message.type # "Text" /\ gone'[u] = gone[u] /\ UNCHANGED textRows
    <3>1. rest = transit
      BY <2>1, <2>3
    <3> HIDE DEF transit
    <3>2. rest = TextsIn(requests'[u]) /\ Rising(requests'[u])
      BY <2>1, <2>2
    <3> HIDE DEF rest
    <3>3. QED BY <1>2, <1>3, <2>3, <3>1, <3>2, RowsOfTexts DEF TextsOK
  <2>4. ASSUME message.type = "Text"
        PROVE  /\ message.text \in Nat /\ message.text \notin Kept(u) \cup gone[u]
               /\ transit = rest \cup {message.text}
               /\ \A x \in rest : message.text < x
               /\ \A y \in Kept(u) \cup gone[u] : y < message.text
               /\ rest = TextsIn(requests'[u]) /\ Rising(requests'[u])
    <3>1. transit = rest \cup {message.text} /\ \A x \in rest : message.text < x
      BY <2>1, <2>4
    <3>2. message.text \in transit
      BY <3>1
    <3>3. message.text \in Nat
      <4>1. \A x \in 1 .. sent[u] : x \in Nat
        OBVIOUS
      <4>2. QED BY <1>2, <3>2, <4>1
    <3>4. \A y \in Kept(u) \cup gone[u] : y < message.text
      BY <1>2, <3>2
    <3>5. ~ (message.text < message.text)
      BY <3>3
    <3>6. QED BY <2>1, <2>2, <3>1, <3>3, <3>4, <3>5
  <2> HIDE DEF transit, rest, message
  <2>5. CASE /\ message.type = "Text" /\ gone'[u] = gone[u]
             /\ textRows' = Append(textRows, << u, message.text >>)
    <3>1. Kept(u)' = Kept(u) \cup {message.text} /\ KeptInOrder(u)'
      BY <1>2, <2>4, <2>5, KeptMore
    <3>2. Kept(u)' \cap gone'[u] = {}
      BY <1>2, <2>4, <2>5, <3>1
    <3>3. 1 .. sent'[u] = Kept(u)' \cup gone'[u] \cup rest
      BY <1>2, <1>3, <2>4, <2>5, <3>1
    <3>4. \A x \in rest : x \in transit
      BY <2>4, <2>5
    <3>5. \A x \in rest, y \in Kept(u)' \cup gone'[u] : y < x
      BY <1>2, <2>4, <2>5, <3>1, <3>4
    <3>6. QED BY <2>4, <2>5, <3>1, <3>2, <3>3, <3>5 DEF TextsOK
  <2>6. CASE /\ message.type = "Text" /\ UNCHANGED textRows
             /\ gone'[u] = gone[u] \cup {message.text}
    <3>1. Kept(u)' = Kept(u) /\ KeptInOrder(u)'
      BY <1>2, <2>6, RowsOfTexts
    <3>2. Kept(u)' \cap gone'[u] = {}
      BY <1>2, <2>4, <2>6, <3>1
    <3>3. 1 .. sent'[u] = Kept(u)' \cup gone'[u] \cup rest
      BY <1>2, <1>3, <2>4, <2>6, <3>1
    <3>4. \A x \in rest : x \in transit
      BY <2>4, <2>6
    <3>5. \A x \in rest, y \in Kept(u)' \cup gone'[u] : y < x
      BY <1>2, <2>4, <2>6, <3>1, <3>4
    <3>6. QED BY <2>4, <2>6, <3>1, <3>2, <3>3, <3>5 DEF TextsOK
  <2>7. \/ requests'[u] = requests[u] /\ gone'[u] = gone[u] /\ UNCHANGED textRows
        \/ message.type # "Text" /\ gone'[u] = gone[u] /\ UNCHANGED textRows
        \/ /\ message.type = "Text" /\ gone'[u] = gone[u]
           /\ textRows' = Append(textRows, << u, message.text >>)
        \/ /\ message.type = "Text" /\ UNCHANGED textRows
           /\ gone'[u] = gone[u] \cup {message.text}
    BY ServerTexts DEF message
  <2>8. QED BY <1>4, <2>3, <2>5, <2>6, <2>7
<1>6. QED BY <1>4, <1>5, ServerTexts

LEMMA TextsStep ==
    ASSUME LinkType, NEW u \in Users, TextsOK(u), [DashboardNext]_dashboardVars
    PROVE  TextsOK(u)'
<1>1. ASSUME requests'[u] = requests[u], sent'[u] = sent[u], gone'[u] = gone[u],
             Kept(u)' = Kept(u), KeptInOrder(u)'
      PROVE  TextsOK(u)'
  BY <1>1 DEF TextsOK
<1>2. ASSUME NEW w \in Users, w # u, ClientStep(w) \/ ServerStep(w) PROVE TextsOK(u)'
  <2>1. requests'[u] = requests[u] /\ sent'[u] = sent[u] /\ gone'[u] = gone[u]
    BY <1>2, OthersLocal DEF Local
  <2>2. \/ UNCHANGED textRows
        \/ /\ requests[w] # << >> /\ Head(requests[w]).type = "Text"
           /\ textRows' = Append(textRows, << w, Head(requests[w]).text >>)
    BY <1>2, ClientTexts, ServerTexts
  <2>3. CASE UNCHANGED textRows
    BY <1>1, <2>1, <2>3, RowsOfTexts DEF TextsOK
  <2>4. CASE /\ requests[w] # << >> /\ Head(requests[w]).type = "Text"
             /\ textRows' = Append(textRows, << w, Head(requests[w]).text >>)
    <3>1. Head(requests[w]).text \in Nat
      BY <2>4, HeadOfRequests, MessageKinds
    <3>2. Kept(u)' = Kept(u) /\ KeptInOrder(u)'
      BY <1>2, <2>4, <3>1, KeptMore DEF TextsOK
    <3>3. QED BY <1>1, <2>1, <3>2
  <2>5. QED BY <2>2, <2>3, <2>4
<1>3. CASE ServerRestart \/ UNCHANGED dashboardVars
  <2>1. UNCHANGED << requests, textRows, sent, gone >>
    BY <1>3 DEF ServerRestart, dashboardVars, clientVars, link, texts
  <2>2. QED BY <1>1, <2>1, RowsOfTexts DEF TextsOK
<1>4. QED BY <1>2, <1>3, TextsOfClient, TextsOfServer DEF DashboardNext

(* The texts of a user are stored in the order in which they were sent, each *)
(* once, and none is lost without an error or a broken connection: messages  *)
(* of an earlier connection never mix with those of the next.                *)
THEOREM NoTextUnaccounted == DashboardSpec => []TextsAccounted
<1> DEFINE AllTexts == \A u \in Users : TextsOK(u)
<1>1. DashboardInit => AllTexts
  <2> SUFFICES ASSUME DashboardInit, NEW u \in Users PROVE TextsOK(u)
    OBVIOUS
  <2>1. textRows = << >> /\ sent[u] = 0 /\ gone[u] = {} /\ requests[u] = << >>
    BY DEF DashboardInit
  <2>2. KeptInOrder(u) /\ Kept(u) = {} /\ Rising(requests[u]) /\ TextsIn(requests[u]) = {}
    BY <2>1 DEF KeptInOrder, Kept, Rising, TextsIn
  <2>3. QED BY <2>1, <2>2 DEF TextsOK
<1>2. IInv /\ LinkType /\ AllTexts /\ [DashboardNext]_dashboardVars => AllTexts'
  BY TextsStep
<1>3. AllTexts => TextsAccounted
  <2> SUFFICES ASSUME AllTexts, NEW u \in Users
               PROVE  LET rows == {i \in 1 .. Len(textRows) : textRows[i][1] = u}
                          stored == {textRows[i][2] : i \in rows}
                      IN  /\ \A i, j \in rows : i < j => textRows[i][2] < textRows[j][2]
                          /\ stored \cap gone[u] = {}
                          /\ 1 .. sent[u] = stored \cup gone[u] \cup InTransit(u)
    BY DEF TextsAccounted
  <2>1. TextsOK(u)
    OBVIOUS
  <2>2. QED BY <2>1, TransitIsTexts DEF TextsOK, KeptInOrder, Kept
<1> HIDE DEF AllTexts
<1>4. QED BY <1>1, <1>2, <1>3, LinkInvariant, PTL DEF DashboardSpec
-----------------------------------------------------------------------------
(* The lock of the registry only makes steps wait: with it the two programs  *)
(* do nothing that they could not do without (messaging.rs:71, 91, 161), and *)
(* all of the above holds of them.                                           *)
THEOREM LockOnlyDelays == LockedSpec => DashboardSpec
<1>1. LockedInit => DashboardInit
  BY DEF LockedInit
<1>2. [LockedNext]_lockedVars => [DashboardNext]_dashboardVars
  <2> SUFFICES ASSUME [LockedNext]_lockedVars PROVE [DashboardNext]_dashboardVars
    OBVIOUS
  <2>1. ASSUME NEW u \in Users, AddClient(u) \/ ConnectFails(u) PROVE ClientStep(u)
    BY <2>1 DEF AddClient, ConnectFails, ClientStep
  <2>2. ASSUME NEW u \in Users, LeaveRegistry(u) \/ TripStep(u) PROVE ServerStep(u)
    BY <2>2 DEF LeaveRegistry, TripStep, ServerStep, SessionStep, EndOfSession
  <2>3. ASSUME NEW u \in Users,
               Freely(LocalStep(u) \/ ServeRequest(u) \/ Respond(u) \/ TripStep(u) \/ SocketEnds(u))
        PROVE  ClientStep(u) \/ ServerStep(u)
    BY <2>2, <2>3 DEF Freely, ClientStep, ServerStep
  <2>4. ASSUME HoldRegistry \/ LetGo \/ UNCHANGED lockedVars PROVE UNCHANGED dashboardVars
    BY <2>4 DEF HoldRegistry, LetGo, lockedVars
  <2>5. QED BY <2>1, <2>2, <2>3, <2>4 DEF LockedNext, DashboardNext
<1>3. QED BY <1>1, <1>2, PTL DEF LockedSpec, DashboardSpec
=============================================================================
