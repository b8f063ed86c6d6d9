---------------------------- MODULE AdminConsole ----------------------------
(***************************************************************************)
(* The administrator's console of the server: its dialogues, the messages  *)
(* it sends, the log of a user's messages, and the statistics, whose       *)
(* queries run while sessions go on committing trips and days go by.       *)
(*                                                                         *)
(* One task reads a line, carries the command out and reads the next.  How *)
(* a message reaches its user is module Messaging, how a trip reaches its  *)
(* table TripService.  Lines that only print a text (help, empty or        *)
(* unknown ones) are left out, and so is the panel of connected users.     *)
(***************************************************************************)
EXTENDS Integers, Sequences, FiniteSets

CONSTANTS
    Usernames,          \* names that may be typed
    NoName,
    Days, Monday, FirstOfMonth,     \* UTC dates, and where week and month begin
    Distances, Seconds, \* what a trip may add
    LogLimit,           \* LIMIT of the log's query (10)
    PanelLimit,         \* LIMIT of the panel's query (100)
    MaxTrips, MaxMessages           \* bounds: rows of the tables

ASSUME ConsoleAssumption ==
    /\ NoName \notin Usernames
    /\ Days \subseteq Nat /\ 0 \in Days
    /\ Monday \in [Days -> Days] /\ FirstOfMonth \in [Days -> Days]
    /\ \A d \in Days : Monday[d] <= d /\ FirstOfMonth[d] <= d
    /\ Distances \subseteq Nat /\ Seconds \subseteq Nat
    /\ LogLimit \in Nat \ {0} /\ PanelLimit \in Nat \ {0}
    /\ MaxTrips \in Nat /\ MaxMessages \in Nat

VARIABLES
    input_mode, pending_username, pending_msg_kind, pending_stat_type,
    feedback,   \* what the console said to the last line
    report,     \* the statistics being extracted
    shown,      \* the log it showed, and of whom
    panel,      \* ServerApp.messages: the messages on the screen
    registered, \* table users
    trips,      \* table trips
    messages,   \* table messages
    today,
    began       \* history: the rows and the date when the report was asked for

dialogue == << input_mode, pending_username, pending_msg_kind, pending_stat_type >>
tables == << registered, trips, messages, today >>
vars == << dialogue, feedback, report, shown, panel, tables, began >>

InputMode == {"Command", "MessageSelection", "TargetSelection", "MessageWriting",
              "StatsTypeSelection", "TemporalSelection"}

StatType == {"Tragitto", "VelocitaMedia", "Durate", "Tutto"}

Interval == {"day", "week", "month"}

\* What a report is still to read; get_avg_velocity reads the two totals again.
Query == {"distance", "durations", "velocity_distance", "velocity_durations"}

QueriesOf(stat_type) ==
    CASE stat_type = "Tragitto" -> {"distance"}
      [] stat_type = "Durate" -> {"durations"}
      [] stat_type = "VelocitaMedia" -> {"velocity_distance", "velocity_durations"}
      [] stat_type = "Tutto" -> Query

NoReport ==
    [username |-> NoName, stat_type |-> "Tutto", interval |-> "day", since |-> 0,
     todo |-> {}, distance |-> 0, moving |-> 0, stopped |-> 0,
     velocity_distance |-> 0, velocity_moving |-> 0]

NoLog == [username |-> NoName, ids |-> << >>]

Init ==
    /\ input_mode = "Command"
    /\ pending_username = NoName
    /\ pending_msg_kind = "none"
    /\ pending_stat_type = "none"
    /\ feedback = "none"
    /\ report = NoReport
    /\ shown = NoLog
    /\ panel = << >>
    /\ registered = {}
    /\ trips = << >>
    /\ messages = << >>
    /\ today = 0
    /\ began = [rows |-> 0, day |-> 0]

Reading == report.todo = {}     \* the task is at its prompt

Say(text) == feedback' = text /\ shown' = NoLog
-----------------------------------------------------------------------------
(* Messages.                                                               *)

MsgCommand ==
    /\ Reading /\ input_mode = "Command"
    /\ input_mode' = "MessageSelection"
    /\ Say("choose_kind")
    /\ UNCHANGED << pending_username, pending_msg_kind, pending_stat_type,
                    report, panel, tables, began >>

\* Mutant: the line itself is kept as the kind.
SelectMessageKeepsLine(value) ==
    /\ Reading /\ input_mode = "MessageSelection"
    /\ pending_msg_kind' = value
    /\ input_mode' = "TargetSelection"
    /\ Say("choose_target")
    /\ UNCHANGED << pending_username, pending_stat_type, report, panel, tables, began >>

SelectMessage(value) ==
    /\ Reading /\ input_mode = "MessageSelection"
    /\ \/ /\ value = "1"
          /\ pending_msg_kind' = "Direct"
          /\ input_mode' = "TargetSelection"
          /\ Say("choose_target")
       \/ /\ value = "2"
          /\ pending_msg_kind' = "Broadcast"
          /\ input_mode' = "MessageWriting"
          /\ Say("write_text")
       \/ /\ value \notin {"1", "2"}
          /\ Say("1_or_2_or_annulla")
          /\ UNCHANGED << input_mode, pending_msg_kind >>
    /\ UNCHANGED << pending_username, pending_stat_type, report, panel, tables, began >>

SelectTarget(username) ==
    /\ Reading /\ input_mode = "TargetSelection"
    /\ pending_username' = username
    /\ input_mode' = "MessageWriting"
    /\ Say("write_text")
    /\ UNCHANGED << pending_msg_kind, pending_stat_type, report, panel, tables, began >>

Save(kind, username) ==
    messages' = Append(messages, [kind |-> kind, username |-> username])

\* Mutant: the target is read and not taken.
WriteMessageLeavesTarget ==
    /\ Reading /\ input_mode = "MessageWriting"
    /\ input_mode' = "Command"
    /\ pending_msg_kind' = "none"
    /\ Say("not_sent")
    /\ UNCHANGED << pending_username, pending_stat_type, report, panel, tables, began >>

\* A direct message needs a registered user, and the insert may fail.  The
\* pending fields of a message that is written are always set
\* (DialogueComplete): the code's "internal error" is never reached.
WriteMessage ==
    /\ Reading /\ input_mode = "MessageWriting"
    /\ input_mode' = "Command"
    /\ pending_msg_kind' = "none"
    /\ pending_username' = NoName
    /\ \/ /\ pending_msg_kind = "Broadcast" /\ Len(messages) < MaxMessages
          /\ Save("broadcast", NoName)
          /\ Say("sent")
       \/ /\ pending_msg_kind = "Direct" /\ Len(messages) < MaxMessages
          /\ pending_username \in registered
          /\ Save("direct", pending_username)
          /\ Say("sent")
       \/ /\ Say("not_sent")
          /\ UNCHANGED messages
    /\ UNCHANGED << pending_stat_type, report, panel, registered, trips, today, began >>

\* users: the list, or one line when it is empty or cannot be read.
SeeUsers ==
    /\ Reading /\ input_mode = "Command"
    /\ Say("no_users") \/ (registered # {} /\ Say("users"))
    /\ UNCHANGED << dialogue, report, panel, tables, began >>

\* get_msg: the last rows, in their order; a query that fails clears the panel.
LatestMessages ==
    LET first == IF Len(messages) <= PanelLimit THEN 1 ELSE Len(messages) - PanelLimit + 1
    IN  [i \in 1 .. Len(messages) + 1 - first |-> first + i - 1]

Refresh ==
    /\ Reading
    /\ panel' \in {LatestMessages, << >>}
    /\ UNCHANGED << dialogue, feedback, report, shown, tables, began >>

\* get_user_logs: the rows of the user, oldest first, cut at the limit.
MessagesOf(username) == {id \in 1 .. Len(messages) : messages[id].username = username}

\* The ids in their order, which is one list.
InOrder(ids) ==
    {list \in [1 .. Cardinality(ids) -> ids] : \A i, j \in DOMAIN list :
        i < j => list[i] < list[j]}

UserLogs(list) ==
    IF Len(list) <= LogLimit THEN list ELSE SubSeq(list, 1, LogLimit)

LogsCommand(username) ==
    /\ Reading /\ input_mode = "Command"
    /\ \/ /\ feedback' = "latest_logs"
          /\ \E list \in InOrder(MessagesOf(username)) :
                shown' = [username |-> username, ids |-> UserLogs(list)]
       \/ Say("database_error")
    /\ UNCHANGED << dialogue, report, panel, tables, began >>
-----------------------------------------------------------------------------
(* Statistics.                                                             *)

StatsCommand(username) ==
    /\ Reading /\ input_mode = "Command"
    /\ pending_username' = username
    /\ input_mode' = "StatsTypeSelection"
    /\ Say("choose_statistic")
    /\ UNCHANGED << pending_msg_kind, pending_stat_type, report, panel, tables, began >>

SelectStatType(stat_type) ==
    /\ Reading /\ input_mode = "StatsTypeSelection"
    /\ pending_stat_type' = stat_type
    /\ input_mode' = "TemporalSelection"
    /\ Say("choose_interval")
    /\ UNCHANGED << pending_username, pending_msg_kind, report, panel, tables, began >>

StartDate(interval) ==
    CASE interval = "day" -> today
      [] interval = "week" -> Monday[today]
      [] interval = "month" -> FirstOfMonth[today]

\* The start date is taken when a query is issued: for all but the second
\* query of the velocity, at once.  A lookup that fails finds no user.
SelectInterval(interval) ==
    /\ Reading /\ input_mode = "TemporalSelection"
    /\ input_mode' = "Command"
    /\ pending_username' = NoName
    /\ pending_stat_type' = "none"
    /\ began' = [rows |-> Len(trips), day |-> today]
    /\ \/ /\ pending_username \in registered
          /\ report' = [NoReport EXCEPT !.username = pending_username,
                                        !.stat_type = pending_stat_type,
                                        !.interval = interval,
                                        !.since = StartDate(interval),
                                        !.todo = QueriesOf(pending_stat_type)]
          /\ Say("extracting")
       \/ /\ report' = NoReport
          /\ Say("not_found")
    /\ UNCHANGED << pending_msg_kind, panel, tables >>

\* The sum of a column over rows 1 .. n, of a user and since a date.
Sum(column, username, since, n) ==
    LET total[i \in 0 .. n] ==
          IF i = 0 THEN 0
          ELSE total[i - 1] + IF trips[i].username = username /\ trips[i].trip_date >= since
                                THEN trips[i][column] ELSE 0
    IN  total[n]

\* Mutant: the query forgets the date.
TotalSinceEver(column, since) == Sum(column, report.username, 0, Len(trips))

Total(column, since) == Sum(column, report.username, since, Len(trips))

Answered(query, values) ==
    /\ report' = [values EXCEPT !.todo = @ \ {query}]
    /\ Say(IF report.todo = {query} THEN "report" ELSE "extracting")
    /\ UNCHANGED << dialogue, panel, tables, began >>

ReadDistance ==
    /\ "distance" \in report.todo
    /\ Answered("distance", [report EXCEPT !.distance = Total("distance_km", report.since)])

ReadDurations ==
    /\ "durations" \in report.todo
    /\ Answered("durations",
                [report EXCEPT !.moving = Total("moving_seconds", report.since),
                               !.stopped = Total("stopped_seconds", report.since)])

ReadVelocityDistance ==
    /\ "velocity_distance" \in report.todo
    /\ Answered("velocity_distance",
                [report EXCEPT !.velocity_distance = Total("distance_km", report.since)])

ReadVelocityDurations ==
    /\ "velocity_durations" \in report.todo
    /\ "velocity_distance" \notin report.todo
    /\ Answered("velocity_durations",
                [report EXCEPT !.velocity_moving =
                   Total("moving_seconds", StartDate(report.interval))])

\* A query fails: try_join! gives the others up.
QueryFails ==
    /\ report.todo # {}
    /\ report' = NoReport
    /\ Say("database_error")
    /\ UNCHANGED << dialogue, panel, tables, began >>
-----------------------------------------------------------------------------
(* What the rest of the server does to the tables meanwhile.               *)

RegisterUser(username) ==
    /\ username \notin registered
    /\ registered' = registered \cup {username}
    /\ UNCHANGED << dialogue, feedback, report, shown, panel, trips, messages, today, began >>

CommitTrip(username, distance, moving, stopped) ==
    /\ username \in registered
    /\ Len(trips) < MaxTrips
    /\ trips' = Append(trips, [username |-> username, trip_date |-> today,
                               distance_km |-> distance,
                               moving_seconds |-> moving, stopped_seconds |-> stopped])
    /\ UNCHANGED << dialogue, feedback, report, shown, panel, registered, messages, today, began >>

ClientText(username) ==
    /\ username \in registered
    /\ Len(messages) < MaxMessages
    /\ Save("client_to_server", username)
    /\ UNCHANGED << dialogue, feedback, report, shown, panel, registered, trips, today, began >>

NewDay ==
    /\ today + 1 \in Days
    /\ today' = today + 1
    /\ UNCHANGED << dialogue, feedback, report, shown, panel, registered, trips, messages, began >>

\* 'exit' where it is understood, or control-C: the server ends, and is started
\* again on the same tables.
Exit ==
    /\ Reading
    /\ input_mode' = "Command"
    /\ pending_username' = NoName
    /\ pending_msg_kind' = "none"
    /\ pending_stat_type' = "none"
    /\ Say("none")
    /\ report' = NoReport
    /\ panel' = << >>
    /\ UNCHANGED << tables, began >>

Statistics ==
    \/ \E username \in Usernames : StatsCommand(username)
    \/ \E stat_type \in StatType : SelectStatType(stat_type)
    \/ \E interval \in Interval : SelectInterval(interval)
    \/ ReadDistance \/ ReadDurations \/ ReadVelocityDistance \/ ReadVelocityDurations
    \/ QueryFails

Messages ==
    \/ MsgCommand
    \/ \E value \in {"1", "2", "annulla"} : SelectMessage(value)
    \/ \E username \in Usernames : SelectTarget(username) \/ LogsCommand(username)
    \/ WriteMessage \/ SeeUsers \/ Refresh

Others ==
    \/ \E username \in Usernames : RegisterUser(username) \/ ClientText(username)
    \/ \E username \in Usernames, distance \in Distances, moving, stopped \in Seconds :
          CommitTrip(username, distance, moving, stopped)
    \/ NewDay

Next == Statistics \/ Messages \/ Exit \/ Others

Spec == Init /\ [][Next]_vars
-----------------------------------------------------------------------------
(* Every variable keeps its type.                                            *)
TypeOK ==
    /\ input_mode \in InputMode
    /\ pending_username \in Usernames \cup {NoName}
    /\ pending_msg_kind \in {"none", "Direct", "Broadcast"}
    /\ pending_stat_type \in {"none"} \cup StatType
    /\ report.todo \subseteq Query
    /\ \A i \in 1 .. Len(shown.ids) : shown.ids[i] \in 1 .. Len(messages)
    /\ Len(shown.ids) <= LogLimit
    /\ Len(panel) <= PanelLimit
    /\ \A i \in 1 .. Len(panel) : panel[i] = panel[1] + i - 1 /\ panel[i] \in 1 .. Len(messages)
    /\ registered \subseteq Usernames
    /\ trips \in Seq([username : Usernames, trip_date : Days, distance_km : Distances,
                      moving_seconds : Seconds, stopped_seconds : Seconds])
    /\ messages \in Seq([kind : {"direct", "broadcast", "client_to_server"},
                         username : Usernames \cup {NoName}])
    /\ today \in Days

(* The dialogues share pending_username, and yet each finds what it needs    *)
(* and nothing a former one left: a message is never written without its     *)
(* kind and target (app.rs:204 is dead), a report never falls back to the    *)
(* empty name or to all statistics (app.rs:236), and the prompt for commands *)
(* has nothing pending.                                                      *)
DialogueComplete ==
    /\ pending_msg_kind # "none" <=> input_mode \in {"TargetSelection", "MessageWriting"}
    /\ pending_stat_type # "none" <=> input_mode = "TemporalSelection"
    /\ pending_username # NoName <=>
         \/ input_mode \in {"StatsTypeSelection", "TemporalSelection"}
         \/ input_mode = "MessageWriting" /\ pending_msg_kind = "Direct"

(* A report in progress, or the last one completed.                          *)
WasTotal(value, column) ==
    \E n \in began.rows .. Len(trips), day \in began.day .. today :
        LET since == CASE report.interval = "day" -> day
                       [] report.interval = "week" -> Monday[day]
                       [] report.interval = "month" -> FirstOfMonth[day]
        IN  value = Sum(column, report.username, since, n)

(* Each figure of a report was the user's total at some moment between the   *)
(* command and now, whatever was committed and whichever day began meanwhile. *)
FiguresWereTrue ==
    LET Read(query) == query \in QueriesOf(report.stat_type) \ report.todo IN
    report.username # NoName =>
        /\ Read("distance") => WasTotal(report.distance, "distance_km")
        /\ Read("durations") => /\ WasTotal(report.moving, "moving_seconds")
                                /\ WasTotal(report.stopped, "stopped_seconds")
        /\ Read("velocity_distance") => WasTotal(report.velocity_distance, "distance_km")
        /\ Read("velocity_durations") => WasTotal(report.velocity_moving, "moving_seconds")

(* The console announces the last messages of a user (runtime.rs:139).       *)
LatestLogs ==
    [][ \A username \in Usernames :
          LogsCommand(username) /\ feedback' = "latest_logs" =>
            \A list \in InOrder(MessagesOf(username)) :
                LET first == IF Len(list) <= LogLimit THEN 1 ELSE Len(list) - LogLimit + 1
                IN  shown'.ids = SubSeq(list, first, Len(list)) ]_vars
=============================================================================
