------------------------- MODULE AdminConsoleProofs -------------------------
(***************************************************************************)
(* Proofs about AdminConsole, for every set of names, calendar, distances, *)
(* durations, limits and numbers of rows.                                  *)
(***************************************************************************)
EXTENDS AdminConsole, SequenceTheorems, FiniteSetTheorems, TLAPS

(* The fields of a report; its figures are what the queries returned.        *)
ReportOK ==
    /\ report = [username |-> report.username, stat_type |-> report.stat_type,
                 interval |-> report.interval, since |-> report.since, todo |-> report.todo,
                 distance |-> report.distance, moving |-> report.moving,
                 stopped |-> report.stopped,
                 velocity_distance |-> report.velocity_distance,
                 velocity_moving |-> report.velocity_moving]
    /\ report.stat_type \in StatType
    /\ report.interval \in Interval

DateOf(interval, day) ==
    CASE interval = "day" -> day
      [] interval = "week" -> Monday[day]
      [] interval = "month" -> FirstOfMonth[day]

(* The report was asked for in an earlier or this state of the tables, and   *)
(* its start date is that of the day of the command.                         *)
Asked ==
    /\ began.rows \in 0 .. Len(trips)
    /\ began.day \in 0 .. today
    /\ report.username # NoName => report.since = DateOf(report.interval, began.day)

(* Only a direct message asks for its target: DialogueComplete does not say  *)
(* so, and the step after it depends on it.                                  *)
Dialogue ==
    /\ DialogueComplete
    /\ input_mode = "TargetSelection" => pending_msg_kind = "Direct"

IInv == TypeOK /\ Dialogue /\ ReportOK /\ Asked /\ FiguresWereTrue
-----------------------------------------------------------------------------
(* A trip that is committed changes no sum over the rows before it.          *)
LEMMA SumKept ==
    ASSUME NEW trip, trips' = Append(trips, trip), Len(trips) \in Nat,
           NEW column, NEW username, NEW since, NEW n \in 0 .. Len(trips)
    PROVE  Sum(column, username, since, n)' = Sum(column, username, since, n)
<1> DEFINE Added(rows, i) ==
             IF rows[i].username = username /\ rows[i].trip_date >= since
               THEN rows[i][column] ELSE 0
           F(rows, f) == [i \in 0 .. n |-> IF i = 0 THEN 0 ELSE f[i - 1] + Added(rows, i)]
<1>1. \A i \in 1 .. n : trips'[i] = trips[i]
  OBVIOUS
<1>2. ASSUME NEW f PROVE F(trips', f) = F(trips, f)
  <2>1. \A i \in 0 .. n : i = 0 \/ Added(trips', i) = Added(trips, i)
    BY <1>1
  <2> HIDE DEF Added
  <2>2. QED BY <2>1
<1> DEFINE old == CHOOSE f : f = F(trips, f)
           new == CHOOSE f : f = F(trips', f)
<1>3. \A f : f = F(trips', f) <=> f = F(trips, f)
  <2> HIDE DEF F
  <2>1. QED BY <1>2
<1>4. new = old
  <2> HIDE DEF F
  <2>1. QED BY <1>3
<1>5. Sum(column, username, since, n) = old[n]
  BY DEF Sum
<1>6. Sum(column, username, since, n)' = new[n]
  BY DEF Sum
<1>7. QED BY <1>4, <1>5, <1>6

-----------------------------------------------------------------------------
(* The kinds of step: a line at the prompt that leaves the report alone, the *)
(* start of a report, a query, a report that is given up, and what the rest  *)
(* of the server does.                                                       *)
Prompt ==
    /\ \/ MsgCommand \/ WriteMessage \/ SeeUsers \/ Refresh
       \/ \E value \in {"1", "2", "annulla"} : SelectMessage(value)
       \/ \E username \in Usernames : SelectTarget(username) \/ LogsCommand(username)
       \/ \E username \in Usernames : StatsCommand(username)
       \/ \E stat_type \in StatType : SelectStatType(stat_type)

QueryStep == ReadDistance \/ ReadDurations \/ ReadVelocityDistance \/ ReadVelocityDurations

LEMMA NextKinds ==
    [Next]_vars => \/ Prompt \/ (\E interval \in Interval : SelectInterval(interval))
                   \/ QueryStep \/ QueryFails \/ Exit \/ Others \/ UNCHANGED vars
BY DEF Next, Statistics, Messages, Prompt, QueryStep

(* The rest of the server, seen from the console.                            *)
LEMMA OthersFrame ==
    ASSUME Others, TypeOK
    PROVE  /\ UNCHANGED << dialogue, feedback, report, shown, panel, began >>
           /\ Len(trips) \in Nat /\ today \in Nat
           /\ trips' = trips \/ \E trip : trips' = Append(trips, trip)
           /\ today' = today \/ today' = today + 1
           /\ today' \in Days
<1>1. today \in Days /\ trips \in Seq([username : Usernames, trip_date : Days,
                                      distance_km : Distances, moving_seconds : Seconds,
                                      stopped_seconds : Seconds])
  BY DEF TypeOK
<1>2. Len(trips) \in Nat /\ today \in Nat
  BY <1>1, LenProperties, ConsoleAssumption
<1>3. ASSUME NEW username \in Usernames, RegisterUser(username) \/ ClientText(username)
      PROVE  UNCHANGED << dialogue, feedback, report, shown, panel, began, trips, today >>
  BY <1>3 DEF RegisterUser, ClientText
<1>4. ASSUME NEW username \in Usernames, NEW distance \in Distances,
             NEW moving \in Seconds, NEW stopped \in Seconds,
             CommitTrip(username, distance, moving, stopped)
      PROVE  /\ UNCHANGED << dialogue, feedback, report, shown, panel, began, today >>
             /\ \E trip : trips' = Append(trips, trip)
  BY <1>4 DEF CommitTrip
<1>5. ASSUME NewDay
      PROVE  /\ UNCHANGED << dialogue, feedback, report, shown, panel, began, trips >>
             /\ today' = today + 1 /\ today' \in Days
  BY <1>5 DEF NewDay
<1>6. QED BY <1>1, <1>2, <1>3, <1>4, <1>5 DEF Others

(* Each dialogue sets what it needs before it is needed and takes it when it *)
(* ends.                                                                     *)
LEMMA DialogueStep ==
    ASSUME TypeOK, Dialogue, [Next]_vars
    PROVE  Dialogue'
<1>1. CASE Prompt
  <2>1. ASSUME MsgCommand \/ WriteMessage \/ SeeUsers \/ Refresh PROVE Dialogue'
    BY <2>1 DEF MsgCommand, WriteMessage, SeeUsers, Refresh, dialogue, Dialogue,
                DialogueComplete
  <2>2. ASSUME NEW value, SelectMessage(value) PROVE Dialogue'
    BY <2>2 DEF SelectMessage, Dialogue, DialogueComplete
  <2>3. ASSUME NEW username \in Usernames,
               SelectTarget(username) \/ LogsCommand(username) \/ StatsCommand(username)
        PROVE  Dialogue'
    BY <2>3, ConsoleAssumption DEF SelectTarget, LogsCommand, StatsCommand, dialogue,
                                   Dialogue, DialogueComplete
  <2>4. ASSUME NEW stat_type \in StatType, SelectStatType(stat_type) PROVE Dialogue'
    BY <2>4 DEF SelectStatType, StatType, Dialogue, DialogueComplete
  <2>5. QED BY <1>1, <2>1, <2>2, <2>3, <2>4 DEF Prompt
<1>2. ASSUME NEW interval, SelectInterval(interval) PROVE Dialogue'
  BY <1>2 DEF SelectInterval, Dialogue, DialogueComplete
<1>3. CASE QueryStep \/ QueryFails \/ UNCHANGED vars
  <2>1. UNCHANGED dialogue
    BY <1>3 DEF QueryStep, ReadDistance, ReadDurations, ReadVelocityDistance,
                ReadVelocityDurations, Answered, QueryFails, vars
  <2>2. QED BY <2>1 DEF dialogue, Dialogue, DialogueComplete
<1>4. CASE Exit
  BY <1>4 DEF Exit, Dialogue, DialogueComplete
<1>5. CASE Others
  BY <1>5, OthersFrame DEF dialogue, Dialogue, DialogueComplete
<1>6. QED BY <1>1, <1>2, <1>3, <1>4, <1>5, NextKinds

(* A query changes one figure, and is then done.                             *)
LEMMA QueryFrame ==
    ASSUME ReportOK, TypeOK, QueryStep
    PROVE  /\ UNCHANGED << dialogue, panel, tables, began >>
           /\ shown' = NoLog
           /\ report'.username = report.username /\ report'.stat_type = report.stat_type
           /\ report'.interval = report.interval /\ report'.since = report.since
           /\ report'.todo \subseteq report.todo
           /\ ReportOK'
<1>1. CASE ReadDistance
  BY <1>1 DEF ReadDistance, Answered, Say, ReportOK
<1>2. CASE ReadDurations
  BY <1>2 DEF ReadDurations, Answered, Say, ReportOK
<1>3. CASE ReadVelocityDistance
  BY <1>3 DEF ReadVelocityDistance, Answered, Say, ReportOK
<1>4. CASE ReadVelocityDurations
  BY <1>4 DEF ReadVelocityDurations, Answered, Say, ReportOK
<1>5. QED BY <1>1, <1>2, <1>3, <1>4 DEF QueryStep

\* The prompt leaves the report and what it depends on alone.
LEMMA PromptFrame ==
    ASSUME Prompt
    PROVE  UNCHANGED << report, registered, trips, today, began >>
BY DEF Prompt, MsgCommand, WriteMessage, SeeUsers, Refresh, SelectMessage, SelectTarget,
       LogsCommand, StatsCommand, SelectStatType, tables

LEMMA NoReportOK ==
    ASSUME report' = NoReport
    PROVE  ReportOK' /\ report'.username = NoName /\ report'.todo = {}
BY DEF NoReport, ReportOK, StatType, Interval

(* A report is asked for with the statistic and the user of the dialogue.    *)
LEMMA IntervalFrame ==
    ASSUME TypeOK, DialogueComplete, NEW interval \in Interval, SelectInterval(interval)
    PROVE  /\ ReportOK'
           /\ UNCHANGED << panel, tables >> /\ shown' = NoLog
           /\ began' = [rows |-> Len(trips), day |-> today]
           /\ report'.todo \subseteq Query
           /\ report'.username # NoName =>
                 /\ report'.since = DateOf(report'.interval, today)
                 /\ report'.todo = QueriesOf(report'.stat_type)
<1>1. CASE report' = NoReport
  BY <1>1, NoReportOK DEF SelectInterval, Say
<1>2. CASE report' = [NoReport EXCEPT !.username = pending_username,
                                      !.stat_type = pending_stat_type,
                                      !.interval = interval,
                                      !.since = StartDate(interval),
                                      !.todo = QueriesOf(pending_stat_type)]
  <2>1. pending_stat_type \in StatType
    BY DEF SelectInterval, DialogueComplete, TypeOK
  <2>2. StartDate(interval) = DateOf(interval, today)
    BY DEF StartDate, DateOf
  <2>3. /\ report'.username = pending_username /\ report'.stat_type = pending_stat_type
        /\ report'.interval = interval /\ report'.since = StartDate(interval)
        /\ report'.todo = QueriesOf(pending_stat_type)
    BY <1>2 DEF NoReport
  <2>4. ReportOK'
    BY <1>2, <2>1, <2>3 DEF ReportOK, NoReport
  <2>5. QueriesOf(pending_stat_type) \subseteq Query
    BY <2>1 DEF QueriesOf, StatType, Query
  <2>6. QED BY <2>2, <2>3, <2>4, <2>5 DEF SelectInterval, Say
<1>3. QED BY <1>1, <1>2 DEF SelectInterval

LEMMA ReportStep ==
    ASSUME TypeOK, DialogueComplete, ReportOK, [Next]_vars
    PROVE  ReportOK'
<1>1. CASE Prompt \/ Others \/ UNCHANGED vars
  <2>1. report' = report
    BY <1>1, PromptFrame, OthersFrame DEF vars
  <2>2. QED BY <2>1 DEF ReportOK
<1>2. CASE QueryFails \/ Exit
  BY <1>2, NoReportOK DEF QueryFails, Exit
<1>3. QED BY <1>1, <1>2, NextKinds, QueryFrame, IntervalFrame

-----------------------------------------------------------------------------
(* What the console shows names rows that exist.                             *)
LEMMA LogRows ==
    ASSUME Len(messages) \in Nat, NEW username, NEW list \in InOrder(MessagesOf(username))
    PROVE  /\ Len(UserLogs(list)) \in Nat /\ Len(UserLogs(list)) <= LogLimit
           /\ \A i \in 1 .. Len(UserLogs(list)) : UserLogs(list)[i] \in 1 .. Len(messages)
<1> DEFINE ids == MessagesOf(username)
           n == Cardinality(ids)
           rows == 1 .. Len(messages)
<1>1. ids \subseteq rows /\ IsFiniteSet(rows)
  BY FS_Interval DEF MessagesOf
<1>2. n \in Nat
  BY <1>1, FS_Subset, FS_CardinalityType
<1>3. list \in [1 .. n -> ids]
  BY DEF InOrder
<1> HIDE DEF n, ids
<1>4. list \in [1 .. n -> rows]
  BY <1>1, <1>3
<1> HIDE DEF rows
<1>5. list \in Seq(rows) /\ Len(list) = n
  BY <1>2, <1>4
<1>6. CASE Len(list) <= LogLimit
  <2>1. UserLogs(list) = list
    BY <1>6 DEF UserLogs
  <2>2. QED BY <1>2, <1>4, <1>5, <1>6, <2>1 DEF rows
<1>7. CASE ~(Len(list) <= LogLimit)
  <2> DEFINE cut == SubSeq(list, 1, LogLimit)
  <2>1. UserLogs(list) = cut
    BY <1>7 DEF UserLogs
  <2>2. 1 \in Int /\ LogLimit \in Int /\ LogLimit \in Nat /\ LogLimit < n /\ LogLimit >= 1
    BY <1>2, <1>5, <1>7, ConsoleAssumption
  <2>3. \A i \in 1 .. LogLimit : list[i] \in rows
    BY <1>2, <1>4, <2>2
  <2>4. /\ cut \in Seq(rows)
        /\ Len(cut) = IF 1 <= LogLimit THEN LogLimit - 1 + 1 ELSE 0
        /\ \A i \in 1 .. LogLimit - 1 + 1 : cut[i] = list[1 + i - 1]
    BY <2>2, <2>3, SubSeqProperties
  <2> HIDE DEF cut
  <2>5. Len(cut) = LogLimit
    BY <2>2, <2>4
  <2>6. \A i \in 1 .. Len(cut) : cut[i] \in rows
    BY <2>4, ElementOfSeq
  <2>7. QED BY <2>1, <2>2, <2>5, <2>6 DEF rows
<1>8. QED BY <1>6, <1>7

LEMMA PanelRows ==
    ASSUME Len(messages) \in Nat
    PROVE  /\ Len(LatestMessages) \in Nat /\ Len(LatestMessages) <= PanelLimit
           /\ \A i \in 1 .. Len(LatestMessages) :
                 /\ LatestMessages[i] = LatestMessages[1] + i - 1
                 /\ LatestMessages[i] \in 1 .. Len(messages)
<1> DEFINE n == Len(messages)
           first == IF n <= PanelLimit THEN 1 ELSE n - PanelLimit + 1
           k == n + 1 - first
<1>1. /\ n \in Nat /\ PanelLimit \in Nat \ {0}
  BY ConsoleAssumption
<1>2. LatestMessages = [i \in 1 .. k |-> first + i - 1]
  BY DEF LatestMessages
<1> HIDE DEF n
<1>3. first \in 1 .. n + 1 /\ k \in Nat /\ k <= PanelLimit /\ k <= n
  BY <1>1
<1>4. Len(LatestMessages) = k
  BY <1>2, <1>3
<1>5. \A i \in 1 .. k : first + i - 1 \in 1 .. n
  BY <1>1, <1>3
<1> HIDE DEF k, first
<1>6. ASSUME NEW i \in 1 .. k
      PROVE  /\ LatestMessages[i] = LatestMessages[1] + i - 1
             /\ LatestMessages[i] \in 1 .. n
  <2>1. 1 \in 1 .. k /\ k \in Nat /\ first \in Nat
    BY <1>1, <1>3
  <2>2. LatestMessages[i] = first + i - 1 /\ LatestMessages[1] = first + 1 - 1
    BY <1>2, <2>1
  <2>3. \A a \in Int, b \in Int : a + b - 1 = (a + 1 - 1) + b - 1
    OBVIOUS
  <2>4. first \in Int /\ i \in Int
    BY <2>1
  <2>5. LatestMessages[i] = LatestMessages[1] + i - 1
    BY <2>2, <2>3, <2>4
  <2>6. QED BY <1>5, <2>2, <2>5
<1>7. QED BY <1>3, <1>4, <1>6 DEF n

(* TypeOK by what a step can disturb.                                        *)
DialogueType ==
    /\ input_mode \in InputMode
    /\ pending_username \in Usernames \cup {NoName}
    /\ pending_msg_kind \in {"none", "Direct", "Broadcast"}
    /\ pending_stat_type \in {"none"} \cup StatType

ShownType ==
    /\ \A i \in 1 .. Len(shown.ids) : shown.ids[i] \in 1 .. Len(messages)
    /\ Len(shown.ids) <= LogLimit
    /\ Len(panel) <= PanelLimit
    /\ \A i \in 1 .. Len(panel) : panel[i] = panel[1] + i - 1 /\ panel[i] \in 1 .. Len(messages)

TablesType ==
    /\ registered \subseteq Usernames
    /\ trips \in Seq([username : Usernames, trip_date : Days, distance_km : Distances,
                      moving_seconds : Seconds, stopped_seconds : Seconds])
    /\ messages \in Seq([kind : {"direct", "broadcast", "client_to_server"},
                         username : Usernames \cup {NoName}])
    /\ today \in Days

LEMMA TypeParts ==
    TypeOK <=> DialogueType /\ report.todo \subseteq Query /\ ShownType /\ TablesType
BY DEF TypeOK, DialogueType, ShownType, TablesType

LEMMA DialogueTypeStep ==
    ASSUME DialogueType, TypeOK, ReportOK, [Next]_vars
    PROVE  DialogueType'
<1>1. CASE Prompt
  <2>1. ASSUME MsgCommand \/ WriteMessage \/ SeeUsers \/ Refresh PROVE DialogueType'
    BY <2>1 DEF MsgCommand, WriteMessage, SeeUsers, Refresh, dialogue, DialogueType, InputMode
  <2>2. ASSUME NEW value, SelectMessage(value) PROVE DialogueType'
    BY <2>2 DEF SelectMessage, DialogueType, InputMode
  <2>3. ASSUME NEW username \in Usernames,
               SelectTarget(username) \/ LogsCommand(username) \/ StatsCommand(username)
        PROVE  DialogueType'
    BY <2>3 DEF SelectTarget, LogsCommand, StatsCommand, dialogue, DialogueType, InputMode
  <2>4. ASSUME NEW stat_type \in StatType, SelectStatType(stat_type) PROVE DialogueType'
    BY <2>4 DEF SelectStatType, DialogueType, InputMode
  <2>5. QED BY <1>1, <2>1, <2>2, <2>3, <2>4 DEF Prompt
<1>2. ASSUME NEW interval, SelectInterval(interval) PROVE DialogueType'
  BY <1>2 DEF SelectInterval, DialogueType, InputMode
<1>3. CASE QueryStep \/ QueryFails \/ Others \/ UNCHANGED vars
  <2>1. UNCHANGED dialogue
    BY <1>3, QueryFrame, OthersFrame DEF QueryFails, vars
  <2>2. QED BY <2>1 DEF dialogue, DialogueType
<1>4. CASE Exit
  BY <1>4 DEF Exit, DialogueType, InputMode
<1>5. QED BY <1>1, <1>2, <1>3, <1>4, NextKinds

LEMMA TablesTypeStep ==
    ASSUME TypeOK, ReportOK, Dialogue, [Next]_vars
    PROVE  TablesType' /\ Len(messages) \in Nat /\ Len(messages') \in Nat
           /\ Len(messages) <= Len(messages')
<1>1. TablesType /\ Len(messages) \in Nat
  BY TypeParts, LenProperties DEF TablesType
<1> DEFINE Grows == Len(messages') \in Nat /\ Len(messages) <= Len(messages')
           Row == [kind : {"direct", "broadcast", "client_to_server"},
                   username : Usernames \cup {NoName}]
<1>2. ASSUME UNCHANGED tables PROVE TablesType' /\ Grows
  BY <1>1, <1>2 DEF TablesType, tables
<1>3. ASSUME NEW row \in Row, messages' = Append(messages, row)
      PROVE  messages' \in Seq(Row) /\ Grows
  <2>1. messages \in Seq(Row)
    BY <1>1 DEF TablesType
  <2> HIDE DEF Row
  <2>2. QED BY <1>1, <1>3, <2>1, AppendProperties
<1>4. ASSUME NEW kind \in {"direct", "broadcast", "client_to_server"},
             NEW username \in Usernames \cup {NoName},
             Save(kind, username), UNCHANGED << registered, trips, today >>
      PROVE  TablesType' /\ Grows
  <2>1. [kind |-> kind, username |-> username] \in Row
    OBVIOUS
  <2>2. QED BY <1>1, <1>3, <1>4, <2>1 DEF TablesType, Save
<1>5. CASE WriteMessage
  <2>1. UNCHANGED << registered, trips, today >>
    BY <1>5 DEF WriteMessage
  <2>2. \/ Save("broadcast", NoName)
        \/ pending_username \in registered /\ Save("direct", pending_username)
        \/ messages' = messages
    BY <1>5 DEF WriteMessage
  <2>3. registered \subseteq Usernames
    BY <1>1 DEF TablesType
  <2>4. QED BY <1>2, <1>4, <2>1, <2>2, <2>3 DEF tables
<1>6. CASE Prompt /\ ~WriteMessage
  BY <1>2, <1>6 DEF Prompt, MsgCommand, SeeUsers, Refresh, SelectMessage, SelectTarget,
                    LogsCommand, StatsCommand, SelectStatType
<1>7. CASE Others
  <2>1. ASSUME NEW username \in Usernames, RegisterUser(username) PROVE TablesType' /\ Grows
    BY <1>1, <2>1 DEF RegisterUser, TablesType
  <2>2. ASSUME NEW username \in Usernames, ClientText(username) PROVE TablesType' /\ Grows
    BY <1>4, <2>2 DEF ClientText
  <2>3. ASSUME NEW username \in Usernames, NEW distance \in Distances,
               NEW moving \in Seconds, NEW stopped \in Seconds,
               CommitTrip(username, distance, moving, stopped)
        PROVE  TablesType' /\ Grows
    <3> DEFINE trip == [username |-> username, trip_date |-> today, distance_km |-> distance,
                        moving_seconds |-> moving, stopped_seconds |-> stopped]
               Trips == [username : Usernames, trip_date : Days, distance_km : Distances,
                         moving_seconds : Seconds, stopped_seconds : Seconds]
    <3>1. trip \in Trips /\ trips \in Seq(Trips)
      BY <1>1 DEF TablesType
    <3>2. trips' = Append(trips, trip) /\ UNCHANGED << registered, messages, today >>
      BY <2>3 DEF CommitTrip
    <3>3. trips' \in Seq(Trips)
      <4> HIDE DEF trip, Trips
      <4>1. QED BY <3>1, <3>2, AppendProperties
    <3>4. QED BY <1>1, <3>2, <3>3 DEF TablesType
  <2>4. ASSUME NewDay PROVE TablesType' /\ Grows
    BY <1>1, <2>4 DEF NewDay, TablesType
  <2>5. QED BY <1>7, <2>1, <2>2, <2>3, <2>4 DEF Others
<1>8. CASE QueryStep \/ QueryFails \/ Exit \/ UNCHANGED vars
  BY <1>2, <1>8, QueryFrame DEF QueryFails, Exit, vars
<1>9. ASSUME NEW interval \in Interval, SelectInterval(interval) PROVE TablesType' /\ Grows
  BY <1>2, <1>9 DEF SelectInterval
<1>10. QED BY <1>1, <1>5, <1>6, <1>7, <1>8, <1>9, NextKinds

LEMMA ShownTypeStep ==
    ASSUME TypeOK, ReportOK, Dialogue, [Next]_vars
    PROVE  ShownType'
<1>1. /\ ShownType /\ Len(messages) \in Nat /\ Len(messages') \in Nat
      /\ Len(messages) <= Len(messages')
  BY TypeParts, TablesTypeStep
<1>2. \A x : x \in 1 .. Len(messages) => x \in 1 .. Len(messages')
  BY <1>1
<1> DEFINE LogOK == /\ \A i \in 1 .. Len(shown'.ids) : shown'.ids[i] \in 1 .. Len(messages')
                    /\ Len(shown'.ids) <= LogLimit
           PanelOK == /\ Len(panel') <= PanelLimit
                      /\ \A i \in 1 .. Len(panel') : /\ panel'[i] = panel'[1] + i - 1
                                                     /\ panel'[i] \in 1 .. Len(messages')
<1>3. shown' = shown => LogOK
  BY <1>1, <1>2 DEF ShownType
<1>4. shown' = NoLog => LogOK
  BY ConsoleAssumption DEF NoLog
<1>5. ASSUME NEW username \in Usernames, LogsCommand(username) PROVE LogOK
  <2>1. CASE shown' = NoLog
    BY <1>4, <2>1
  <2>2. CASE \E list \in InOrder(MessagesOf(username)) :
                shown' = [username |-> username, ids |-> UserLogs(list)]
    BY <1>1, <1>2, <2>2, LogRows
  <2>3. QED BY <1>5, <2>1, <2>2 DEF LogsCommand, Say
<1>6. panel' = panel => PanelOK
  BY <1>1, <1>2 DEF ShownType
<1>7. panel' = << >> => PanelOK
  BY ConsoleAssumption
<1>8. panel' = LatestMessages => PanelOK
  BY <1>1, <1>2, PanelRows
<1> HIDE DEF LogOK, PanelOK
<1>9. ASSUME Prompt PROVE LogOK /\ PanelOK
  <2>1. ASSUME MsgCommand \/ WriteMessage \/ SeeUsers PROVE LogOK /\ PanelOK
    BY <1>4, <1>6, <2>1 DEF MsgCommand, WriteMessage, SeeUsers, Say
  <2>2. ASSUME Refresh PROVE LogOK /\ PanelOK
    BY <1>3, <1>7, <1>8, <2>2 DEF Refresh
  <2>3. ASSUME NEW username \in Usernames, LogsCommand(username) PROVE LogOK /\ PanelOK
    BY <1>5, <1>6, <2>3 DEF LogsCommand
  <2>4. ASSUME NEW x, SelectTarget(x) \/ StatsCommand(x) \/ SelectStatType(x) \/ SelectMessage(x)
        PROVE  LogOK /\ PanelOK
    BY <1>4, <1>6, <2>4 DEF SelectTarget, StatsCommand, SelectStatType, SelectMessage, Say
  <2>5. QED BY <1>9, <2>1, <2>2, <2>3, <2>4 DEF Prompt
<1>10. ASSUME NEW interval \in Interval, SelectInterval(interval) PROVE LogOK /\ PanelOK
  BY <1>4, <1>6, <1>10 DEF SelectInterval, Say
<1>11. ASSUME QueryStep PROVE LogOK /\ PanelOK
  BY <1>4, <1>6, <1>11, QueryFrame
<1>12. ASSUME QueryFails \/ Exit PROVE LogOK /\ PanelOK
  BY <1>4, <1>6, <1>7, <1>12 DEF QueryFails, Exit, Say
<1>13. ASSUME Others \/ UNCHANGED vars PROVE LogOK /\ PanelOK
  BY <1>3, <1>6, <1>13, OthersFrame DEF vars
<1>14. LogOK /\ PanelOK
  BY <1>9, <1>10, <1>11, <1>12, <1>13, NextKinds
<1>15. QED BY <1>14 DEF LogOK, PanelOK, ShownType

LEMMA TypeStep ==
    ASSUME TypeOK, Dialogue, ReportOK, [Next]_vars
    PROVE  TypeOK'
<1>1. report.todo \subseteq Query /\ DialogueType
  BY TypeParts
<1>2. report'.todo \subseteq Query
  <2>1. CASE Prompt \/ Others \/ UNCHANGED vars
    BY <1>1, <2>1, PromptFrame, OthersFrame DEF vars
  <2>2. CASE QueryFails \/ Exit
    BY <2>2, NoReportOK DEF QueryFails, Exit
  <2>3. ASSUME NEW interval \in Interval, SelectInterval(interval)
        PROVE  report'.todo \subseteq Query
    BY <2>3, IntervalFrame DEF Dialogue
  <2>4. QED BY <1>1, <2>1, <2>2, <2>3, NextKinds, QueryFrame
<1>3. TypeOK' <=> (DialogueType /\ report.todo \subseteq Query /\ ShownType /\ TablesType)'
  BY DEF TypeOK, DialogueType, ShownType, TablesType
<1>4. QED BY <1>1, <1>2, <1>3, DialogueTypeStep, ShownTypeStep, TablesTypeStep

-----------------------------------------------------------------------------
(* The tables of a report: when it was asked for is never later than now.    *)
LEMMA AskedStep ==
    ASSUME TypeOK, Dialogue, ReportOK, Asked, [Next]_vars
    PROVE  Asked'
<1>1. Len(trips) \in Nat /\ today \in Nat
  BY TypeParts, LenProperties, ConsoleAssumption DEF TablesType
<1>2. ASSUME UNCHANGED << report, trips, today, began >> PROVE Asked'
  BY <1>2 DEF Asked
<1>3. CASE Prompt \/ UNCHANGED vars
  BY <1>2, <1>3, PromptFrame DEF vars, tables
<1>4. CASE QueryFails \/ Exit
  BY <1>4, NoReportOK DEF QueryFails, Exit, tables, Asked
<1>5. CASE QueryStep
  BY <1>5, QueryFrame DEF tables, Asked
<1>6. ASSUME NEW interval \in Interval, SelectInterval(interval) PROVE Asked'
  BY <1>1, <1>6, IntervalFrame DEF tables, Asked, Dialogue
<1>7. CASE Others
  <2>1. UNCHANGED << report, began >>
    BY <1>7, OthersFrame
  <2>2. Len(trips') \in Nat /\ Len(trips) <= Len(trips')
    <3>1. trips' = trips \/ \E trip : trips' = Append(trips, trip)
      BY <1>7, OthersFrame
    <3>2. ASSUME NEW trip, trips' = Append(trips, trip)
          PROVE  Len(trips') \in Nat /\ Len(trips) <= Len(trips')
      <4>1. trips \in Seq([username : Usernames, trip_date : Days, distance_km : Distances,
                           moving_seconds : Seconds, stopped_seconds : Seconds])
        BY TypeParts DEF TablesType
      <4>2. Len(trips') = Len(trips) + 1
        BY <3>2, <4>1
      <4>3. QED BY <1>1, <4>2
    <3>3. QED BY <1>1, <3>1, <3>2
  <2>3. today' \in Nat /\ today <= today'
    BY <1>1, <1>7, OthersFrame
  <2>4. QED BY <1>1, <2>1, <2>2, <2>3 DEF Asked
<1>8. QED BY <1>3, <1>4, <1>5, <1>6, <1>7, NextKinds

(* A figure that was true at some moment stays one that was.                 *)
LEMMA StaysTrue ==
    ASSUME TypeOK, Asked, report' = report, began' = began,
           trips' = trips \/ \E trip : trips' = Append(trips, trip),
           today' = today \/ today' = today + 1,
           NEW value, NEW column, WasTotal(value, column)
    PROVE  \E n \in began.rows .. Len(trips'), day \in began.day .. today' :
              value = Sum(column, report.username, DateOf(report.interval, day), n)'
<1>1. /\ Len(trips) \in Nat /\ today \in Nat /\ began.rows \in Nat /\ began.day \in Nat
      /\ trips \in Seq([username : Usernames, trip_date : Days, distance_km : Distances,
                        moving_seconds : Seconds, stopped_seconds : Seconds])
  <2>1. TablesType
    BY TypeParts
  <2>2. Len(trips) \in Nat /\ today \in Nat
    BY <2>1, LenProperties, ConsoleAssumption DEF TablesType
  <2>3. began.rows \in Nat /\ began.day \in Nat
    BY <2>2 DEF Asked
  <2>4. QED BY <2>1, <2>2, <2>3 DEF TablesType
<1>2. PICK n \in began.rows .. Len(trips), day \in began.day .. today :
         value = Sum(column, report.username, DateOf(report.interval, day), n)
  BY DEF WasTotal, DateOf
<1>3. n \in 0 .. Len(trips)
  BY <1>1
<1>4. Sum(column, report.username, DateOf(report.interval, day), n)'
        = Sum(column, report.username, DateOf(report.interval, day), n)
  <2>1. CASE trips' = trips
    BY <2>1 DEF Sum, DateOf
  <2>2. CASE \E trip : trips' = Append(trips, trip)
    <3>1. PICK trip : trips' = Append(trips, trip)
      BY <2>2
    <3>2. \A username, since : Sum(column, username, since, n)' = Sum(column, username, since, n)
      BY <1>1, <1>3, <3>1, SumKept
    <3>3. QED BY <3>2 DEF DateOf
  <2>3. QED BY <2>1, <2>2
<1>5. n \in began.rows .. Len(trips') /\ day \in began.day .. today'
  BY <1>1
<1>6. QED BY <1>2, <1>4, <1>5

(* The totals there have been since the command, for every column.           *)
Moments(column) ==
    {Sum(column, report.username, DateOf(report.interval, day), n) :
        n \in began.rows .. Len(trips), day \in began.day .. today}

LEMMA MomentsAre ==
    ASSUME NEW value, NEW column
    PROVE  WasTotal(value, column) <=> value \in Moments(column)
<1> DEFINE F(n, day) == Sum(column, report.username, DateOf(report.interval, day), n)
<1>1. WasTotal(value, column) <=>
        \E n \in began.rows .. Len(trips), day \in began.day .. today : value = F(n, day)
  BY DEF WasTotal, DateOf
<1>2. Moments(column) = {F(n, day) : n \in began.rows .. Len(trips), day \in began.day .. today}
  BY DEF Moments
<1> HIDE DEF F
<1>3. QED BY <1>1, <1>2

(* What a query returns is true when it returns it.                          *)
LEMMA NowTrue ==
    ASSUME TypeOK, Asked, report.username # NoName, NEW column
    PROVE  /\ Total(column, report.since) \in Moments(column)
           /\ Total(column, StartDate(report.interval)) \in Moments(column)
<1>1. TablesType
  BY TypeParts
<1>2. Len(trips) \in Nat /\ today \in Nat
  BY <1>1, LenProperties, ConsoleAssumption DEF TablesType
<1>3. /\ Len(trips) \in began.rows .. Len(trips)
      /\ began.day \in began.day .. today /\ today \in began.day .. today
  BY <1>2 DEF Asked
<1>4. /\ report.since = DateOf(report.interval, began.day)
      /\ StartDate(report.interval) = DateOf(report.interval, today)
  BY DEF Asked, StartDate, DateOf
<1>5. ASSUME NEW day \in began.day .. today
      PROVE  Total(column, DateOf(report.interval, day)) \in Moments(column)
  BY <1>3 DEF Moments, Total
<1>6. QED BY <1>3, <1>4, <1>5

\* While no table and no date changes, they stay; commits and days add some.
LEMMA MomentsStay ==
    ASSUME UNCHANGED << trips, today, began >>, report'.username = report.username,
           report'.interval = report.interval, NEW column
    PROVE  Moments(column) \subseteq Moments(column)'
<1> DEFINE F(n, day) == Sum(column, report.username, DateOf(report.interval, day), n)
<1>1. \A n, day : F(n, day)' = F(n, day)
  <2>1. \A username, since, n : Sum(column, username, since, n)' = Sum(column, username, since, n)
    BY DEF Sum
  <2>2. QED BY <2>1 DEF DateOf
<1>2. Moments(column) = {F(n, day) : n \in began.rows .. Len(trips), day \in began.day .. today}
  BY DEF Moments
<1>3. Moments(column)' = {F(n, day)' : n \in began.rows .. Len(trips), day \in began.day .. today}
  BY DEF Moments
<1> HIDE DEF F
<1>4. QED BY <1>1, <1>2, <1>3

LEMMA MomentsGrow ==
    ASSUME TypeOK, Asked, report' = report, began' = began,
           trips' = trips \/ \E trip : trips' = Append(trips, trip),
           today' = today \/ today' = today + 1, NEW column
    PROVE  Moments(column) \subseteq Moments(column)'
<1>1. ASSUME NEW value, value \in Moments(column) PROVE value \in Moments(column)'
  <2>1. WasTotal(value, column)
    BY <1>1, MomentsAre
  <2>2. \E n \in began.rows .. Len(trips'), day \in began.day .. today' :
           value = Sum(column, report.username, DateOf(report.interval, day), n)'
    BY <2>1, StaysTrue
  <2>3. QED BY <2>2 DEF Moments
<1>2. QED BY <1>1

(* A query that is done has its figure; the others have theirs as before.    *)
Figure(query) ==
    CASE query = "distance" -> report.distance \in Moments("distance_km")
      [] query = "durations" -> /\ report.moving \in Moments("moving_seconds")
                                /\ report.stopped \in Moments("stopped_seconds")
      [] query = "velocity_distance" -> report.velocity_distance \in Moments("distance_km")
      [] query = "velocity_durations" -> report.velocity_moving \in Moments("moving_seconds")

Read(query) == query \in QueriesOf(report.stat_type) \ report.todo

Figures == report.username # NoName => \A query \in Query : Read(query) => Figure(query)

LEMMA FiguresAre == FiguresWereTrue <=> Figures
<1>1. /\ WasTotal(report.distance, "distance_km") <=> report.distance \in Moments("distance_km")
      /\ WasTotal(report.moving, "moving_seconds") <=> report.moving \in Moments("moving_seconds")
      /\ WasTotal(report.stopped, "stopped_seconds")
           <=> report.stopped \in Moments("stopped_seconds")
      /\ WasTotal(report.velocity_distance, "distance_km")
           <=> report.velocity_distance \in Moments("distance_km")
      /\ WasTotal(report.velocity_moving, "moving_seconds")
           <=> report.velocity_moving \in Moments("moving_seconds")
  BY MomentsAre
<1>2. QED BY <1>1 DEF FiguresWereTrue, Figures, Read, Figure, Query

LEMMA QueryKeepsFigures ==
    ASSUME TypeOK, Dialogue, ReportOK, Asked, Figures, QueryStep
    PROVE  Figures'
<1>1. SUFFICES ASSUME report'.username # NoName
               PROVE  \A query \in Query : (Read(query) => Figure(query))'
  BY DEF Figures
<1>2. /\ UNCHANGED << trips, today, began >>
      /\ report'.username = report.username /\ report'.stat_type = report.stat_type
      /\ report'.interval = report.interval
  BY QueryFrame DEF tables
<1>3. /\ \A column : Total(column, report.since) \in Moments(column)
      /\ \A column : Total(column, StartDate(report.interval)) \in Moments(column)
  BY <1>1, <1>2, NowTrue
<1>4. \A column : Moments(column) \subseteq Moments(column)'
  BY <1>2, MomentsStay
<1>5. \A query \in Query : Read(query) => Figure(query)
  BY <1>1, <1>2 DEF Figures
<1>6. ASSUME ReadDistance PROVE \A query \in Query : (Read(query) => Figure(query))'
  <2> DEFINE total == Total("distance_km", report.since)
  <2>1. report' = [report EXCEPT !.distance = total, !.todo = @ \ {"distance"}]
    BY <1>6 DEF ReadDistance, Answered, ReportOK
  <2> HIDE DEF total
  <2>2. /\ report'.distance = total
        /\ report'.moving = report.moving /\ report'.stopped = report.stopped
        /\ report'.velocity_distance = report.velocity_distance
        /\ report'.velocity_moving = report.velocity_moving
        /\ report'.todo = report.todo \ {"distance"}
    BY <2>1 DEF ReportOK
  <2>3. report'.distance \in Moments("distance_km")'
    BY <1>3, <1>4, <2>2 DEF total
  <2>4. QED BY <1>2, <1>4, <1>5, <2>2, <2>3 DEF Read, Figure, Query
<1>7. ASSUME ReadDurations PROVE \A query \in Query : (Read(query) => Figure(query))'
  <2> DEFINE moving == Total("moving_seconds", report.since)
             stopped == Total("stopped_seconds", report.since)
  <2>1. report' = [report EXCEPT !.moving = moving, !.stopped = stopped,
                                 !.todo = @ \ {"durations"}]
    BY <1>7 DEF ReadDurations, Answered, ReportOK
  <2> HIDE DEF moving, stopped
  <2>2. /\ report'.distance = report.distance
        /\ report'.moving = moving /\ report'.stopped = stopped
        /\ report'.velocity_distance = report.velocity_distance
        /\ report'.velocity_moving = report.velocity_moving
        /\ report'.todo = report.todo \ {"durations"}
    BY <2>1 DEF ReportOK
  <2>3. /\ report'.moving \in Moments("moving_seconds")'
        /\ report'.stopped \in Moments("stopped_seconds")'
    BY <1>3, <1>4, <2>2 DEF moving, stopped
  <2>4. QED BY <1>2, <1>4, <1>5, <2>2, <2>3 DEF Read, Figure, Query
<1>8. ASSUME ReadVelocityDistance PROVE \A query \in Query : (Read(query) => Figure(query))'
  <2> DEFINE total == Total("distance_km", report.since)
  <2>1. report' = [report EXCEPT !.velocity_distance = total, !.todo = @ \ {"velocity_distance"}]
    BY <1>8 DEF ReadVelocityDistance, Answered, ReportOK
  <2> HIDE DEF total
  <2>2. /\ report'.distance = report.distance
        /\ report'.moving = report.moving /\ report'.stopped = report.stopped
        /\ report'.velocity_distance = total
        /\ report'.velocity_moving = report.velocity_moving
        /\ report'.todo = report.todo \ {"velocity_distance"}
    BY <2>1 DEF ReportOK
  <2>3. report'.velocity_distance \in Moments("distance_km")'
    BY <1>3, <1>4, <2>2 DEF total
  <2>4. QED BY <1>2, <1>4, <1>5, <2>2, <2>3 DEF Read, Figure, Query
<1>9. ASSUME ReadVelocityDurations PROVE \A query \in Query : (Read(query) => Figure(query))'
  <2> DEFINE total == Total("moving_seconds", StartDate(report.interval))
  <2>1. report' = [report EXCEPT !.velocity_moving = total, !.todo = @ \ {"velocity_durations"}]
    BY <1>9 DEF ReadVelocityDurations, Answered, ReportOK
  <2> HIDE DEF total
  <2>2. /\ report'.distance = report.distance
        /\ report'.moving = report.moving /\ report'.stopped = report.stopped
        /\ report'.velocity_distance = report.velocity_distance
        /\ report'.velocity_moving = total
        /\ report'.todo = report.todo \ {"velocity_durations"}
    BY <2>1 DEF ReportOK
  <2>3. report'.velocity_moving \in Moments("moving_seconds")'
    BY <1>3, <1>4, <2>2 DEF total
  <2>4. QED BY <1>2, <1>4, <1>5, <2>2, <2>3 DEF Read, Figure, Query
<1>10. QED BY <1>1, <1>6, <1>7, <1>8, <1>9 DEF QueryStep

LEMMA FiguresStep ==
    ASSUME TypeOK, Dialogue, ReportOK, Asked, Figures, [Next]_vars
    PROVE  Figures'
<1>1. CASE QueryStep
  BY <1>1, QueryKeepsFigures
<1>2. CASE QueryFails \/ Exit
  BY <1>2, NoReportOK DEF QueryFails, Exit, Figures
<1>3. ASSUME NEW interval \in Interval, SelectInterval(interval) PROVE Figures'
  <2>1. report'.username # NoName => report'.todo = QueriesOf(report'.stat_type)
    BY <1>3, IntervalFrame DEF Dialogue
  <2>2. QED BY <2>1 DEF Figures, Read
<1>4. ASSUME report' = report, \A column : Moments(column) \subseteq Moments(column)'
      PROVE  Figures'
  <2>1. SUFFICES ASSUME report'.username # NoName, NEW query \in Query, Read(query)'
                 PROVE  Figure(query)'
    BY DEF Figures
  <2>2. Figure(query)
    BY <1>4, <2>1 DEF Figures, Read
  <2>3. QED BY <1>4, <2>1, <2>2 DEF Figure, Query
<1>5. CASE Prompt \/ UNCHANGED vars
  <2>1. UNCHANGED << report, trips, today, began >>
    BY <1>5, PromptFrame DEF vars, tables
  <2>2. QED BY <1>4, <2>1, MomentsStay
<1>6. CASE Others
  <2>1. /\ UNCHANGED << report, began >>
        /\ trips' = trips \/ \E trip : trips' = Append(trips, trip)
        /\ today' = today \/ today' = today + 1
    BY <1>6, OthersFrame
  <2>2. \A column : Moments(column) \subseteq Moments(column)'
    BY <2>1, MomentsGrow
  <2>3. QED BY <1>4, <2>1, <2>2
<1>7. QED BY <1>1, <1>2, <1>3, <1>5, <1>6, NextKinds
-----------------------------------------------------------------------------
LEMMA InitIInv == Init => IInv
<1> SUFFICES ASSUME Init PROVE IInv
  OBVIOUS
<1>1. TypeOK
  BY ConsoleAssumption DEF Init, TypeOK, InputMode, NoReport, NoLog
<1>2. Dialogue
  BY ConsoleAssumption DEF Init, Dialogue, DialogueComplete
<1>3. ReportOK /\ report.username = NoName
  BY DEF Init, NoReport, ReportOK, StatType, Interval
<1>4. Asked
  BY <1>3 DEF Init, Asked
<1>5. FiguresWereTrue
  BY <1>3 DEF FiguresWereTrue
<1>6. QED BY <1>1, <1>2, <1>3, <1>4, <1>5 DEF IInv

LEMMA NextIInv == IInv /\ [Next]_vars => IInv'
<1> SUFFICES ASSUME IInv, [Next]_vars PROVE IInv'
  OBVIOUS
<1>1. TypeOK /\ Dialogue /\ ReportOK /\ Asked /\ Figures
  BY FiguresAre DEF IInv
<1>2. TypeOK' /\ Dialogue' /\ ReportOK' /\ Asked' /\ Figures'
  BY <1>1, TypeStep, DialogueStep, ReportStep, AskedStep, FiguresStep DEF Dialogue
<1>3. FiguresWereTrue' <=> Figures'
  BY FiguresAre, PTL
<1>4. QED BY <1>2, <1>3 DEF IInv

LEMMA Invariant == Spec => []IInv
BY InitIInv, NextIInv, PTL DEF Spec
-----------------------------------------------------------------------------
(* Every variable keeps its type; what the console shows are rows there are, *)
(* and no more of them than its queries ask for.                             *)
THEOREM TypeCorrect == Spec => []TypeOK
<1>1. IInv => TypeOK
  BY DEF IInv
<1>2. QED BY <1>1, Invariant, PTL

(* The dialogues, which share pending_username, each find what they need and *)
(* nothing a former one left (console/app.rs:127-240).                       *)
THEOREM DialoguesComplete == Spec => []DialogueComplete
<1>1. IInv => DialogueComplete
  BY DEF IInv, Dialogue
<1>2. QED BY <1>1, Invariant, PTL

(* Each figure of a report was the user's total at some moment since the     *)
(* command, for every calendar, whatever is committed between the queries    *)
(* and whichever days begin (console/stats.rs).                              *)
THEOREM EachFigureWasTrue == Spec => []FiguresWereTrue
<1>1. IInv => FiguresWereTrue
  BY DEF IInv
<1>2. QED BY <1>1, Invariant, PTL
=============================================================================
