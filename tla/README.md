# GeoRust in TLA+

GeoRust is a fleet tracker in Rust. A client program replays a CSV route and
reports a point every 30 seconds of logical time over a WebSocket. The server
keeps each trip in memory, classifies the user as moving or still, saves a
completed trip in SQLite, and lets an administrator exchange messages with the
clients and ask for statistics. This directory holds its specifications: modules
that model its parts, configurations that check them with TLC, and proofs checked
by TLAPS. Source paths below are relative to `src/`.

    cd tla
    tlc -workers 2 -config MCTripMachine.cfg MCTripMachine     # one of the runs
    tlapm TripProofs.tla                                        # one module of proofs

`PROJECT.json` lists the runs, the source lines every definition stands for, the
findings, the hazards and, for each property, a mutant of the model that it catches.

## The system

| component | state | operations | meets the others through |
|---|---|---|---|
| trip state machine, `server/src/trip.rs` | points, `UserState`, moving, stopped and pending time | `record_position`, `disconnect`, getters | called under the lock of `AppState.trips` |
| trip service, `server/src/state.rs`, `main.rs` | `trips` (a map behind an `RwLock`), tables `trips` and `trips_points` | `start_trip`, `record_position`, `finish_trip`, `save_trip`, `discard_trip` | one task per WebSocket session |
| message service, `server/src/messaging.rs`, `main.rs` | `clients` (a map behind an `RwLock`), an mpsc channel per client, one broadcast channel, table `messages` | register and remove a client, send direct and broadcast, save, query unread, mark as read | sessions, the console |
| accounts, `server/src/auth.rs` | table `users`, `tokens` in memory | `register`, `login`; `ws_handler` looks tokens up | HTTP; a token opens a session |
| administrator's console, `server/src/console/`, `stats.rs` | dialogue and pending fields | messages, users, logs, statistics | message service, tables |
| client dashboard, `client/src/console/` | authentication form; connection, trip and input state; active simulator | commands, server messages, route events, reconnection, exit | WebSocket, simulator's channel |
| routes and simulator, `client/src/movement/` | the route still to send | `load_route`, `RouteSimulator::start` | a bounded channel |
| wire messages, coordinates, `common/src/` | none | JSON, range checks | - |
| user interfaces, CPU log | display | drawing, logging | - |

What is hard about it:

* **Interleaving.** Sessions, the console and the HTTP handlers are tasks. Every
  `await` between two pieces of shared state lets others run: three lock
  acquisitions and a transaction while a trip is saved, a lock held over a send,
  three steps between a client's registration and its loop.
* **Ordering.** Backlog against channel for direct messages; registration against
  subscription for broadcasts; discarding a trip against leaving the registry.
* **Failure.** The link breaks at either end first and loses what is in flight;
  statements fail half way through a transaction; the server stops and keeps only
  its tables; HTTP answers are lost and calls repeated.
* **Boundaries.** The three-minute threshold, the end of `u64`, full channels, a
  change of day during a report.

For each component the properties that make it correct are those of the runs below.

## Modules

| module | what it is |
|---|---|
| `Trip` | `trip.rs` as operators on a record: one per branch of `record_position`, then `RecordPosition`, `Disconnect`, `Summary` |
| `TripReference` | moving and stopped time defined over the whole list of points |
| `TripMachine` | one trip under every sequence of calls; histories say which intervals count nowhere |
| `TripLemmas`, `TripProofs` | lemmas about the operators and about `TripReference`; the theorems of `TripMachine` |
| `TripBook` | abstract: a trip is saved in one step with the times its points define, or lost as a whole |
| `TripService` | sessions, `AppState.trips`, `save_trip` statement by statement, restarts; implements `TripBook` |
| `TripServiceProofs` | its invariants, for every number of users, and the refinement of `TripBook` |
| `Mailbox` | abstract: a message is posted, shown to those it is for, confirmed after it was shown |
| `Messaging` | handshake, registry and lock, channels, sockets, acknowledgements, console as a sender; implements `Mailbox` |
| `MessagingProofs` | its invariants, the refinement of `Mailbox`, and the order in which messages are shown |
| `Server` | `Messaging` and `TripService` composed: the sessions that serve both |
| `ServerProofs` | that it implements both, and that registry and trips agree |
| `Route` | `load_route`: which rows of a CSV file are a route, and the points they become |
| `Dashboard` | the client's event loop, simulator and texts, composed with `TripService` over a connection that breaks |
| `LockedDashboard` | `Dashboard` with the lock of the server's registry, and what must come to an end in spite of it |
| `DashboardProofs` | that `Dashboard` implements `TripService`, what client and server keep together, and that the lock only delays them |
| `Accounts` | registration, login, tokens, and the client's form |
| `AccountsProofs` | who owns an account, a token and a session |
| `AdminConsole` | the console's dialogues, log and statistics, over tables that others change |
| `AdminConsoleProofs` | dialogues and figures |
| `MC...` | the instances TLC checks |

### State and actions against the code

**Trip.** `TripType` has the fields of `Trip` but the user id. Durations are whole
seconds: every `Duration` the code builds is a multiple of the interval. `MaxElapsed`
stands for the largest `u64`; the checked addition of `trip.rs:136` is the
`ElapsedTimeOverflow` case of `PositionResult`. Distances are left out.

**TripService.** `pc[u]` is where the session of `u` is: one value for each point at
which the task can be suspended with different state. `FinishTrip` is `finish_trip`
(the trip is closed and stays in the map), `CopyPositions` the read lock and the
length check of `save_trip`, `InsertTrip`, `InsertPoint` and `Commit` its statements.
SQLite has one writer, so `InsertTrip` waits for any other transaction, and `SaveFails`
is any statement that returns an error, the busy timeout included. `DiscardSaved` is
`discard_trip` after a commit; `DiscardTrip` and `RemoveClient` end a session in the
order of `main.rs:342-348`. `Refuse` is the answer to a message that does not parse, or
to a text that is too long or not stored (`Refusal`). `Restart` is the end of the process: the tables remain.
Clients are arbitrary here: any command, any logical time, at any moment.

**Messaging.** A connection is a slot with the user it authenticates as. `AddClient`,
`RemoveClient` and `RemoveFailed` need the write lock and so wait while `guard` says
that the console is inside its read lock (`messaging.rs:161`), from `LookUp` to
`Offer`. `Upgrade` starts the session's task, which subscribes first; `FetchUnread`,
`SendUnread` and `EnterLoop` are `main.rs:164-170`; then `ReceiveAck`, `TakeRequest`,
`TakeDirect` and `TakeBroadcast` are the branches of the `select!`, and `WriteMessage` the
send during which the session does nothing else. Requests (positions, commands, texts)
and their answers share the socket with messages and acknowledgements; here they have no
content (`NoMessage`). A broadcast subscription holds the last `FeedCap`
messages (128 in the code: tokio rounds 100 up). The client shows a message and then
acknowledges it, in one handler; `ClientDrop` is its end or a failure of the network.

**Server.** The two modules above, step by step together: `pc` is where the task of a
connection is, `tripPc` where the handling of a user's command is. `ServeRequest` is a
request of `Messaging` and a `Command` of `TripService` in one step; the session is then
`sending` until `WriteOut` has sent the answer, and meanwhile `SaveTrip` runs the
transaction. `StartLoop`, `EndLoop` and `EndSession` join the two lives of a session. That
a user has one session at a time is the guard of `Connect` in `TripService`; here nothing
but the registry makes it so, and `SessionsAgree` says that it does.

**Route.** A row is a time, as minutes and seconds of at most two digits, and a point;
`Malformed` is a text that is no time and `Nowhere` a pair of numbers that
`Coordinata::new` refuses. `MaxElapsed` stands for the largest `u64` here too.

**Dashboard.** `app` has the fields of `ClientApp` the control depends on. The actions
are the arms of the `select!` of `run_dashboard`, each with the disconnect handling at
the end of the iteration (`Disconnected`); `EmitPoint` is the simulator's task.
`SendText` is the command `msg`: a text is the number it has among those its user sent, and
whether it is too long; `ServeText` stores or refuses it. `requests` and `responses` are the two directions of
the socket: what a client sent may still be served after it is gone, and what the
server sent may be shown after the session ended. The server side is `TripService`,
driven by what is in `requests`. A file that loads has only times a client may send
(`DashboardAssumption`): they are `u64`s as those of any other client. A debug build asks for a speed and a release build
does not; `SelectRoute` allows either. A session enters and leaves the registry without its
lock here: the lock takes steps away and adds none, so what never happens without it does not
happen with it (`LockOnlyDelays`).

**LockedDashboard.** What must happen in the end depends on the lock. `guard` says that the
console is inside the registry's read lock (`HoldRegistry`, `LetGo`: `messaging.rs:161-163`);
`AddClient` (`main.rs:129`) and `LeaveRegistry` (`main.rs:348`) wait for it. Whether there
is room in the channel the console sends to is in `Messaging`; here it lets go whenever it
likes, or never. A session's socket is closed when `remove_client` has returned, so a client
whose session waits for the lock waits too.

**Accounts.** `Register` and `Login` are the two handlers; each is one database
statement and, for `Login`, one insertion in the token map, so each is one action. A
password stands for its hash. The form registers, tolerates a taken name, and logs in. A
registration whose connection broke may have been left behind on the server (`late`), which may
serve it at any later moment, after the client's next request too (`ServeLate`), or never. A
login left behind is left out: the token it ends with goes to nobody.

**AdminConsole.** One action per line that changes the dialogue, and one per query of a
report, since commits and midnight can come in between. Once a report is asked for,
the task reads no further line until it is done (`Reading`). `SeeUsers` is the command
`users`, `Refresh` the panel of messages, which the background tick fills again.

## Runs

All the passing runs search the whole state space of their instance, each in less than
two and a half minutes on two cores.

| run | module, cfg | bounds | states | shows |
|---|---|---|---|---|
| `trip_machine` | `MCTripMachine.cfg` | the real 30 s and 180 s, two places, up to nine points, wrong times around each, closings anywhere | 350 000 | the running totals equal `TripReference`; nothing is lost; errors change nothing |
| `trip_service` | `MCTripService.cfg` | two users, two trips of up to two points in two places, threshold of one interval, one restart, any statement may fail | 1.2 M | only whole trips are saved, once, as accepted and as announced; no trip outlives its session; the service implements `TripBook`; a completion is answered |
| `messaging` | `MCMessaging.cfg` | two connections of one user, all channels of one message, two messages, a failure, a restart | 1.5 M | one session per user in the registry, no direct message missed, order; implements `Mailbox`, so read means shown |
| `server` | `MCServer.cfg` | two connections of one user, one message, one trip without points, a restart, room in the channels | 520 000 | registry and trips agree at every step; a direct message to a user who stays is read, whatever else the client asks for |
| `dashboard` | `MCDashboard.cfg` | one user, two trips, two texts, routes of three and one points and five files that are none, a restart, either build | 2.8 M | only whole routes are saved, the server refuses nothing, texts are stored once and in order or accounted for, the client's state is consistent |
| `dashboard_live` | `MCLockedDashboard.cfg` | one user, two trips, one text, a route of two points and a file that is none, a restart, the registry's lock | 199 000 | as long as the console does not keep the registry for ever, waiting for a summary ends and a lost connection is replaced |
| `accounts` | `MCAccounts.cfg` | two clients, two names, two passwords, two tokens, a registration its client gave up, a restart | 2.7 M | accounts keep their owner, tokens their user, also when a registration is served too late |
| `admin_console` | `MCAdminConsole.cfg` | two names, two trips, a message, two days with one midnight that begins a week and not a month | 1.2 M | dialogues are complete, figures were true |

Why the bounds are enough. A pause is confirmed after six unchanged intervals, so nine
points hold a start, a movement, a confirmed pause, a movement again and the intervals
before and after each; `MaxElapsed` is small so that the overflow is reached. Two users
are enough for the only thing sessions share in `TripService`, the writer; of two trips
either one user drives both, or each waits for the other. In `Messaging` capacities of one make every
channel full, and slots are used again, so that a session of a user follows, and tries to
overlap, an earlier one; `Server` has the same two connections, and no points, since where
a session is does not depend on what its trip holds. One user is enough in `Dashboard`, since clients share nothing.
Two trips make every stale message meet a later trip. In `dashboard_live` one good file is
enough: what is waited for is the end of a trip, a route of two points has one before and
one after its only interval, and the other files are in `dashboard`. All bounds (`MaxTrips`,
`MaxTexts`, `MaxRestarts`, `MaxMessages`, `MaxFailures`, `MaxTokens`, `MaxLate`) are guards of the action they
bound. Deadlock is checked in all the passing runs: there is always a client that may
connect, or a command that may be typed. `messaging_full` alone turns the check off: what
it finds is that the server stops, and with no client left to connect nothing can move.

`SYMMETRY` is used for coordinates, users, clients, names and passwords, which the
definitions treat alike, and in no run with a liveness property.

### Findings

The runs that expect a violation state what a document or comment of the repository says
and find a behaviour of the code in which it is false.

| run | statement | what the code does |
|---|---|---|
| `messaging_full` | a waiting connection does not block the others (`docs/manuale_progettista.md:316`) | the console awaits room in a channel with the registry's read lock held; if that session is leaving, it waits for the write lock and never makes room: the console and all later connections wait for ever. It takes a channel of 100 messages to fill |
| `messaging_broadcast` | broadcasts reach the users connected when they are published (`:245`) | a client registered but not yet subscribed (`main.rs:129`, `159`) gets nothing |
| `dashboard_texts` | a text that was sent can be seen on the server's console (`docs/manuale_utente.md:65`) | a text sent while the client waits for the summary of its trip is shown as sent, and the session ends without reading it (`main.rs:278`): it is neither stored nor refused |
| `admin_console_logs` | the last ten messages (`server/src/console/runtime.rs:139`) | the first ten |

Read while modelling, and stated by no property: a session does not read while it writes
and a client does not read while it acknowledges (`main.rs:307`,
`client/src/console/runtime.rs:455`), so that with both directions of a socket full neither
goes on, for which reason `DirectEventuallyRead` is checked with room in the sockets; errors of the
sends of unread messages are ignored (`main.rs:167`), and the session finds out at its next
read or write; a trip begins as Still, where
`common/src/lib.rs:27` says three minutes without a change (the manual, `:182`, agrees with
the code); the token of a login is saved, two lines below the comment that it is not
(`server/src/auth.rs:95`); the velocity of a report comes from queries of its own
(`stats.rs:72`), which may see other trips, or another day, than the totals beside it:
`FiguresWereTrue` holds of each figure, and of no two together; `annulla` is offered and
refused (`server/src/console/app.rs:176`); the limit of 200 characters counts bytes
(`messaging.rs:111`); direct messages may be shown twice (backlog and channel), as
`Mailbox` allows; unread messages are ordered by the wall clock; tokens are never removed;
after a restart of the server a client's reconnection is refused for ever, because its
token is gone; a client that loses its connection while it awaits the summary says the trip
will not be completed, although the server may have saved it; the client's HTTP calls have
no timeout of their own.

### Fairness

* `TripService`: weak fairness of the steps of a save. A task
  whose lock or statement is ready is polled again by tokio, and a statement that waits
  for SQLite's lock ends at its busy timeout (`SaveFails`), so no save waits for ever
  behind others. Nothing is assumed of clients, of sockets, or of the registry's lock, which
  a session needs when it ends.
* `Messaging`: weak fairness of steps that stay possible until taken (locks, queries,
  sends), strong fairness of the branches of the `select!`, which picks at random among
  those that are ready: a branch that is ready again and again is taken in the end. The
  client of a link that stays up reads and acknowledges. A link that is down is noticed,
  which is an assumption about TCP: the server sends no pings and has no timeout, so only an
  end of stream or an error of the socket tells it.
  Nothing makes a user connect, an administrator write or a trip complete.
* `Server`: weak fairness of the one task of a connection, whichever step it is at; the only
  branch of the `select!` that gets more is the channel of direct messages. A client may
  send requests for ever, so this is where the random choice of `select!` matters.
* `LockedDashboard`: both programs run on, timers fire; weak fairness of each task, and of the
  steps named together no two are possible at once. Strong fairness of the two steps that
  wait for the registry's write lock: tokio serves those who wait for a lock in the order in
  which they came, so whoever waits gets it if it is free again and again. Nothing makes the
  console let go; `CompletionResolved` and `Reconnects` have the premise that it does not keep
  the registry for ever (`RegistryReleased`), and both are false without it: a session that
  waits to leave keeps its socket open and its user registered, so a client in
  `AwaitingCompletion` whose trip was not saved is never told more, and one that reconnects is
  refused, or waits too, since `connect_socket` has no timeout. That each end notices the
  other's end, once it has read what came before, is the same assumption about TCP as
  above. Nothing is assumed of the user's commands.

## Proofs

Eight modules hold the proofs. Every safety property the runs check (invariant, action
property or refinement) is also a theorem, for every set of users, connections,
coordinates, names and files, every capacity and threshold, and every value of the bounds.
What is assumed of the constants are the named assumptions of the modules: a positive
interval and threshold (`TripAssumption`), logical times that are `u64`s
(`ElapsedAssumption`, `ServiceAssumption`), channels with room for something
(`MessagingAssumption`, `DashboardAssumption`), a calendar (`ConsoleAssumption`), markers
that are no user, name, file or place. TLC evaluates each of them on the runs.

| module | theorem | what it states |
|---|---|---|
| `TripProofs` | `TypeCorrect`, `StoredTimesAreRegular`, `PauseConfirmedAtThreshold`, `NoSecondLost`, `PointsOnlyAppended`, `ClosedTripCountsEverything` | `TypeOK`, `LogicalTimes`, `PendingBelowThreshold`, `TimeAccounting`, `RejectedOrAppended` (of every step), `ClosedTripIsComplete` |
| | `TotalsAreThoseDefined` | `TimesMatchReference`: the running totals are those of the definition over all points |
| `TripServiceProofs` | `TypeCorrect`, `TripsEndWithSessions`, `ClosedTripsStayClosed`, `NoTripSavedTwice` | `TypeOK`, `TripEndsWithSession`, `NeverReopened`, `SavedOnce` |
| | `TablesHoldWholeTrips`, `TablesHoldWhatWasAccepted`, `AnnouncementsAreTrue` | `SavedTripsAreWhole`, `SavedAsAccepted`, `AnnouncedAsSaved` |
| | `TripBookImplemented` | the service implements `TripBook` |
| `MessagingProofs` | `TypeCorrect`, `RegistryNamesSessions`, `NoDirectMissed` | `TypeOK`, `RegistryMatchesSessions`, `NoMissedDirect` |
| | `MessagesShownInOrder` | `ShownInOrder` (of every step) |
| | `MailboxImplemented` | the message service implements `Mailbox` |
| `ServerProofs` | `MessagingImplemented`, `TripsImplemented` | the server implements `Messaging` and `TripService`, so that all of the above holds of it |
| | `RegistryAndTripsAgree` | `SessionsAgree` |
| `DashboardProofs` | `TripServiceImplemented` | client and server together implement `TripService` |
| | `LockOnlyDelays` | with the registry's lock they do nothing they could not do without (`LockedSpec => DashboardSpec`), so what follows holds of both |
| | `TypeOfClientCorrect`, `ClientStaysConsistent` | `DashboardTypeOK`, `ClientConsistent` |
| | `OnlyRoutesAreSaved`, `NothingIsRefused`, `CompletedIsInTable`, `SavesFollowRoutes` | `SavedTripsAreRoutes`, `NeverRefused`, `ShownCompletedIsSaved`, `SavedAfterRoute` (of every step) |
| | `NoTextUnaccounted` | `TextsAccounted` |
| `AccountsProofs` | `TypeCorrect`, `AuthenticatedOwnsTheAccount`, `SessionsBelongToOwners`, `OnlyTakenNamesRefused` | `TypeOK`, `AuthenticatedOwnsAccount`, `SessionOfOwner`, `RefusedIsTaken` |
| `AdminConsoleProofs` | `TypeCorrect`, `DialoguesComplete`, `EachFigureWasTrue` | `TypeOK`, `DialogueComplete`, `FiguresWereTrue` |

Each module defines its inductive invariant at the top, shows that the initial states
satisfy it and that each action keeps it, one lemma per action or kind of action, and
derives the theorems. TLC found each invariant true on a run before it was proved. Why the
invariants are what they are:

**The trip.** `IInv` is the conjunction of the properties with two facts that hold only by
induction. `Untouched` says that a trip without points has counted nothing and is
Disconnected, so that the first point neither loses nor counts an interval; the other is
`reopened \subseteq Intervals`, so that a new interval is not already in the history and
its size grows by exactly one. `TimeAccounting` alone is not inductive: it needs both. `Totals` relates the
state to the list of points: moving and stopped seconds are those of the reference for the
intervals before the pause under way, and `pending` is the length of the quiet intervals at
the end of the list. It holds step by step because an interval appended to a list changes what
the reference says of older intervals only when it confirms the pause they end with;
`TripLemmas` says so (`PauseGoesOn`, `PauseConfirmed`, `MovedTallies`, `StayTallies`).
No induction over the list is needed: the reference is a set of intervals, and the state
remembers where it was.

**The trip service.** For each user (`UserOK`): what the session may be doing for the trip it
has (`SessionOK`), that the trip in memory holds exactly the accepted points (`TripOK`), that
what is being saved is that trip, closed (`SavingOK`), and that the open transaction holds
its row and a first part of its points (`WriteOK`). For all of them: one writer, and no
two users with the same upload (`Apart`); the tables hold the accepted points of the saved
trips and nothing else (`TablesOK`). `SavedOnce` needs `TripOK`: a trip that is in the
tables and still in memory is one whose session is at `committed`, and from there it is
discarded. For `TripBook`, `Tallies` adds that the trip's seconds are those its points define;
`Commit` is the only step that enters a trip, and a step that removes one from
memory is the loss of it.

**The message service.** `RegistryMatchesSessions` is inductive with the types. `NoMissedDirect`
needs that the console holds the registry's lock from the moment it found the recipient
until the message is in the channel (`Offering`: `remove_client` waits for it), what kind of row it
is working on (`RowsOK`), and that what is on its way to a client is for it or for all, and
what it acknowledges was shown (`DeliveryOK`), which is also what the steps of `Mailbox`
need. `ShownInOrder` has an invariant of its own, `Ordered`: each place a direct message can be
(socket, the session's hands, backlog, channel) follows those nearer to the client, where a
list follows a set when every older message of the user is in the set or earlier in the
list. What the console adds to the channel follows all there is because the session was handed
every older message (`NoMissedDirect`) and what it was handed is still on the way
(`HandedOnTheWay`), as long as the link is up. Broadcasts ascend from what was shown, through
the socket and the subscription, to the one the console is publishing (`BroadcastOrder`).

**The server.** Each step of `Server` is a step of `Messaging` and a step of `TripService`, or
leaves one of them alone: that is the refinement, without invariant. `SessionsAgree` is
`Messaging`'s invariant with `Matches` (where the task of a connection is, as its registry and
its trips see it), `TripsOf` (trips and transactions belong to sessions) and `Unattended` (who is
not registered has no session).

**Client and server.** The server's side is `TripService`, so its invariant comes for
nothing. `Conversation` is the heart of the rest: there is one file that loads such that
the messages in transit are the next lines of its script (start, one update per point,
completion), with texts among them; the server has served the lines before, the simulator
and its channel hold the points after them. It survives a broken connection because a client
that reconnects has no trip and a session that lost its client meets the end of what was
sent. `Heard` says that no refusal is on the way, `Ending` that a client is told of a completion
only once its trip is in the table, `RowsWhole` and `RowsOwned` keep what `Conversation`
said when the trip is over. For texts: those that are stored, lost or in transit are all that
were sent, and the ones in transit come last, in order (`TextsOK`).

**Accounts.** Names are unique, and a login answer that is on its way, or that the form
accepted, names the account of the form and a token that stands for it or is gone
(`GivenFor`); ids and tokens are never reused, which is why a late answer does no harm. A
registration that is served late changes the table as one that is answered does (`Inserted`),
and no client.

**The console.** `DialogueComplete` needs to know what each step of a dialogue will ask
next. For `FiguresWereTrue` a figure is kept as one of the user's totals since the command
(`Moments`): a commit changes no sum over the rows before it, and a new day only adds
moments.

What the proofs changed in the model: none of the code's behaviour, but `InTransit` is now a
set and not a filtered list, an assumption says that the times of a file that loads are times
a client may send, and `TripService` answers with each kind of refusal, as `Dashboard`
needs of it; without that the composition did not implement it.

Only model-checked: liveness (`CompletionAnswered`, `DirectEventuallyRead`,
`CompletionResolved`, `Reconnects`), since the proof system has neither fairness nor
`ENABLED`, and the four statements the code does not satisfy, which TLC refutes.

## Not modelled

Floating point distances and the ranges of coordinates, but for points that are refused;
JSON; the panel of connected users and the console's `help`; rendering, logging, the CPU
log; the database schema, but for the uniqueness of names and the order of row ids; the
build pipeline and the data files. The client's received messages are in `Messaging` and
its commands in `Dashboard`: the two are not composed, since a client handles one at a time
and they share nothing but the socket, whose traffic `Messaging` has in both kinds.

## Plan

Done: the models of the three parts of the server, of the server as a whole, of the client and
its routes, of accounts and of the console; their runs; the proofs of every safety property
and refinement the runs check.

Left, in this order:

1. Corollaries across the compositions: the properties `Server` and `Dashboard` inherit from the
   parts they implement, stated as theorems of their own specifications.
2. That `Dashboard` implements `TripBook`, which follows from the two refinements it is made of.
3. Shorter proofs: the lemmas of `MessagingProofs` that say of each place a message can be
   that an action leaves it alone share one argument and can share one lemma.
4. Models of what is under "Not modelled", where a property would be worth it.
