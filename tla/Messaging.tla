----------------------------- MODULE Messaging -----------------------------
(***************************************************************************)
(* The message service: the registry of connected clients behind its lock, *)
(* one WebSocket session per connection, the admin console that sends      *)
(* direct and broadcast messages, the messages table, and a client that    *)
(* shows what it receives and acknowledges direct messages.                *)
(*                                                                         *)
(* Connections are slots: a slot is used again after the session that held *)
(* is over.  A message is known by its row id; its text is left out.  The  *)
(* trips and the texts of clients are left out but for what they do to the *)
(* session: they keep it busy with an answer, or end it.  Module Server    *)
(* has the trips in their place.                                           *)
(***************************************************************************)
EXTENDS Integers, Sequences, FiniteSets

CONSTANTS
    Users, NoUser,
    Connections,
    UserOf,         \* the user each connection authenticates as
    QueueCap,       \* capacity of the mpsc channel of a client (100)
    FeedCap,        \* capacity of the broadcast channel (128)
    SocketCap,      \* messages in flight towards a client
    IncomingCap,    \* messages in flight towards the server
    MaxMessages,    \* bound: rows the console writes
    MaxFailures,    \* bound: database statements that fail
    MaxRestarts     \* bound: times the server stops or crashes

ASSUME MessagingAssumption ==
    /\ NoUser \notin Users
    /\ UserOf \in [Connections -> Users]
    /\ QueueCap \in Nat \ {0} /\ FeedCap \in Nat \ {0}
    /\ SocketCap \in Nat \ {0} /\ IncomingCap \in Nat \ {0}
    /\ MaxMessages \in Nat /\ MaxFailures \in Nat /\ MaxRestarts \in Nat

VARIABLES
    clients,    \* MessageService.clients: a map from users to connections
    guard,      \* the console holds the registry's read lock
    console,    \* where the console task is, and the row it is sending
    messages,   \* table messages: AUTOINCREMENT ids are positions in this list
    pc,         \* where the server task of each connection is
    backlog,    \* unread_msgs still to send
    queue,      \* the mpsc channel of each connection
    feed,       \* what its broadcast subscription still holds
    sending,    \* the message a session is writing to its socket
    outgoing,   \* in flight to the client
    incoming,   \* in flight to the server: acknowledgements and requests
    link,       \* the client's end of the connection
    acking,     \* the message the client is acknowledging, 0 for none
    failures, restarts,
    fetched,    \* history: the session's query for unread messages succeeded
    handed,     \* history: direct messages put in the session's way
    heard,      \* history: the last broadcast the client displayed
    seen        \* history: what each user was shown, over all connections

registry == << clients, guard >>
session == << pc, backlog, queue, feed, sending >>
socket == << outgoing, incoming, link, acking >>
history == << fetched, handed, heard, seen >>
vars == << registry, console, messages, session, socket, failures, restarts, history >>

PC == {"none", "adding", "upgrading", "failed", "fetching", "pending",
       "looping", "sending", "leaving"}

Registered == PC \ {"none", "adding"}

Subscribed == {"fetching", "pending", "looping", "sending", "leaving"}

\* In the place of an id: a request that is no acknowledgement, or its answer.
NoMessage == 0

Idle == [at |-> "idle", id |-> 0]

Put(map, u, value) ==
    [v \in DOMAIN map \cup {u} |-> IF v = u THEN value ELSE map[v]]

Drop(map, u) == [v \in DOMAIN map \ {u} |-> map[v]]

Init ==
    /\ clients = << >>
    /\ guard = FALSE
    /\ console = Idle
    /\ messages = << >>
    /\ pc = [c \in Connections |-> "none"]
    /\ backlog = [c \in Connections |-> << >>]
    /\ queue = [c \in Connections |-> << >>]
    /\ feed = [c \in Connections |-> << >>]
    /\ sending = [c \in Connections |-> NoMessage]
    /\ outgoing = [c \in Connections |-> << >>]
    /\ incoming = [c \in Connections |-> << >>]
    /\ link = [c \in Connections |-> "down"]
    /\ acking = [c \in Connections |-> 0]
    /\ failures = 0
    /\ restarts = 0
    /\ fetched = [c \in Connections |-> FALSE]
    /\ handed = [c \in Connections |-> {}]
    /\ heard = [c \in Connections |-> 0]
    /\ seen = {}

Goto(c, label) == pc' = [pc EXCEPT ![c] = label]

IsDirect(id) == id # NoMessage /\ messages[id].kind = "direct"
-----------------------------------------------------------------------------
(* ws_handler: register the user, then upgrade the connection.             *)

Connect(c) ==
    /\ pc[c] = "none" /\ link[c] = "down"
    /\ Goto(c, "adding")
    /\ UNCHANGED << registry, console, messages, backlog, queue, feed, sending,
                    socket, failures, restarts, history >>

\* Mutant: a second session of a user replaces the first in the registry.
AddClientReplaces(c) ==
    /\ pc[c] = "adding"
    /\ ~guard
    /\ clients' = Put(clients, UserOf[c], c)
    /\ queue' = [queue EXCEPT ![c] = << >>]
    /\ fetched' = [fetched EXCEPT ![c] = FALSE]
    /\ handed' = [handed EXCEPT ![c] = {}]
    /\ heard' = [heard EXCEPT ![c] = 0]
    /\ Goto(c, "upgrading")
    /\ UNCHANGED << guard, console, messages, backlog, feed, sending, socket,
                    failures, restarts, seen >>

\* add_client takes the write lock: never while the console holds a read lock.
AddClient(c) ==
    /\ pc[c] = "adding"
    /\ ~guard
    /\ \/ /\ UserOf[c] \in DOMAIN clients
          /\ Goto(c, "none")
          /\ UNCHANGED << clients, queue, fetched, handed, heard >>
       \/ /\ UserOf[c] \notin DOMAIN clients
          /\ clients' = Put(clients, UserOf[c], c)
          /\ queue' = [queue EXCEPT ![c] = << >>]
          /\ fetched' = [fetched EXCEPT ![c] = FALSE]
          /\ handed' = [handed EXCEPT ![c] = {}]
          /\ heard' = [heard EXCEPT ![c] = 0]
          /\ Goto(c, "upgrading")
    /\ UNCHANGED << guard, console, messages, backlog, feed, sending, socket,
                    failures, restarts, seen >>

\* The client goes away while its request waits for the lock.
Abandon(c) ==
    /\ pc[c] = "adding"
    /\ Goto(c, "none")
    /\ UNCHANGED << registry, console, messages, backlog, queue, feed, sending,
                    socket, failures, restarts, history >>

\* The task of the session starts: it subscribes to the broadcasts first.
Upgrade(c) ==
    /\ pc[c] = "upgrading"
    /\ feed' = [feed EXCEPT ![c] = << >>]
    /\ link' = [link EXCEPT ![c] = "up"]
    /\ Goto(c, "fetching")
    /\ UNCHANGED << registry, console, messages, backlog, queue, sending, outgoing,
                    incoming, acking, failures, restarts, history >>

UpgradeFails(c) ==
    /\ pc[c] = "upgrading"
    /\ Goto(c, "failed")
    /\ UNCHANGED << registry, console, messages, backlog, queue, feed, sending,
                    socket, failures, restarts, history >>

\* remove_client, called by the task of a failed upgrade.
RemoveFailed(c) ==
    /\ pc[c] = "failed"
    /\ ~guard
    /\ clients' = Drop(clients, UserOf[c])
    /\ queue' = [queue EXCEPT ![c] = << >>]
    /\ Goto(c, "none")
    /\ UNCHANGED << guard, console, messages, backlog, feed, sending, socket,
                    failures, restarts, history >>
-----------------------------------------------------------------------------
(* do_server_side_socket_operations: unread messages, then the loop.       *)

Unread(u) ==
    {id \in 1 .. Len(messages) : /\ messages[id].recipient = u
                                /\ IsDirect(id)
                                /\ ~messages[id].is_read}

\* Mutant: the newest message first.
NewestFirst(ids) ==
    {list \in [1 .. Cardinality(ids) -> ids] : \A i, j \in DOMAIN list :
        i < j => list[i] > list[j]}

\* ORDER BY created_at_ms, for a clock that does not step back: the ids in their
\* order, which is one list.
InOrder(ids) ==
    {list \in [1 .. Cardinality(ids) -> ids] : \A i, j \in DOMAIN list :
        i < j => list[i] < list[j]}

FetchUnread(c) ==
    /\ pc[c] = "fetching"
    /\ \E unread \in InOrder(Unread(UserOf[c])) : backlog' = [backlog EXCEPT ![c] = unread]
    /\ fetched' = [fetched EXCEPT ![c] = TRUE]
    /\ handed' = [handed EXCEPT ![c] = @ \cup Unread(UserOf[c])]
    /\ Goto(c, "pending")
    /\ UNCHANGED << registry, console, messages, queue, feed, sending, socket,
                    failures, restarts, heard, seen >>

\* A database error is ignored: the session goes on without its backlog.
FetchFails(c) ==
    /\ pc[c] = "fetching"
    /\ failures < MaxFailures
    /\ failures' = failures + 1
    /\ Goto(c, "looping")
    /\ UNCHANGED << registry, console, messages, backlog, queue, feed, sending,
                    socket, restarts, history >>

\* What the write of a message to the socket of c does to what is in flight: it
\* waits for room while the client is there and goes nowhere once it is not.
WriteTo(c, id) ==
    \/ /\ link[c] = "up"
       /\ Len(outgoing[c]) < SocketCap
       /\ outgoing' = [outgoing EXCEPT ![c] = Append(@, id)]
    \/ /\ link[c] = "down"
       /\ UNCHANGED outgoing

\* Mutant: what was written to the socket counts as read.
SendUnreadMarks(c) ==
    /\ pc[c] = "pending"
    /\ backlog[c] # << >>
    /\ WriteTo(c, Head(backlog[c]))
    /\ backlog' = [backlog EXCEPT ![c] = Tail(@)]
    /\ messages' = [messages EXCEPT ![Head(backlog[c])].is_read = TRUE]
    /\ UNCHANGED << registry, console, pc, queue, feed, sending,
                    incoming, link, acking, failures, restarts, history >>

\* Errors of these sends are ignored.
SendUnread(c) ==
    /\ pc[c] = "pending"
    /\ backlog[c] # << >>
    /\ WriteTo(c, Head(backlog[c]))
    /\ backlog' = [backlog EXCEPT ![c] = Tail(@)]
    /\ UNCHANGED << registry, console, messages, pc, queue, feed, sending,
                    incoming, link, acking, failures, restarts, history >>

EnterLoop(c) ==
    /\ pc[c] = "pending"
    /\ backlog[c] = << >>
    /\ Goto(c, "looping")
    /\ UNCHANGED << registry, console, messages, backlog, queue, feed, sending,
                    socket, failures, restarts, history >>

MarkAsRead(id, u) ==
    messages' = IF id \in 1 .. Len(messages) /\ messages[id].recipient = u
                  THEN [messages EXCEPT ![id].is_read = TRUE]
                  ELSE messages

ReceiveAck(c) ==
    /\ pc[c] = "looping"
    /\ incoming[c] # << >> /\ Head(incoming[c]) # NoMessage
    /\ incoming' = [incoming EXCEPT ![c] = Tail(@)]
    /\ \/ /\ MarkAsRead(Head(incoming[c]), UserOf[c])
          /\ UNCHANGED failures
       \/ /\ failures < MaxFailures
          /\ failures' = failures + 1
          /\ UNCHANGED messages
    /\ UNCHANGED << registry, console, session, outgoing, link, acking, restarts, history >>

\* A trip command, a text, a message that does not parse.  The session is busy
\* until it has answered; a text that is stored is not answered.
TakeRequest(c) ==
    /\ pc[c] = "looping"
    /\ incoming[c] # << >> /\ Head(incoming[c]) = NoMessage
    /\ incoming' = [incoming EXCEPT ![c] = Tail(@)]
    /\ Goto(c, "sending") \/ UNCHANGED pc
    /\ UNCHANGED << registry, console, messages, backlog, queue, feed, sending,
                    outgoing, link, acking, failures, restarts, history >>

TakeDirect(c) ==
    /\ pc[c] = "looping"
    /\ queue[c] # << >>
    /\ sending' = [sending EXCEPT ![c] = Head(queue[c])]
    /\ queue' = [queue EXCEPT ![c] = Tail(@)]
    /\ Goto(c, "sending")
    /\ UNCHANGED << registry, console, messages, backlog, feed, socket,
                    failures, restarts, history >>

TakeBroadcast(c) ==
    /\ pc[c] = "looping"
    /\ feed[c] # << >>
    /\ sending' = [sending EXCEPT ![c] = Head(feed[c])]
    /\ feed' = [feed EXCEPT ![c] = Tail(@)]
    /\ Goto(c, "sending")
    /\ UNCHANGED << registry, console, messages, backlog, queue, socket,
                    failures, restarts, history >>

WriteMessage(c) ==
    /\ pc[c] = "sending"
    /\ WriteTo(c, sending[c])
    /\ sending' = [sending EXCEPT ![c] = NoMessage]
    /\ Goto(c, "looping")
    /\ UNCHANGED << registry, console, messages, backlog, queue, feed, incoming, link,
                    acking, failures, restarts, history >>

\* A send that reports an error ends the loop.
WriteFails(c) ==
    /\ pc[c] = "sending"
    /\ link[c] = "down"
    /\ sending' = [sending EXCEPT ![c] = NoMessage]
    /\ Goto(c, "leaving")
    /\ UNCHANGED << registry, console, messages, backlog, queue, feed, socket,
                    failures, restarts, history >>

\* The loop ends: the client is gone, or its trip was completed.
LeaveLoop(c) ==
    /\ pc[c] = "looping"
    /\ Goto(c, "leaving")
    /\ UNCHANGED << registry, console, messages, backlog, queue, feed, sending,
                    socket, failures, restarts, history >>

\* remove_client, then the receivers and the socket are dropped.  What is in
\* flight to a client that is still there can still reach it.
RemoveClient(c) ==
    /\ pc[c] = "leaving"
    /\ ~guard
    /\ clients' = Drop(clients, UserOf[c])
    /\ queue' = [queue EXCEPT ![c] = << >>]
    /\ feed' = [feed EXCEPT ![c] = << >>]
    /\ incoming' = [incoming EXCEPT ![c] = << >>]
    /\ link' = [link EXCEPT ![c] = IF @ = "up" THEN "closing" ELSE @]
    /\ Goto(c, "none")
    /\ UNCHANGED << guard, console, messages, backlog, sending, outgoing, acking,
                    failures, restarts, history >>
-----------------------------------------------------------------------------
(* The client program at the other end.                                    *)

\* Mutant: the client shows direct messages and acknowledges none.
ClientReceiveSilent(c) ==
    LET id == Head(outgoing[c]) IN
    /\ link[c] # "down"
    /\ acking[c] = 0
    /\ outgoing[c] # << >>
    /\ outgoing' = [outgoing EXCEPT ![c] = Tail(@)]
    /\ seen' = IF id = NoMessage THEN seen ELSE seen \cup {<< UserOf[c], id >>}
    /\ heard' = [heard EXCEPT ![c] = IF id = NoMessage \/ IsDirect(id) THEN @ ELSE id]
    /\ UNCHANGED << registry, console, messages, session, incoming, link, acking,
                    failures, restarts, fetched, handed >>

\* A direct message is displayed first and acknowledged next.
ClientReceive(c) ==
    LET id == Head(outgoing[c]) IN
    /\ link[c] # "down"
    /\ acking[c] = 0
    /\ outgoing[c] # << >>
    /\ outgoing' = [outgoing EXCEPT ![c] = Tail(@)]
    /\ seen' = IF id = NoMessage THEN seen ELSE seen \cup {<< UserOf[c], id >>}
    /\ \/ /\ id = NoMessage
          /\ UNCHANGED << acking, heard >>
       \/ /\ IsDirect(id)
          /\ acking' = [acking EXCEPT ![c] = id]
          /\ UNCHANGED heard
       \/ /\ id # NoMessage /\ ~IsDirect(id)
          /\ heard' = [heard EXCEPT ![c] = id]
          /\ UNCHANGED acking
    /\ UNCHANGED << registry, console, messages, session, incoming, link,
                    failures, restarts, fetched, handed >>

ClientAck(c) ==
    /\ acking[c] # 0
    /\ \/ /\ link[c] = "up"
          /\ Len(incoming[c]) < IncomingCap
          /\ incoming' = [incoming EXCEPT ![c] = Append(@, acking[c])]
       \/ /\ link[c] = "closing"
          /\ UNCHANGED incoming
    /\ acking' = [acking EXCEPT ![c] = 0]
    /\ UNCHANGED << registry, console, messages, session, outgoing, link,
                    failures, restarts, history >>

\* The client sends a position, a command or a text.  The model lets it have one
\* on the way that the session has not read.
ClientRequest(c) ==
    /\ link[c] = "up"
    /\ acking[c] = 0
    /\ Len(incoming[c]) < IncomingCap
    /\ \A i \in 1 .. Len(incoming[c]) : incoming[c][i] # NoMessage
    /\ incoming' = [incoming EXCEPT ![c] = Append(@, NoMessage)]
    /\ UNCHANGED << registry, console, messages, session, outgoing, link, acking,
                    failures, restarts, history >>

\* The client exits or crashes, the network fails, or the client has read the
\* end of the stream: what was in flight to it is lost.
ClientDrop(c) ==
    /\ link[c] # "down"
    /\ link' = [link EXCEPT ![c] = "down"]
    /\ outgoing' = [outgoing EXCEPT ![c] = << >>]
    /\ acking' = [acking EXCEPT ![c] = 0]
    /\ UNCHANGED << registry, console, messages, session, incoming, failures, restarts, history >>
-----------------------------------------------------------------------------
(* The console: one task, one message at a time.                           *)

Save(kind, recipient) ==
    messages' = Append(messages, [kind |-> kind, recipient |-> recipient, is_read |-> FALSE])

\* send_admin_direct_message saves the message before it looks for the client.
SaveDirect(u) ==
    /\ console.at = "idle"
    /\ Len(messages) < MaxMessages
    /\ Save("direct", u)
    /\ console' = [at |-> "saved", id |-> Len(messages) + 1]
    /\ UNCHANGED << registry, session, socket, failures, restarts, history >>

LookUp ==
    /\ console.at = "saved"
    /\ \/ /\ messages[console.id].recipient \notin DOMAIN clients
          /\ console' = Idle
          /\ UNCHANGED guard
       \/ /\ messages[console.id].recipient \in DOMAIN clients
          /\ console' = [console EXCEPT !.at = "offering"]
          /\ guard' = TRUE
    /\ UNCHANGED << clients, messages, session, socket, failures, restarts, history >>

\* Mutants: the channel has no bound; a message for a full channel is dropped;
\* the channel counts as full one message early.
OfferUnbounded ==
    LET c == clients[messages[console.id].recipient] IN
    /\ console.at = "offering"
    /\ queue' = [queue EXCEPT ![c] = Append(@, console.id)]
    /\ handed' = [handed EXCEPT ![c] = @ \cup {console.id}]
    /\ console' = Idle
    /\ guard' = FALSE
    /\ UNCHANGED << clients, messages, pc, backlog, feed, sending, socket,
                    failures, restarts, fetched, heard, seen >>

OfferOrDrop ==
    LET c == clients[messages[console.id].recipient] IN
    /\ console.at = "offering"
    /\ IF pc[c] = "failed" \/ Len(queue[c]) = QueueCap
         THEN UNCHANGED << queue, handed >>
         ELSE /\ queue' = [queue EXCEPT ![c] = Append(@, console.id)]
              /\ handed' = [handed EXCEPT ![c] = @ \cup {console.id}]
    /\ console' = Idle
    /\ guard' = FALSE
    /\ UNCHANGED << clients, messages, pc, backlog, feed, sending, socket,
                    failures, restarts, fetched, heard, seen >>

\* tx.send waits for room with the registry's read lock held.  It fails at once
\* when the receiver was dropped with a failed upgrade.
Offer ==
    LET c == clients[messages[console.id].recipient] IN
    /\ console.at = "offering"
    /\ \/ /\ pc[c] = "failed"
          /\ UNCHANGED << queue, handed >>
       \/ /\ pc[c] # "failed"
          /\ Len(queue[c]) < QueueCap
          /\ queue' = [queue EXCEPT ![c] = Append(@, console.id)]
          /\ handed' = [handed EXCEPT ![c] = @ \cup {console.id}]
    /\ console' = Idle
    /\ guard' = FALSE
    /\ UNCHANGED << clients, messages, pc, backlog, feed, sending, socket,
                    failures, restarts, fetched, heard, seen >>

SaveBroadcast ==
    /\ console.at = "idle"
    /\ Len(messages) < MaxMessages
    /\ Save("broadcast", NoUser)
    /\ console' = [at |-> "publishing", id |-> Len(messages) + 1]
    /\ UNCHANGED << registry, session, socket, failures, restarts, history >>

\* A subscription keeps the last FeedCap broadcasts: the others are skipped.
Receive(pending, id) ==
    IF Len(pending) = FeedCap THEN Append(Tail(pending), id) ELSE Append(pending, id)

Publish ==
    /\ console.at = "publishing"
    /\ feed' = [c \in Connections |->
                  IF pc[c] \in Subscribed THEN Receive(feed[c], console.id) ELSE feed[c]]
    /\ console' = Idle
    /\ UNCHANGED << registry, messages, pc, backlog, queue, sending, socket,
                    failures, restarts, history >>
-----------------------------------------------------------------------------
\* The server exits or crashes: the messages table remains.
Restart ==
    /\ restarts < MaxRestarts
    /\ restarts' = restarts + 1
    /\ clients' = << >>
    /\ guard' = FALSE
    /\ console' = Idle
    /\ pc' = [c \in Connections |-> "none"]
    /\ backlog' = [c \in Connections |-> << >>]
    /\ queue' = [c \in Connections |-> << >>]
    /\ feed' = [c \in Connections |-> << >>]
    /\ sending' = [c \in Connections |-> NoMessage]
    /\ incoming' = [c \in Connections |-> << >>]
    /\ link' = [c \in Connections |-> IF link[c] = "up" THEN "closing" ELSE link[c]]
    /\ UNCHANGED << messages, outgoing, acking, failures, history >>

Handshake(c) ==
    Connect(c) \/ AddClient(c) \/ Abandon(c) \/ Upgrade(c) \/ UpgradeFails(c) \/ RemoveFailed(c)

Serve(c) ==
    \/ FetchUnread(c) \/ FetchFails(c) \/ SendUnread(c) \/ EnterLoop(c)
    \/ ReceiveAck(c) \/ TakeRequest(c) \/ TakeDirect(c) \/ TakeBroadcast(c)
    \/ WriteMessage(c) \/ WriteFails(c) \/ LeaveLoop(c) \/ RemoveClient(c)

Client(c) == ClientReceive(c) \/ ClientAck(c) \/ ClientRequest(c) \/ ClientDrop(c)

Console ==
    \/ \E u \in Users : SaveDirect(u)
    \/ LookUp \/ Offer \/ SaveBroadcast \/ Publish

Next ==
    \/ \E c \in Connections : Handshake(c) \/ Serve(c) \/ Client(c)
    \/ Console
    \/ Restart

Spec == Init /\ [][Next]_vars

(***************************************************************************)
(* A task that can go on is polled again: weak fairness for the steps that *)
(* stay possible until taken.  select! picks at random among the branches  *)
(* that are ready, and a branch may stop being ready when another is taken *)
(* (the session is then busy sending): strong fairness for each branch.  A *)
(* client that stays connected keeps reading and acknowledging.  A client  *)
(* that is gone is noticed; nothing is assumed of when one connects, drops *)
(* or completes a trip, nor of what the administrator sends.               *)
(***************************************************************************)
LeaveGone(c) == link[c] = "down" /\ LeaveLoop(c)

Fairness ==
    /\ \A c \in Connections :
          /\ WF_vars(AddClient(c)) /\ WF_vars(Upgrade(c) \/ UpgradeFails(c))
          /\ WF_vars(RemoveFailed(c)) /\ WF_vars(FetchUnread(c) \/ FetchFails(c))
          /\ WF_vars(SendUnread(c)) /\ WF_vars(EnterLoop(c))
          /\ WF_vars(WriteMessage(c) \/ WriteFails(c)) /\ WF_vars(RemoveClient(c))
          /\ SF_vars(ReceiveAck(c)) /\ SF_vars(TakeRequest(c))
          /\ SF_vars(TakeDirect(c)) /\ SF_vars(TakeBroadcast(c))
          /\ SF_vars(LeaveGone(c))
          /\ WF_vars(ClientReceive(c)) /\ WF_vars(ClientAck(c))
    /\ WF_vars(LookUp) /\ WF_vars(Offer) /\ WF_vars(Publish)

FairSpec == Spec /\ Fairness
-----------------------------------------------------------------------------
MessageType == [kind : {"direct", "broadcast"}, recipient : Users \cup {NoUser},
                is_read : BOOLEAN]

Ids == 1 .. Len(messages)

(* Every variable keeps its type, and the channels their capacity.           *)
TypeOK ==
    /\ DOMAIN clients \subseteq Users
    /\ \A u \in DOMAIN clients : clients[u] \in Connections
    /\ guard \in BOOLEAN
    /\ console \in [at : {"idle", "saved", "offering", "publishing"}, id : Nat]
    /\ console.at # "idle" => console.id \in Ids
    /\ messages \in Seq(MessageType)
    /\ pc \in [Connections -> PC]
    /\ backlog \in [Connections -> Seq(Nat)]
    /\ queue \in [Connections -> Seq(Nat)]
    /\ feed \in [Connections -> Seq(Nat)]
    /\ \A c \in Connections : /\ Len(queue[c]) <= QueueCap
                               /\ Len(feed[c]) <= FeedCap
                               /\ Len(outgoing[c]) <= SocketCap
                               /\ Len(incoming[c]) <= IncomingCap
    /\ sending \in [Connections -> Nat]
    /\ outgoing \in [Connections -> Seq(Nat)]
    /\ incoming \in [Connections -> Seq(Nat)]
    /\ link \in [Connections -> {"up", "closing", "down"}]
    /\ acking \in [Connections -> Nat]
    /\ failures \in Nat /\ restarts \in Nat
    /\ fetched \in [Connections -> BOOLEAN]
    /\ handed \in [Connections -> SUBSET Nat]
    /\ heard \in [Connections -> Nat]
    /\ seen \subseteq Users \X Nat

(* The registry names exactly the sessions there are, each for its own user, *)
(* so a user never has two: remove_client, which removes by user, can never  *)
(* take away the entry of a newer session (messaging.rs:70-93).              *)
RegistryMatchesSessions ==
    /\ \A u \in DOMAIN clients : UserOf[clients[u]] = u /\ pc[clients[u]] \in Registered
    /\ \A c \in Connections : pc[c] \in Registered =>
          /\ UserOf[c] \in DOMAIN clients
          /\ clients[UserOf[c]] = c

(* No direct message falls between the query for unread messages and the     *)
(* channel: a session past its query was handed every unread message of its  *)
(* user, but for the one the console is still working on.  It takes saving   *)
(* before looking up (messaging.rs:151-161) and registering before the query *)
(* (main.rs:129, 164).                                                       *)
NoMissedDirect ==
    \A c \in Connections, id \in Ids :
        /\ pc[c] \in Registered /\ fetched[c]
        /\ messages[id].recipient = UserOf[c] /\ ~messages[id].is_read
        => id \in handed[c] \/ console.id = id

(* A session whose query succeeded shows a direct message only when every    *)
(* earlier one was shown to its user, in this session or before: the backlog *)
(* and the channel do not overtake each other, though a message may be shown *)
(* twice, also after a later one.  Broadcasts are shown in order and once.   *)
ShownInOrder ==
    [][ \A c \in Connections : ClientReceive(c) =>
          LET id == Head(outgoing[c]) IN
          IF id = NoMessage THEN TRUE
          ELSE IF IsDirect(id)
            THEN fetched[c] => \A earlier \in 1 .. (id - 1) :
                     messages[earlier].recipient = UserOf[c]
                       => << UserOf[c], earlier >> \in seen
            ELSE heard[c] < id ]_vars

Box == INSTANCE Mailbox WITH
    sent <- [id \in Ids |-> messages[id].recipient],
    displayed <- seen,
    confirmed <- {id \in Ids : messages[id].is_read}

(* The sessions, the channels and the acknowledgements implement a mailbox:  *)
(* whatever breaks, a stored message only ever becomes read, no user is      *)
(* shown a message for another, and read means shown.                        *)
ImplementsMailbox == Box!BoxSpec

Served(u) ==
    /\ u \in DOMAIN clients
    /\ pc[clients[u]] \in {"pending", "looping", "sending"}
    /\ link[clients[u]] = "up"

(* A direct message to a user who stays connected is eventually read, also   *)
(* when it was sent while the user was away (docs/manuale_progettista.md,    *)
(* section 8.2), whatever else the client asks for.  No database failure is  *)
(* assumed in this one, and room in the sockets: a session and a client that *)
(* both wait to write do not read (main.rs:307, client runtime.rs:455).      *)
DirectEventuallyRead ==
    \A u \in Users :
        (<>[]Served(u)) =>
            \A id \in 1 .. MaxMessages :
                [](id \in Ids /\ IsDirect(id) /\ messages[id].recipient = u
                     => <>(id \in Ids /\ messages[id].is_read))

(* A client that asks for a connection gets an answer: docs/                 *)
(* manuale_progettista.md:316 says a waiting connection does not block the   *)
(* others.                                                                   *)
ConnectionAnswered ==
    \A c \in Connections : pc[c] = "adding" ~> pc[c] # "adding"

(* docs/manuale_progettista.md:245 says broadcasts are delivered to the      *)
(* users connected when they are published, and the connected users are      *)
(* those of the registry.                                                    *)
BroadcastToConnected ==
    [][ console.at = "publishing" /\ console'.at = "idle" =>
          \A u \in DOMAIN clients' : \E i \in 1 .. Len(feed'[clients'[u]]) :
              feed'[clients'[u]][i] = console.id ]_vars
=============================================================================
