------------------------------- MODULE Server -------------------------------
(***************************************************************************)
(* The server as one: the sessions of Messaging, which share a registry    *)
(* and a console, drive the trips of TripService.  A session is one task   *)
(* and one select!: while it handles a command it takes nothing else, and  *)
(* while it sends a message it takes no command.                           *)
(*                                                                         *)
(* TripService knows a session by its user, Messaging by its connection.   *)
(* That a user has one session at a time is not assumed here: a trip's     *)
(* session begins when a connection enters its loop, whatever the trip of  *)
(* an older connection of that user is doing (SessionsAgree).              *)
(***************************************************************************)
EXTENDS Messaging

CONSTANTS Coordinates, POSITION_INTERVAL_SECONDS, STILL_THRESHOLD, MaxElapsed,
          ElapsedInputs, MaxTrips

VARIABLES
    trips, tripPc, reply, closing, saving, tx, tripRows, pointRows,
    run, accepted, origin, told     \* those of TripService

T == INSTANCE TripService WITH pc <- tripPc

tripVars == << trips, tripPc, reply, closing, saving, tx, tripRows, pointRows,
               run, accepted, origin, told >>

serverVars == << vars, tripVars >>

Busy == {"finished", "copied", "writing", "committed", "replying"}

ServerInit == Init /\ T!Init
-----------------------------------------------------------------------------
\* The session of c reaches its loop, with its unread messages or without.
StartLoop(c) ==
    /\ EnterLoop(c) \/ FetchFails(c)
    /\ T!Connect(UserOf[c])

\* A branch of the select! that has nothing to do with trips.
TakeMessage(c) ==
    /\ tripPc[UserOf[c]] = "looping"
    /\ ReceiveAck(c) \/ TakeDirect(c) \/ TakeBroadcast(c)
    /\ UNCHANGED tripVars

\* A text that is stored, or a command and the answer that will follow it.
ServeRequest(c) ==
    /\ tripPc[UserOf[c]] = "looping"
    /\ TakeRequest(c)
    /\ IF pc'[c] = "sending" THEN T!Command(UserOf[c]) ELSE UNCHANGED tripVars

SaveTrip(c) ==
    /\ pc[c] = "sending"
    /\ T!SaveStep(UserOf[c])
    /\ UNCHANGED vars

\* The session has something to send: a message, or the answer once it is known.
WriteOut(c) ==
    IF sending[c] = NoMessage
      THEN \/ WriteMessage(c) /\ T!SendReply(UserOf[c])
           \/ WriteFails(c) /\ T!SendFails(UserOf[c])
      ELSE \/ WriteMessage(c) /\ UNCHANGED tripVars
           \/ WriteFails(c) /\ T!Leave(UserOf[c])

\* The loop ends: the client is gone, or the answer was the last (close_after_
\* response).
EndLoop(c) ==
    \/ LeaveLoop(c) /\ T!Leave(UserOf[c])
    \/ LeaveLoop(c) /\ tripPc[UserOf[c]] = "left" /\ UNCHANGED tripVars

DiscardTrip(c) ==
    /\ pc[c] = "leaving"
    /\ T!DiscardTrip(UserOf[c])
    /\ UNCHANGED vars

\* Mutant: the session leaves the registry first and discards its trip later.
DiscardTripLate(c) ==
    /\ pc[c] = "none"
    /\ T!DiscardTrip(UserOf[c])
    /\ UNCHANGED vars

EndSessionEarly(c) ==
    \/ RemoveClient(c) /\ tripPc[UserOf[c]] = "left" /\ UNCHANGED tripVars
    \/ DiscardTripLate(c)
    \/ pc[c] = "none" /\ T!RemoveClient(UserOf[c]) /\ UNCHANGED vars

EndSession(c) == DiscardTrip(c) \/ (RemoveClient(c) /\ T!RemoveClient(UserOf[c]))

\* Everything that leaves the trips alone.
Elsewhere ==
    /\ \/ \E c \in Connections :
             Handshake(c) \/ FetchUnread(c) \/ SendUnread(c) \/ Client(c)
       \/ Console
    /\ UNCHANGED tripVars

Session(c) ==
    StartLoop(c) \/ TakeMessage(c) \/ ServeRequest(c) \/ SaveTrip(c)
    \/ WriteOut(c) \/ EndLoop(c) \/ EndSession(c)

ServerNext ==
    \/ \E c \in Connections : Session(c)
    \/ Elsewhere
    \/ Restart /\ T!Restart

ServerSpec == ServerInit /\ [][ServerNext]_serverVars

(***************************************************************************)
(* A task that can go on is polled again: weak fairness of the steps of a  *)
(* connection's task, of the console and of the client at the other end,   *)
(* which reads and acknowledges.  Nothing is assumed of when a client      *)
(* connects, asks, completes a trip or drops; one that is gone is noticed, *)
(* since the end of its stream is read like a request.  select! picks at   *)
(* random among the branches that are ready, and a client may ask again    *)
(* and again: that the channel of direct messages is picked in the end is  *)
(* the one strong assumption.                                              *)
(***************************************************************************)
Quietly(A) == A /\ UNCHANGED tripVars

ReadSocket(c) ==
    \/ ServeRequest(c)
    \/ TakeMessage(c) /\ incoming'[c] # incoming[c]
    \/ (link[c] = "down" \/ tripPc[UserOf[c]] = "left") /\ EndLoop(c)

Progress(c) ==
    \/ Quietly(AddClient(c) \/ Upgrade(c) \/ UpgradeFails(c) \/ RemoveFailed(c)
                 \/ FetchUnread(c) \/ SendUnread(c))
    \/ StartLoop(c) \/ ReadSocket(c) \/ SaveTrip(c) \/ WriteOut(c) \/ EndSession(c)

FairServerSpec ==
    /\ ServerSpec
    /\ \A c \in Connections :
          /\ WF_serverVars(Progress(c))
          /\ SF_serverVars(TakeMessage(c) /\ queue'[c] # queue[c])
          /\ WF_serverVars(Quietly(ClientReceive(c) \/ ClientAck(c)))
    /\ WF_serverVars(Quietly(LookUp \/ Offer \/ Publish))
-----------------------------------------------------------------------------
(* The registry and the trips agree: a user whose connection is being opened *)
(* has no trip, no save and no session of an older connection (main.rs:342), *)
(* and one who has any of them is registered with the connection that drives *)
(* it.  Nothing but the order in which a session ends makes it so: trips     *)
(* and registry have different locks.                                        *)
SessionsAgree ==
    /\ \A c \in Connections : pc[c] \in {"upgrading", "failed", "fetching", "pending"} =>
          tripPc[UserOf[c]] = "offline"
    /\ \A u \in Users : tripPc[u] # "offline" \/ u \in DOMAIN trips \/ u \in DOMAIN tx =>
          /\ u \in DOMAIN clients
          /\ tripPc[u] \in Busy <=> pc[clients[u]] = "sending" /\ sending[clients[u]] = NoMessage
          /\ tripPc[u] = "discarded" => pc[clients[u]] = "leaving"
=============================================================================
