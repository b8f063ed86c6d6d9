---------------------------- MODULE ServerProofs ----------------------------
(***************************************************************************)
(* Proofs about Server: each of its parts behaves in the whole as it does  *)
(* alone, and the registry and the trips agree, for every set of users,    *)
(* connections and coordinates and every bound.                            *)
(***************************************************************************)
EXTENDS Server, MessagingProofs

(* A user's trip and write transaction belong to a session of the user.      *)
TripsOf(u) ==
    /\ u \in DOMAIN trips => tripPc[u] \notin {"offline", "discarded"}
    /\ u \in DOMAIN tx => tripPc[u] = "writing"

(* Where the session of a connection is, as its registry and its trips see   *)
(* it.  What it sends outside a command is a stored message.                 *)
Matches(c) ==
    /\ pc[c] \in {"upgrading", "failed", "fetching", "pending"} => tripPc[UserOf[c]] = "offline"
    /\ pc[c] = "looping" => tripPc[UserOf[c]] \in {"looping", "left"}
    /\ pc[c] = "sending" /\ sending[c] = NoMessage => tripPc[UserOf[c]] \in Busy
    /\ pc[c] = "sending" /\ sending[c] # NoMessage => tripPc[UserOf[c]] = "looping"
    /\ pc[c] = "leaving" => tripPc[UserOf[c]] \in {"left", "discarded"}
    /\ pc[c] # "sending" => sending[c] = NoMessage

Unattended(u) == u \notin DOMAIN clients => tripPc[u] = "offline"

ServerIInv ==
    /\ IInv
    /\ tripPc \in [Users -> T!PC]
    /\ \A u \in Users : TripsOf(u) /\ Unattended(u)
    /\ \A c \in Connections : Matches(c)
-----------------------------------------------------------------------------
(* What a step of the whole is to its parts.                                 *)

LEMMA SessionIsServe ==
    ASSUME NEW c \in Connections, Session(c)
    PROVE  Serve(c) \/ UNCHANGED vars
BY DEF Session, StartLoop, TakeMessage, ServeRequest, SaveTrip, WriteOut, EndLoop,
       EndSession, DiscardTrip, Serve

LEMMA StepIsMessagingStep == [ServerNext]_serverVars => [Next]_vars
<1>1. ASSUME ServerNext PROVE [Next]_vars
  <2>1. ASSUME NEW c \in Connections, Session(c) PROVE [Next]_vars
    BY <2>1, SessionIsServe DEF Next
  <2>2. ASSUME Elsewhere PROVE Next
    BY <2>2 DEF Elsewhere, Next, Serve
  <2>3. ASSUME Restart PROVE Next
    BY <2>3 DEF Next
  <2>4. QED BY <1>1, <2>1, <2>2, <2>3 DEF ServerNext
<1>2. ASSUME UNCHANGED serverVars PROVE UNCHANGED vars
  BY <1>2 DEF serverVars
<1>3. QED BY <1>1, <1>2

(* The server's session steps as steps of the trips of the connection's user.*)
TripMove(u) ==
    \/ T!Connect(u) \/ T!Command(u) \/ T!SaveStep(u) \/ T!SendReply(u)
    \/ T!SendFails(u) \/ T!Leave(u) \/ T!EndOfSession(u)

\* The steps of a session leave the count of restarts alone.
LEMMA RestartsKept ==
    ASSUME NEW c \in Connections,
           Handshake(c) \/ Serve(c) \/ Client(c) \/ Console
    PROVE  restarts' = restarts
<1>1. CASE Handshake(c)
  BY <1>1 DEF Handshake, Connect, AddClient, Abandon, Upgrade, UpgradeFails, RemoveFailed
<1>2. CASE Serve(c)
  BY <1>2 DEF Serve, FetchUnread, FetchFails, SendUnread, EnterLoop, ReceiveAck, TakeRequest,
              TakeDirect, TakeBroadcast, WriteMessage, WriteFails, LeaveLoop, RemoveClient
<1>3. CASE Client(c)
  BY <1>3 DEF Client, ClientReceive, ClientAck, ClientRequest, ClientDrop
<1>4. CASE Console
  BY <1>4 DEF Console, SaveDirect, LookUp, Offer, SaveBroadcast, Publish
<1>5. QED BY <1>1, <1>2, <1>3, <1>4

LEMMA SessionIsTripMove ==
    ASSUME NEW c \in Connections, Session(c)
    PROVE  TripMove(UserOf[c]) \/ UNCHANGED T!vars
<1>1. restarts' = restarts
  BY SessionIsServe, RestartsKept DEF vars
<1>2. TripMove(UserOf[c]) \/ UNCHANGED tripVars
  BY DEF Session, StartLoop, TakeMessage, ServeRequest, SaveTrip, WriteOut, EndLoop,
         EndSession, DiscardTrip, TripMove, T!EndOfSession
<1>3. QED BY <1>1, <1>2 DEF tripVars, T!vars, T!session, T!database, T!history

LEMMA StepIsTripStep == [ServerNext]_serverVars => [T!Next]_(T!vars)
<1> USE MessagingAssumption
<1>1. ASSUME NEW c \in Connections, Session(c) PROVE [T!Next]_(T!vars)
  BY <1>1, SessionIsTripMove DEF TripMove, T!Next
<1>2. ASSUME Elsewhere PROVE UNCHANGED T!vars
  <2>1. restarts' = restarts /\ UNCHANGED tripVars
    <3>1. CASE Console
      BY <1>2, <3>1 DEF Elsewhere, Console, SaveDirect, LookUp, Offer, SaveBroadcast, Publish
    <3>2. CASE ~Console
      <4>1. PICK c \in Connections : Handshake(c) \/ Serve(c) \/ Client(c)
        BY <1>2, <3>2 DEF Elsewhere, Serve
      <4>2. QED BY <1>2, <4>1, RestartsKept DEF Elsewhere
    <3>3. QED BY <3>1, <3>2
  <2>2. QED BY <2>1 DEF tripVars, T!vars, T!session, T!database, T!history
<1>3. ASSUME UNCHANGED serverVars PROVE UNCHANGED T!vars
  BY <1>3 DEF serverVars, vars, tripVars, T!vars, T!session, T!database, T!history
<1>4. QED BY <1>1, <1>2, <1>3 DEF ServerNext, T!Next

(* The message service in the whole server behaves as it does alone: what is *)
(* proved of it there holds here.                                            *)
THEOREM MessagingImplemented == ServerSpec => Spec
BY StepIsMessagingStep, PTL DEF ServerSpec, ServerInit, Spec

(* So do the trips, though here a session is a connection that shares its    *)
(* task with the messages and ends in the order of main.rs:342-348.          *)
THEOREM TripsImplemented == ServerSpec => T!Spec
BY StepIsTripStep, PTL DEF ServerSpec, ServerInit, T!Spec
-----------------------------------------------------------------------------
(* One step of a user's trip.                                                *)

TripFrame(u) ==
    /\ tripPc' \in [Users -> T!PC]
    /\ \A v \in Users \ {u} : /\ tripPc'[v] = tripPc[v]
                              /\ v \in DOMAIN trips' <=> v \in DOMAIN trips
                              /\ v \in DOMAIN tx' <=> v \in DOMAIN tx

LEMMA PutDomain == \A map, u, value : DOMAIN T!Put(map, u, value) = DOMAIN map \cup {u}
BY DEF T!Put

LEMMA DropDomain == \A map, u : DOMAIN T!Drop(map, u) = DOMAIN map \ {u}
BY DEF T!Drop

LEMMA GotoFrame ==
    ASSUME tripPc \in [Users -> T!PC], NEW u \in Users, NEW label \in T!PC, T!Goto(u, label)
    PROVE  /\ tripPc' \in [Users -> T!PC] /\ tripPc'[u] = label
           /\ \A v \in Users \ {u} : tripPc'[v] = tripPc[v]
BY DEF T!Goto

(* The session's own steps: none but a completed save touches a transaction. *)
LEMMA SessionMoves ==
    ASSUME tripPc \in [Users -> T!PC], NEW u \in Users, TripsOf(u),
           \/ T!Connect(u) \/ T!SendReply(u) \/ T!SendFails(u) \/ T!Leave(u)
           \/ T!DiscardTrip(u) \/ T!RemoveClient(u)
    PROVE  TripFrame(u) /\ TripsOf(u)'
<1>1. /\ tripPc' \in [Users -> T!PC]
      /\ \A v \in Users \ {u} : tripPc'[v] = tripPc[v]
      /\ tripPc'[u] \in {"looping", "left", "discarded", "offline"}
      /\ tripPc'[u] \in {"discarded", "offline"} => u \notin DOMAIN trips'
      /\ tripPc[u] # "writing"
  <2>1. T!PC = {"offline", "looping", "finished", "copied", "writing", "committed",
                "replying", "left", "discarded"}
    BY DEF T!PC
  <2>2. CASE T!DiscardTrip(u)
    <3>1. T!Goto(u, "discarded") /\ tripPc[u] = "left" /\ DOMAIN trips' = DOMAIN trips \ {u}
      BY <2>2, DropDomain DEF T!DiscardTrip
    <3>2. QED BY <2>1, <3>1, GotoFrame
  <2>3. CASE T!RemoveClient(u)
    BY <2>1, <2>3, GotoFrame DEF T!RemoveClient, TripsOf
  <2>4. CASE T!SendReply(u)
    BY <2>1, <2>4, GotoFrame DEF T!SendReply
  <2>5. CASE T!Connect(u) \/ T!SendFails(u) \/ T!Leave(u)
    BY <2>1, <2>5, GotoFrame DEF T!Connect, T!SendFails, T!Leave
  <2>6. QED BY <2>2, <2>3, <2>4, <2>5
<1>2. tx' = tx /\ (trips' = trips \/ trips' = T!Drop(trips, u))
  BY DEF T!Connect, T!SendReply, T!SendFails, T!Leave, T!DiscardTrip, T!RemoveClient
<1>3. /\ DOMAIN trips' \subseteq DOMAIN trips
      /\ \A v \in Users \ {u} : v \in DOMAIN trips' <=> v \in DOMAIN trips
  <2>1. DOMAIN trips' = DOMAIN trips \/ DOMAIN trips' = DOMAIN trips \ {u}
    BY <1>2, DropDomain
  <2>2. QED BY <2>1
<1>4. QED BY <1>1, <1>2, <1>3 DEF TripFrame, TripsOf

LEMMA CommandMoves ==
    ASSUME tripPc \in [Users -> T!PC], NEW u \in Users, TripsOf(u), T!Command(u)
    PROVE  TripFrame(u) /\ TripsOf(u)' /\ tripPc'[u] \in Busy
<1>1. /\ tripPc[u] = "looping" /\ tx' = tx
      /\ \E label \in {"replying", "finished"} : T!Goto(u, label)
      /\ \/ trips' = trips \/ trips' = T!Put(trips, u, T!NewTrip)
         \/ \E value : trips' = [trips EXCEPT ![u] = value]
  <2>1. CASE T!StartTrip(u)
    BY <2>1 DEF T!StartTrip, T!Answer
  <2>2. CASE \E c \in Coordinates, elapsed \in ElapsedInputs : T!PositionUpdate(u, c, elapsed)
    BY <2>2 DEF T!PositionUpdate, T!Answer
  <2>3. CASE T!FinishTrip(u)
    BY <2>3 DEF T!FinishTrip, T!Answer
  <2>4. CASE \E kind \in T!Refusal : T!Refuse(u, kind)
    BY <2>4 DEF T!Refuse, T!Answer
  <2>5. QED BY <2>1, <2>2, <2>3, <2>4 DEF T!Command
<1>2. /\ tripPc' \in [Users -> T!PC] /\ tripPc'[u] \in {"replying", "finished"}
      /\ \A v \in Users \ {u} : tripPc'[v] = tripPc[v]
  <2>1. "replying" \in T!PC /\ "finished" \in T!PC
    BY DEF T!PC
  <2>2. QED BY <1>1, <2>1, GotoFrame
<1>3. /\ DOMAIN trips' \subseteq DOMAIN trips \cup {u}
      /\ \A v \in Users \ {u} : v \in DOMAIN trips' <=> v \in DOMAIN trips
  <2>1. DOMAIN trips' = DOMAIN trips \/ DOMAIN trips' = DOMAIN trips \cup {u}
    BY <1>1, PutDomain
  <2>2. QED BY <2>1
<1>4. QED BY <1>1, <1>2, <1>3 DEF TripFrame, TripsOf, Busy

LEMMA SaveMoves ==
    ASSUME tripPc \in [Users -> T!PC], NEW u \in Users, TripsOf(u), T!SaveStep(u)
    PROVE  TripFrame(u) /\ TripsOf(u)' /\ tripPc[u] \in Busy /\ tripPc'[u] \in Busy
<1> USE PutDomain, DropDomain
<1>0. {"copied", "replying", "writing", "committed"} \subseteq T!PC
  BY DEF T!PC
<1>1. CASE T!CopyPositions(u)
  <2>1. /\ tripPc[u] = "finished" /\ tx' = tx /\ trips' = trips
        /\ \E label \in {"copied", "replying"} : T!Goto(u, label)
    BY <1>1 DEF T!CopyPositions, T!Answer
  <2>2. QED BY <1>0, <2>1, GotoFrame DEF TripFrame, TripsOf, Busy
<1>2. CASE T!InsertTrip(u)
  <2>1. /\ tripPc[u] = "copied" /\ trips' = trips /\ DOMAIN tx' = DOMAIN tx \cup {u}
        /\ T!Goto(u, "writing")
    BY <1>2 DEF T!InsertTrip
  <2>2. QED BY <1>0, <2>1, GotoFrame DEF TripFrame, TripsOf, Busy
<1>3. CASE T!InsertPoint(u)
  <2>1. /\ tripPc[u] = "writing" /\ trips' = trips /\ DOMAIN tx' = DOMAIN tx /\ tripPc' = tripPc
    BY <1>3 DEF T!InsertPoint, T!session
  <2>2. QED BY <2>1 DEF TripFrame, TripsOf, Busy
<1>4. CASE T!Commit(u) \/ T!SaveFails(u)
  <2>1. /\ tripPc[u] \in {"copied", "writing"} /\ trips' = trips /\ DOMAIN tx' = DOMAIN tx \ {u}
        /\ \E label \in {"committed", "replying"} : T!Goto(u, label)
    BY <1>4 DEF T!Commit, T!SaveFails, T!Answer
  <2>2. QED BY <1>0, <2>1, GotoFrame DEF TripFrame, TripsOf, Busy
<1>5. CASE T!DiscardSaved(u)
  <2>1. /\ tripPc[u] = "committed" /\ tx' = tx /\ DOMAIN trips' = DOMAIN trips \ {u}
        /\ T!Goto(u, "replying")
    BY <1>5 DEF T!DiscardSaved, T!Answer
  <2>2. QED BY <1>0, <2>1, GotoFrame DEF TripFrame, TripsOf, Busy
<1>6. QED BY <1>1, <1>2, <1>3, <1>4, <1>5 DEF T!SaveStep
-----------------------------------------------------------------------------
(* What the steps of a session keep of the whole.                            *)

\* A step of c that leaves the other sessions alone, and c's trips too unless
\* c is registered.
Alone(c) ==
    /\ \A d \in Connections \ {c} : pc'[d] = pc[d] /\ sending'[d] = sending[d]
    /\ \A u \in Users \ {UserOf[c]} : /\ u \in DOMAIN clients' <=> u \in DOMAIN clients
                                      /\ tripPc'[u] = tripPc[u]
    /\ tripPc'[UserOf[c]] = tripPc[UserOf[c]] \/ pc[c] \in Registered

LEMMA OneSessionMoves ==
    ASSUME RegistryMatchesSessions,
           \A d \in Connections : Matches(d), \A u \in Users : Unattended(u),
           NEW c \in Connections, Alone(c), Matches(c)', Unattended(UserOf[c])'
    PROVE  /\ \A d \in Connections : Matches(d)'
           /\ \A u \in Users : Unattended(u)'
<1> USE MessagingAssumption
<1>1. ASSUME NEW d \in Connections, d # c PROVE Matches(d)'
  <2>1. pc'[d] = pc[d] /\ sending'[d] = sending[d] /\ Matches(d)
    BY <1>1 DEF Alone
  <2>2. CASE tripPc'[UserOf[d]] = tripPc[UserOf[d]]
    BY <2>1, <2>2 DEF Matches
  <2>3. CASE tripPc'[UserOf[d]] # tripPc[UserOf[d]]
    <3>1. UserOf[d] = UserOf[c] /\ pc[c] \in Registered
      BY <2>3 DEF Alone
    <3>2. pc[d] \notin Registered
      BY <1>1, <3>1 DEF RegistryMatchesSessions
    <3>3. pc[d] \notin {"upgrading", "failed", "fetching", "pending", "looping", "sending", "leaving"}
      BY <3>2 DEF Registered, PC
    <3>4. QED BY <2>1, <3>3 DEF Matches
  <2>4. QED BY <2>2, <2>3
<1>2. ASSUME NEW u \in Users, u # UserOf[c] PROVE Unattended(u)'
  BY <1>2 DEF Alone, Unattended
<1>3. QED BY <1>1, <1>2

\* A connection that no step names stays where it is.
LEMMA OtherConnections ==
    ASSUME TypeOK, NEW c \in Connections, Handshake(c) \/ Serve(c) \/ Client(c)
    PROVE  /\ \A d \in Connections \ {c} : pc'[d] = pc[d] /\ sending'[d] = sending[d]
           /\ \A u \in Users \ {UserOf[c]} : u \in DOMAIN clients' <=> u \in DOMAIN clients
<1> USE DEF TypeOK, Goto, session, registry, socket
<1>1. CASE Handshake(c)
  <2>1. sending' = sending /\ (pc' = pc \/ \E label : pc' = [pc EXCEPT ![c] = label])
    BY <1>1 DEF Handshake, Connect, AddClient, Abandon, Upgrade, UpgradeFails, RemoveFailed
  <2>2. \/ clients' = clients \/ clients' = Put(clients, UserOf[c], c)
        \/ clients' = Drop(clients, UserOf[c])
    BY <1>1 DEF Handshake, Connect, AddClient, Abandon, Upgrade, UpgradeFails, RemoveFailed
  <2>3. \/ DOMAIN clients' = DOMAIN clients \/ DOMAIN clients' = DOMAIN clients \cup {UserOf[c]}
        \/ DOMAIN clients' = DOMAIN clients \ {UserOf[c]}
    BY <2>2 DEF Put, Drop
  <2>4. QED BY <2>1, <2>3
<1>2. CASE Serve(c)
  <2>1. /\ pc' = pc \/ \E label : pc' = [pc EXCEPT ![c] = label]
        /\ sending' = sending \/ \E id : sending' = [sending EXCEPT ![c] = id]
    BY <1>2 DEF Serve, FetchUnread, FetchFails, SendUnread, EnterLoop, ReceiveAck, TakeRequest,
                TakeDirect, TakeBroadcast, WriteMessage, WriteFails, LeaveLoop, RemoveClient
  <2>2. clients' = clients \/ clients' = Drop(clients, UserOf[c])
    BY <1>2 DEF Serve, FetchUnread, FetchFails, SendUnread, EnterLoop, ReceiveAck, TakeRequest,
                TakeDirect, TakeBroadcast, WriteMessage, WriteFails, LeaveLoop, RemoveClient
  <2>3. DOMAIN clients' = DOMAIN clients \/ DOMAIN clients' = DOMAIN clients \ {UserOf[c]}
    BY <2>2 DEF Drop
  <2>4. QED BY <2>1, <2>3
<1>3. CASE Client(c)
  BY <1>3 DEF Client, ClientReceive, ClientAck, ClientRequest, ClientDrop
<1>4. QED BY <1>1, <1>2, <1>3

\* The places a session of c may be in after its step, as it sees itself.
At(c, label, id) == pc'[c] = label /\ sending'[c] = id

LEMMA MatchesThen ==
    ASSUME NEW c \in Connections,
           \/ At(c, "looping", NoMessage) /\ tripPc'[UserOf[c]] \in {"looping", "left"}
           \/ At(c, "sending", NoMessage) /\ tripPc'[UserOf[c]] \in Busy
           \/ pc'[c] = "sending" /\ sending'[c] # NoMessage /\ tripPc'[UserOf[c]] = "looping"
           \/ At(c, "leaving", NoMessage) /\ tripPc'[UserOf[c]] \in {"left", "discarded"}
           \/ At(c, "none", NoMessage)
    PROVE  Matches(c)'
BY DEF At, Matches

\* What the channels hold is no request.
LEMMA MessagesHaveIds ==
    ASSUME IInv, NEW c \in Connections
    PROVE  /\ queue[c] # << >> => Head(queue[c]) # NoMessage
           /\ feed[c] # << >> => Head(feed[c]) # NoMessage
<1>1. queue[c] \in Seq(Nat) /\ feed[c] \in Seq(Nat)
  BY ConnectionFields DEF IInv
<1>2. /\ queue[c] # << >> => Head(queue[c]) \in Items(queue[c])
      /\ feed[c] # << >> => Head(feed[c]) \in Items(feed[c])
  BY <1>1, TailItems
<1>3. Items(queue[c]) \subseteq Ids /\ Items(feed[c]) \subseteq Ids
  BY DEF IInv, DeliveryOK, Mine, Public
<1>4. NoMessage \notin Ids
  BY DEF Ids, NoMessage
<1>5. QED BY <1>2, <1>3, <1>4

LEMMA SessionMatches ==
    ASSUME ServerIInv, NEW c \in Connections, Session(c)
    PROVE  /\ tripPc' \in [Users -> T!PC]
           /\ \A u \in Users : TripsOf(u)'
           /\ pc[c] \in Registered /\ Alone(c) /\ Matches(c)' /\ Unattended(UserOf[c])'
<1> DEFINE u == UserOf[c]
<1> USE DEF NoMessage
<1>0. /\ u \in Users /\ pc \in [Connections -> PC] /\ sending \in [Connections -> Nat]
      /\ tripPc \in [Users -> T!PC] /\ TripsOf(u) /\ Matches(c)
      /\ TypeOK /\ IInv
  BY MessagingAssumption DEF ServerIInv, IInv, TypeOK
<1>1. /\ \A d \in Connections \ {c} : pc'[d] = pc[d] /\ sending'[d] = sending[d]
      /\ \A v \in Users \ {u} : v \in DOMAIN clients' <=> v \in DOMAIN clients
  <2>1. CASE Serve(c)
    BY <1>0, <2>1, OtherConnections
  <2>2. CASE UNCHANGED vars
    BY <2>2 DEF vars, registry, session
  <2>3. QED BY <2>1, <2>2, SessionIsServe
<1>2. pc[c] \in Registered
  BY DEF Session, StartLoop, TakeMessage, ServeRequest, SaveTrip, WriteOut, EndLoop, EndSession,
         DiscardTrip, EnterLoop, FetchFails, ReceiveAck, TakeDirect, TakeBroadcast, TakeRequest,
         WriteMessage, WriteFails, LeaveLoop, RemoveClient, Registered, PC
<1>3. u \in DOMAIN clients
  BY <1>0, <1>2 DEF IInv, RegistryMatchesSessions
<1> DEFINE Result == ((TripFrame(u) /\ TripsOf(u)') \/ UNCHANGED tripVars)
                       /\ Matches(c)' /\ Unattended(u)'
<1>4. clients' = clients => Unattended(u)'
  BY <1>3 DEF Unattended
<1> HIDE DEF u
<1>5. ASSUME StartLoop(c) PROVE Result
  <2>1. /\ T!Connect(u) /\ clients' = clients /\ sending' = sending
        /\ pc' = [pc EXCEPT ![c] = "looping"] /\ pc[c] \in {"pending", "fetching"}
    BY <1>5 DEF u, StartLoop, EnterLoop, FetchFails, registry, Goto
  <2>2. tripPc'[u] = "looping" /\ TripFrame(u) /\ TripsOf(u)'
    BY <1>0, <2>1, SessionMoves DEF T!Connect, T!Goto
  <2>3. At(c, "looping", NoMessage)
    BY <1>0, <2>1 DEF At, Matches
  <2>4. QED BY <1>4, <2>1, <2>2, <2>3, MatchesThen DEF u
<1>6. ASSUME TakeMessage(c) PROVE Result
  <2>1. /\ tripPc[u] = "looping" /\ UNCHANGED tripVars /\ tripPc' = tripPc /\ clients' = clients
        /\ pc[c] = "looping"
    BY <1>6 DEF u, TakeMessage, ReceiveAck, TakeDirect, TakeBroadcast, registry, tripVars
  <2>2. \/ At(c, "looping", NoMessage)
        \/ pc'[c] = "sending" /\ sending'[c] # NoMessage
    <3>1. CASE ReceiveAck(c)
      BY <1>0, <3>1 DEF ReceiveAck, session, At, Matches
    <3>2. CASE TakeDirect(c) \/ TakeBroadcast(c)
      <4>1. /\ pc'[c] = "sending"
            /\ \/ sending'[c] = Head(queue[c]) /\ queue[c] # << >>
               \/ sending'[c] = Head(feed[c]) /\ feed[c] # << >>
        <5>1. CASE TakeDirect(c)
          BY <1>0, <5>1 DEF TakeDirect, Goto
        <5>2. CASE TakeBroadcast(c)
          BY <1>0, <5>2 DEF TakeBroadcast, Goto
        <5>3. QED BY <3>2, <5>1, <5>2
      <4>2. QED BY <1>0, <4>1, MessagesHaveIds
    <3>3. QED BY <1>6, <3>1, <3>2 DEF TakeMessage
  <2>3. Matches(c)'
    BY <2>1, <2>2, MatchesThen DEF u
  <2>4. QED BY <1>4, <2>1, <2>3
<1>7. ASSUME ServeRequest(c) PROVE Result
  <2>1. /\ tripPc[u] = "looping" /\ clients' = clients /\ pc[c] = "looping" /\ sending' = sending
        /\ pc' = pc \/ pc' = [pc EXCEPT ![c] = "sending"]
        /\ pc'[c] = "sending" => T!Command(u)
        /\ pc'[c] # "sending" => UNCHANGED tripVars
    BY <1>7 DEF u, ServeRequest, TakeRequest, registry, Goto
  <2>2. sending'[c] = NoMessage
    BY <1>0, <2>1 DEF Matches
  <2>3. CASE pc'[c] = "sending"
    <3>1. TripFrame(u) /\ TripsOf(u)' /\ tripPc'[u] \in Busy
      BY <1>0, <2>1, <2>3, CommandMoves
    <3>2. QED BY <1>4, <2>1, <2>2, <2>3, <3>1, MatchesThen DEF u, At
  <2>4. CASE pc'[c] # "sending"
    <3>1. pc' = pc /\ UNCHANGED tripVars /\ tripPc' = tripPc
      BY <1>0, <2>1, <2>4 DEF tripVars
    <3>2. QED BY <1>4, <2>1, <2>2, <3>1, MatchesThen DEF u, At
  <2>5. QED BY <2>3, <2>4
<1>8. ASSUME SaveTrip(c) PROVE Result
  <2>1. pc[c] = "sending" /\ T!SaveStep(u) /\ pc' = pc /\ sending' = sending /\ clients' = clients
    BY <1>8 DEF u, SaveTrip, vars, registry, session
  <2>2. TripFrame(u) /\ TripsOf(u)' /\ tripPc[u] \in Busy /\ tripPc'[u] \in Busy
    BY <1>0, <2>1, SaveMoves
  <2>3. sending[c] = NoMessage
    BY <1>0, <2>1, <2>2 DEF Matches, Busy, u
  <2>4. QED BY <1>4, <2>1, <2>2, <2>3, MatchesThen DEF u, At
<1>9. ASSUME WriteOut(c) PROVE Result
  <2>0. /\ T!SendReply(u) => tripPc'[u] \in {"looping", "left"} /\ TripFrame(u) /\ TripsOf(u)'
        /\ T!SendFails(u) => tripPc'[u] = "left" /\ TripFrame(u) /\ TripsOf(u)'
        /\ T!Leave(u) => tripPc'[u] = "left" /\ TripFrame(u) /\ TripsOf(u)'
    BY <1>0, SessionMoves DEF T!SendReply, T!SendFails, T!Leave, T!Goto
  <2>1. CASE WriteMessage(c)
    <3>1. pc[c] = "sending" /\ clients' = clients /\ At(c, "looping", NoMessage)
      BY <1>0, <2>1 DEF WriteMessage, registry, Goto, At
    <3>2. \/ sending[c] = NoMessage /\ (T!SendReply(u) \/ WriteFails(c))
          \/ sending[c] # NoMessage /\ (UNCHANGED tripVars \/ WriteFails(c))
      BY <1>9 DEF WriteOut, u
    <3>3. ~WriteFails(c)
      BY <1>0, <3>1 DEF WriteFails, Goto, At
    <3>4. CASE T!SendReply(u)
      BY <1>4, <2>0, <3>1, <3>4, MatchesThen DEF u
    <3>5. CASE sending[c] # NoMessage /\ UNCHANGED tripVars
      <4>1. tripPc'[u] = "looping"
        BY <1>0, <3>1, <3>5 DEF Matches, tripVars, u
      <4>2. QED BY <1>4, <3>1, <3>5, <4>1, MatchesThen DEF u
    <3>6. QED BY <3>2, <3>3, <3>4, <3>5
  <2>2. CASE ~WriteMessage(c)
    <3>1. WriteFails(c) /\ (T!SendFails(u) \/ T!Leave(u))
      BY <1>9, <2>2 DEF WriteOut, u
    <3>2. clients' = clients /\ At(c, "leaving", NoMessage)
      BY <1>0, <3>1 DEF WriteFails, registry, Goto, At
    <3>3. QED BY <1>4, <2>0, <3>1, <3>2, MatchesThen DEF u
  <2>3. QED BY <2>1, <2>2
<1>10. ASSUME EndLoop(c) PROVE Result
  <2>1. /\ clients' = clients /\ At(c, "leaving", NoMessage)
        /\ T!Leave(u) \/ (tripPc[u] = "left" /\ UNCHANGED tripVars)
    <3>1. LeaveLoop(c) /\ (T!Leave(u) \/ (tripPc[u] = "left" /\ UNCHANGED tripVars))
      BY <1>10 DEF EndLoop, u
    <3>2. QED BY <1>0, <3>1 DEF LeaveLoop, registry, Goto, At, Matches
  <2>2. CASE T!Leave(u)
    <3>1. tripPc'[u] = "left" /\ TripFrame(u) /\ TripsOf(u)'
      BY <1>0, <2>2, SessionMoves DEF T!Leave, T!Goto
    <3>2. QED BY <1>4, <2>1, <3>1, MatchesThen DEF u
  <2>3. CASE tripPc[u] = "left" /\ UNCHANGED tripVars
    <3>1. tripPc'[u] = "left"
      BY <2>3 DEF tripVars
    <3>2. QED BY <1>4, <2>1, <2>3, <3>1, MatchesThen DEF u
  <2>4. QED BY <2>1, <2>2, <2>3
<1>11. ASSUME EndSession(c) PROVE Result
  <2>1. CASE DiscardTrip(c)
    <3>1. T!DiscardTrip(u) /\ pc[c] = "leaving" /\ pc' = pc /\ sending' = sending /\ clients' = clients
      BY <2>1 DEF u, DiscardTrip, vars, registry, session
    <3>2. tripPc'[u] = "discarded" /\ TripFrame(u) /\ TripsOf(u)'
      BY <1>0, <3>1, SessionMoves DEF T!DiscardTrip, T!Goto
    <3>3. At(c, "leaving", NoMessage)
      BY <1>0, <3>1 DEF At, Matches
    <3>4. QED BY <1>4, <3>1, <3>2, <3>3, MatchesThen DEF u
  <2>2. CASE RemoveClient(c) /\ T!RemoveClient(u)
    <3>1. pc[c] = "leaving" /\ At(c, "none", NoMessage)
      BY <1>0, <2>2 DEF RemoveClient, Goto, At, Matches
    <3>2. tripPc'[u] = "offline" /\ TripFrame(u) /\ TripsOf(u)'
      BY <1>0, <2>2, SessionMoves DEF T!RemoveClient, T!Goto
    <3>3. Matches(c)' /\ Unattended(u)'
      BY <3>1, <3>2, MatchesThen DEF Unattended
    <3>4. QED BY <3>2, <3>3
  <2>3. QED BY <1>11, <2>1, <2>2 DEF EndSession, u
<1>12. Result
  BY <1>5, <1>6, <1>7, <1>8, <1>9, <1>10, <1>11 DEF Session
<1>13. /\ tripPc' \in [Users -> T!PC]
       /\ \A v \in Users \ {u} : tripPc'[v] = tripPc[v]
       /\ \A v \in Users : TripsOf(v)'
  <2>1. CASE TripFrame(u) /\ TripsOf(u)'
    <3>1. \A v \in Users \ {u} : TripsOf(v)'
      BY <2>1 DEF TripFrame, TripsOf, ServerIInv
    <3>2. QED BY <2>1, <3>1 DEF TripFrame
  <2>2. CASE UNCHANGED tripVars
    BY <2>2 DEF tripVars, TripsOf, ServerIInv
  <2>3. QED BY <1>12, <2>1, <2>2
<1>14. Alone(c)
  BY <1>1, <1>2, <1>13 DEF Alone, u
<1>15. QED BY <1>2, <1>12, <1>13, <1>14 DEF u

\* Away from the trips: the handshake, the backlog, the client and the console.
LEMMA ElsewhereMatches ==
    ASSUME ServerIInv, Elsewhere
    PROVE  /\ \A d \in Connections : Matches(d)'
           /\ \A u \in Users : Unattended(u)'
<1> USE MessagingAssumption DEF NoMessage
<1>0. /\ pc \in [Connections -> PC] /\ TypeOK /\ RegistryMatchesSessions
      /\ tripPc' = tripPc
      /\ \A d \in Connections : Matches(d)
      /\ \A u \in Users : Unattended(u)
  BY DEF ServerIInv, IInv, TypeOK, Elsewhere, tripVars
<1>1. CASE Console
  <2>1. pc' = pc /\ sending' = sending /\ clients' = clients
    BY <1>1 DEF Console, SaveDirect, LookUp, Offer, SaveBroadcast, Publish, registry, session
  <2>2. QED BY <1>0, <2>1 DEF Matches, Unattended
<1>2. ASSUME NEW c \in Connections, Client(c)
      PROVE  pc' = pc /\ sending' = sending /\ clients' = clients
  BY <1>2 DEF Client, ClientReceive, ClientAck, ClientRequest, ClientDrop, registry, session
<1>3. ASSUME NEW c \in Connections, FetchUnread(c) \/ SendUnread(c)
      PROVE  Matches(c)' /\ clients' = clients
  <2>1. /\ pc[c] \in {"fetching", "pending"} /\ pc'[c] = "pending"
        /\ sending' = sending /\ clients' = clients
    BY <1>0, <1>3 DEF FetchUnread, SendUnread, registry, Goto
  <2>2. tripPc[UserOf[c]] = "offline" /\ sending[c] = NoMessage
    BY <1>0, <2>1 DEF Matches
  <2>3. QED BY <1>0, <2>1, <2>2 DEF Matches
<1>4. ASSUME NEW c \in Connections, Handshake(c)
      PROVE  Matches(c)' /\ Unattended(UserOf[c])'
  <2>1. /\ sending' = sending /\ pc[c] \in {"none", "adding", "upgrading", "failed"}
        /\ pc'[c] \in {"none", "adding", "upgrading", "failed", "fetching"}
        /\ pc'[c] \in {"upgrading", "failed", "fetching"} =>
             UserOf[c] \notin DOMAIN clients \/ pc[c] \in {"upgrading", "failed"}
        /\ clients' = clients \/ pc'[c] = "upgrading" \/ pc[c] = "failed"
    BY <1>0, <1>4 DEF Handshake, Connect, AddClient, Abandon, Upgrade, UpgradeFails, RemoveFailed,
                      registry, Goto
  <2>2. sending[c] = NoMessage
    BY <1>0, <2>1 DEF Matches
  <2>3. pc[c] \in {"upgrading", "failed"} \/ UserOf[c] \notin DOMAIN clients
           => tripPc[UserOf[c]] = "offline"
    BY <1>0 DEF Matches, Unattended
  <2>4. Matches(c)'
    BY <1>0, <2>1, <2>2, <2>3 DEF Matches
  <2>5. Unattended(UserOf[c])'
    <3>1. CASE clients' = clients
      BY <1>0, <3>1 DEF Unattended
    <3>2. CASE pc'[c] = "upgrading" \/ pc[c] = "failed"
      BY <1>0, <2>1, <2>3, <3>2 DEF Unattended
    <3>3. QED BY <2>1, <3>1, <3>2
  <2>6. QED BY <2>4, <2>5
<1>5. ASSUME NEW c \in Connections, Handshake(c) \/ FetchUnread(c) \/ SendUnread(c)
      PROVE  /\ \A d \in Connections : Matches(d)'
             /\ \A u \in Users : Unattended(u)'
  <2>1. Alone(c)
    BY <1>0, <1>5, OtherConnections DEF Alone, Serve
  <2>2. Matches(c)' /\ Unattended(UserOf[c])'
    BY <1>0, <1>3, <1>4, <1>5 DEF Unattended
  <2>3. QED BY <1>0, <2>1, <2>2, OneSessionMoves
<1>6. ASSUME pc' = pc /\ sending' = sending /\ clients' = clients
      PROVE  /\ \A d \in Connections : Matches(d)'
             /\ \A u \in Users : Unattended(u)'
  BY <1>0, <1>6 DEF Matches, Unattended
<1>7. QED BY <1>1, <1>2, <1>5, <1>6 DEF Elsewhere

LEMMA ServerStep == ServerIInv /\ [ServerNext]_serverVars => ServerIInv'
<1> SUFFICES ASSUME ServerIInv, [ServerNext]_serverVars PROVE ServerIInv'
  OBVIOUS
<1>1. IInv'
  BY StepIsMessagingStep, NextIInv DEF ServerIInv
<1>2. ASSUME NEW c \in Connections, Session(c) PROVE ServerIInv'
  <2>1. /\ tripPc' \in [Users -> T!PC]
        /\ \A u \in Users : TripsOf(u)'
        /\ pc[c] \in Registered /\ Alone(c) /\ Matches(c)' /\ Unattended(UserOf[c])'
    BY <1>2, SessionMatches
  <2>2. /\ \A d \in Connections : Matches(d)'
        /\ \A u \in Users : Unattended(u)'
    BY <2>1, OneSessionMoves DEF ServerIInv, IInv
  <2>3. QED BY <1>1, <2>1, <2>2 DEF ServerIInv
<1>3. ASSUME Elsewhere PROVE ServerIInv'
  <2>1. tripPc' \in [Users -> T!PC] /\ \A u \in Users : TripsOf(u)'
    BY <1>3 DEF ServerIInv, TripsOf, Elsewhere, tripVars
  <2>2. QED BY <1>1, <1>3, <2>1, ElsewhereMatches DEF ServerIInv
<1>4. ASSUME Restart, T!Restart PROVE ServerIInv'
  <2>1. /\ tripPc' = [u \in Users |-> "offline"] /\ DOMAIN trips' = {} /\ DOMAIN tx' = {}
        /\ pc' = [c \in Connections |-> "none"] /\ sending' = [c \in Connections |-> NoMessage]
    BY <1>4, NoDomain DEF Restart, T!Restart
  <2>2. tripPc' \in [Users -> T!PC]
    BY <2>1 DEF T!PC
  <2>3. QED BY <1>1, <2>1, <2>2, MessagingAssumption DEF ServerIInv, TripsOf, Matches, Unattended
<1>5. ASSUME UNCHANGED serverVars PROVE ServerIInv'
  BY <1>1, <1>5 DEF ServerIInv, TripsOf, Matches, Unattended, serverVars, vars, registry, session,
                    tripVars
<1>6. QED BY <1>2, <1>3, <1>4, <1>5 DEF ServerNext

LEMMA ServerInitially == ServerInit => ServerIInv
<1> SUFFICES ASSUME ServerInit PROVE ServerIInv
  OBVIOUS
<1>1. /\ tripPc = [u \in Users |-> "offline"] /\ DOMAIN trips = {} /\ DOMAIN tx = {}
      /\ pc = [c \in Connections |-> "none"] /\ sending = [c \in Connections |-> NoMessage]
  BY NoDomain DEF ServerInit, Init, T!Init
<1>2. tripPc \in [Users -> T!PC]
  BY <1>1 DEF T!PC
<1>3. QED BY <1>1, <1>2, InitIInv, MessagingAssumption
          DEF ServerInit, ServerIInv, TripsOf, Matches, Unattended

(* The registry and the trips agree: a user whose connection is being opened *)
(* has no trip and no save of an older one, and a user who has a trip, a     *)
(* save or a session is registered with the connection that drives it        *)
(* (main.rs:342-348), for every number of users and connections.             *)
THEOREM RegistryAndTripsAgree == ServerSpec => []SessionsAgree
<1>1. ASSUME ServerIInv PROVE SessionsAgree
  <2>1. ASSUME NEW c \in Connections, pc[c] \in {"upgrading", "failed", "fetching", "pending"}
        PROVE  tripPc[UserOf[c]] = "offline"
    BY <1>1, <2>1 DEF ServerIInv, Matches
  <2>2. ASSUME NEW u \in Users, tripPc[u] # "offline" \/ u \in DOMAIN trips \/ u \in DOMAIN tx
        PROVE  /\ u \in DOMAIN clients
               /\ tripPc[u] \in Busy <=>
                    pc[clients[u]] = "sending" /\ sending[clients[u]] = NoMessage
               /\ tripPc[u] = "discarded" => pc[clients[u]] = "leaving"
    <3>1. tripPc[u] # "offline"
      BY <1>1, <2>2 DEF ServerIInv, TripsOf
    <3>2. u \in DOMAIN clients
      BY <1>1, <3>1 DEF ServerIInv, Unattended
    <3>3. PICK c \in Connections : c = clients[u] /\ UserOf[c] = u /\ pc[c] \in Registered
      BY <1>1, <3>2 DEF ServerIInv, IInv, TypeOK, RegistryMatchesSessions
    <3>4. pc[c] \in {"upgrading", "failed", "fetching", "pending", "looping", "sending", "leaving"}
      BY <3>3 DEF Registered, PC
    <3>5. Matches(c)
      BY <1>1 DEF ServerIInv
    <3>6. QED BY <3>1, <3>2, <3>3, <3>4, <3>5 DEF Matches, Busy
  <2>3. QED BY <2>1, <2>2 DEF SessionsAgree
<1>2. QED BY <1>1, ServerInitially, ServerStep, PTL DEF ServerSpec
=============================================================================
