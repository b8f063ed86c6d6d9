-------------------------- MODULE MessagingProofs --------------------------
(***************************************************************************)
(* Proofs about Messaging, for every set of users and connections, every   *)
(* capacity and every number of messages, failures and restarts.           *)
(***************************************************************************)
EXTENDS Messaging, SequenceTheorems, FunctionTheorems, FiniteSetTheorems, TLAPS

Items(list) == {list[i] : i \in 1 .. Len(list)}

Direct(id) == messages[id].recipient # NoUser

(* The console holds the registry from the moment it found the recipient     *)
(* until its message is in the channel: remove_client waits for it.          *)
Offering ==
    /\ guard <=> console.at = "offering"
    /\ console.at = "offering" => messages[console.id].recipient \in DOMAIN clients

(* A row has a recipient when it is a direct message, and the row the        *)
(* console works on is of the kind it is working for.                        *)
RowsOK ==
    /\ \A id \in Ids : messages[id].kind = "direct" <=> messages[id].recipient \in Users
    /\ \A id \in Ids : messages[id].is_read =>
          Direct(id) /\ << messages[id].recipient, id >> \in seen
    /\ console.at = "idle" => console.id = 0
    /\ console.at \in {"saved", "offering"} => messages[console.id].recipient \in Users
    /\ console.at = "publishing" => messages[console.id].recipient = NoUser

Mine(c) == {id \in Ids : messages[id].recipient = UserOf[c]}

Public == {id \in Ids : messages[id].recipient = NoUser}

Shown(c) == {id \in Mine(c) : << UserOf[c], id >> \in seen}

(* Whatever is on its way to a client is for it or for all; whatever it      *)
(* acknowledges was shown to its user.                                       *)
DeliveryOK(c) ==
    /\ Items(backlog[c]) \subseteq Mine(c)
    /\ Items(queue[c]) \subseteq Mine(c)
    /\ Items(feed[c]) \subseteq Public
    /\ sending[c] \in {NoMessage} \cup Mine(c) \cup Public
    /\ Items(outgoing[c]) \subseteq {NoMessage} \cup Mine(c) \cup Public
    /\ acking[c] \in {0} \cup Shown(c)
    /\ Items(incoming[c]) \subseteq {NoMessage} \cup Shown(c)

(* The query comes before the loop: a session without it has none to rely on.*)
NotYetFetched ==
    \A c \in Connections : pc[c] \in {"upgrading", "failed", "fetching"} => ~fetched[c]

IInv ==
    /\ TypeOK
    /\ RegistryMatchesSessions
    /\ Offering
    /\ RowsOK
    /\ \A c \in Connections : DeliveryOK(c)
    /\ NotYetFetched
    /\ NoMissedDirect
-----------------------------------------------------------------------------
LEMMA AppendItems ==
    ASSUME NEW S, NEW s \in Seq(S), NEW e \in S
    PROVE  /\ Append(s, e) \in Seq(S)
           /\ Len(s) \in Nat /\ Len(Append(s, e)) = Len(s) + 1
           /\ Items(Append(s, e)) = Items(s) \cup {e}
<1>1. /\ Append(s, e) \in Seq(S) /\ Len(s) \in Nat /\ Len(Append(s, e)) = Len(s) + 1
      /\ \A i \in 1 .. Len(s) : Append(s, e)[i] = s[i]
      /\ Append(s, e)[Len(s) + 1] = e
  BY AppendProperties, LenProperties
<1>2. 1 .. Len(s) + 1 = 1 .. Len(s) \cup {Len(s) + 1}
  BY <1>1
<1>3. \A x : x \in Items(Append(s, e)) <=> x \in Items(s) \/ x = e
  BY <1>1, <1>2 DEF Items
<1>4. QED BY <1>1, <1>3

LEMMA TailItems ==
    ASSUME NEW S, NEW s \in Seq(S), s # << >>
    PROVE  /\ Head(s) \in S /\ Head(s) \in Items(s)
           /\ Tail(s) \in Seq(S)
           /\ Len(s) \in Nat \ {0} /\ Len(Tail(s)) = Len(s) - 1
           /\ Items(Tail(s)) \subseteq Items(s)
<1>1. Len(s) \in Nat \ {0}
  BY EmptySeq, LenProperties
<1>2. /\ Tail(s) \in Seq(S) /\ Len(Tail(s)) = Len(s) - 1
      /\ \A i \in 1 .. Len(Tail(s)) : Tail(s)[i] = s[i + 1]
      /\ Head(s) = s[1] /\ Head(s) \in S
  BY <1>1, HeadTailProperties
<1>3. Head(s) \in Items(s)
  BY <1>1, <1>2 DEF Items
<1>4. \A i \in 1 .. Len(Tail(s)) : i + 1 \in 1 .. Len(s)
  BY <1>1, <1>2
<1>5. QED BY <1>1, <1>2, <1>3, <1>4 DEF Items

LEMMA NoItems == Items(<< >>) = {} /\ << >> \in Seq(Nat) /\ Len(<< >>) = 0
BY EmptySeq DEF Items

LEMMA NoDomain == DOMAIN << >> = {}
<1>1. DOMAIN << >> = 1 .. 0
  BY NoItems, LenProperties
<1>2. QED BY <1>1

(* The variables of one connection.                                          *)
LEMMA ConnectionFields ==
    ASSUME TypeOK, NEW c \in Connections
    PROVE  /\ UserOf[c] \in Users
           /\ pc[c] \in PC
           /\ backlog[c] \in Seq(Nat) /\ queue[c] \in Seq(Nat) /\ feed[c] \in Seq(Nat)
           /\ outgoing[c] \in Seq(Nat) /\ incoming[c] \in Seq(Nat)
           /\ sending[c] \in Nat /\ acking[c] \in Nat /\ heard[c] \in Nat
           /\ fetched[c] \in BOOLEAN /\ handed[c] \subseteq Nat
           /\ link[c] \in {"up", "closing", "down"}
BY MessagingAssumption DEF TypeOK

(* The list of unread messages is one of ids of the user, all of them.       *)
LEMMA UnreadListed ==
    ASSUME TypeOK, NEW c \in Connections, NEW list \in InOrder(Unread(UserOf[c]))
    PROVE  /\ list \in Seq(Nat)
           /\ Items(list) = Unread(UserOf[c])
<1> DEFINE S == Unread(UserOf[c])
           n == Cardinality(S)
<1>1. Len(messages) \in Nat /\ S \subseteq 1 .. Len(messages) /\ S \subseteq Nat
  BY LenProperties DEF TypeOK, Unread
<1>2. /\ list \in [1 .. n -> S]
      /\ \A i, j \in DOMAIN list : i < j => list[i] < list[j]
  BY DEF InOrder
<1>3. IsFiniteSet(S)
  <2> HIDE DEF S
  <2>1. IsFiniteSet(1 .. Len(messages))
    BY <1>1, FS_Interval
  <2>2. QED BY <1>1, <2>1, FS_Subset
<1>4. n \in Nat
  <2> HIDE DEF S
  <2>1. QED BY <1>3, FS_CardinalityType
<1> HIDE DEF S, n
<1>5. DOMAIN list = 1 .. n /\ list \in [1 .. n -> Nat] /\ \A i \in 1 .. n : list[i] \in S
  BY <1>1, <1>2
<1>6. list \in Seq(Nat) /\ Len(list) = n
  BY <1>4, <1>5
<1>7. \A i, j \in 1 .. n : list[i] = list[j] => i = j
  <2> SUFFICES ASSUME NEW i \in 1 .. n, NEW j \in 1 .. n, list[i] = list[j]
               PROVE  i = j
    OBVIOUS
  <2>1. list[i] \in Nat /\ list[j] \in Nat /\ i \in Int /\ j \in Int
    BY <1>1, <1>4, <1>5
  <2>2. ~(i < j) /\ ~(j < i)
    BY <1>2, <1>5, <2>1
  <2>3. QED BY <2>1, <2>2
<1>8. list \in Injection(1 .. n, S)
  BY <1>2, <1>7, Fun_IsInj
<1>9. list \in Surjection(1 .. n, S)
  <2>1. IsFiniteSet(1 .. n) /\ Cardinality(1 .. n) = n
    BY <1>4, FS_Interval
  <2>2. QED BY <1>3, <1>8, <2>1, FS_Injection DEF n
<1>10. Items(list) = S
  <2>1. \A x \in S : \E i \in 1 .. n : list[i] = x
    BY <1>9 DEF Surjection
  <2>2. QED BY <1>5, <1>6, <2>1 DEF Items
<1>11. QED BY <1>6, <1>10 DEF S

(* The table when a row is marked as read.                                   *)
LEMMA MarkedType ==
    ASSUME TypeOK, NEW id \in Ids
    PROVE  /\ [messages EXCEPT ![id].is_read = TRUE] \in Seq(MessageType)
           /\ Len([messages EXCEPT ![id].is_read = TRUE]) = Len(messages)
           /\ messages[id] \in MessageType
           /\ [messages EXCEPT ![id].is_read = TRUE][id]
                = [kind |-> messages[id].kind, recipient |-> messages[id].recipient,
                   is_read |-> TRUE]
           /\ \A other \in Ids \ {id} :
                [messages EXCEPT ![id].is_read = TRUE][other] = messages[other]
<1> DEFINE marked == [messages[id] EXCEPT !.is_read = TRUE]
<1>1. /\ Len(messages) \in Nat /\ DOMAIN messages = Ids
      /\ messages[id] \in MessageType
      /\ messages \in Seq(MessageType)
  BY LenProperties DEF TypeOK, Ids
<1>2. /\ marked = [kind |-> messages[id].kind, recipient |-> messages[id].recipient,
                   is_read |-> TRUE]
      /\ marked \in MessageType
  <2> DEFINE row == [kind |-> messages[id].kind, recipient |-> messages[id].recipient,
                     is_read |-> TRUE]
  <2>1. row \in MessageType
    BY <1>1 DEF MessageType
  <2>2. /\ marked \in MessageType
        /\ marked.kind = messages[id].kind /\ marked.recipient = messages[id].recipient
        /\ marked.is_read = TRUE
    BY <1>1 DEF MessageType
  <2>3. \A m, k \in MessageType :
            m.kind = k.kind /\ m.recipient = k.recipient /\ m.is_read = k.is_read => m = k
    BY DEF MessageType
  <2>4. QED BY <2>1, <2>2, <2>3
<1>3. [messages EXCEPT ![id].is_read = TRUE] = [messages EXCEPT ![id] = marked]
  OBVIOUS
<1> HIDE DEF marked
<1>4. /\ [messages EXCEPT ![id] = marked] \in Seq(MessageType)
      /\ Len([messages EXCEPT ![id] = marked]) = Len(messages)
      /\ \A other \in 1 .. Len(messages) :
            [messages EXCEPT ![id] = marked][other] = IF other = id THEN marked ELSE messages[other]
  BY <1>1, <1>2, ExceptSeq DEF Ids
<1>5. QED BY <1>1, <1>2, <1>3, <1>4 DEF Ids
-----------------------------------------------------------------------------
(* The type invariant in three parts: what there is once, what there is of   *)
(* each connection, and the channels with their capacities.                  *)
Channel(q, cap) ==
    /\ q \in [Connections -> Seq(Nat)]
    /\ \A c \in Connections : Len(q[c]) <= cap

Shared ==
    /\ DOMAIN clients \subseteq Users
    /\ \A u \in DOMAIN clients : clients[u] \in Connections
    /\ guard \in BOOLEAN
    /\ console \in [at : {"idle", "saved", "offering", "publishing"}, id : Nat]
    /\ console.at # "idle" => console.id \in Ids
    /\ messages \in Seq(MessageType)
    /\ failures \in Nat /\ restarts \in Nat
    /\ seen \subseteq Users \X Nat

Slots ==
    /\ pc \in [Connections -> PC]
    /\ backlog \in [Connections -> Seq(Nat)]
    /\ sending \in [Connections -> Nat]
    /\ link \in [Connections -> {"up", "closing", "down"}]
    /\ acking \in [Connections -> Nat]
    /\ fetched \in [Connections -> BOOLEAN]
    /\ handed \in [Connections -> SUBSET Nat]
    /\ heard \in [Connections -> Nat]

Channels ==
    /\ Channel(queue, QueueCap) /\ Channel(feed, FeedCap)
    /\ Channel(outgoing, SocketCap) /\ Channel(incoming, IncomingCap)

LEMMA TypeParts == TypeOK <=> Shared /\ Slots /\ Channels
BY DEF TypeOK, Shared, Slots, Channels, Channel

LEMMA NextTypeParts == TypeOK' <=> Shared' /\ Slots' /\ Channels'
BY DEF TypeOK, Shared, Slots, Channels, Channel

LEMMA ChannelEmptied ==
    ASSUME NEW cap \in Nat, NEW q, Channel(q, cap), NEW c \in Connections
    PROVE  Channel([q EXCEPT ![c] = << >>], cap)
BY NoItems DEF Channel

LEMMA ChannelRead ==
    ASSUME NEW cap \in Nat, NEW q, Channel(q, cap), NEW c \in Connections, q[c] # << >>
    PROVE  Channel([q EXCEPT ![c] = Tail(q[c])], cap)
<1>1. /\ Tail(q[c]) \in Seq(Nat) /\ Len(q[c]) \in Nat /\ Len(Tail(q[c])) = Len(q[c]) - 1
  BY TailItems DEF Channel
<1>2. QED BY <1>1 DEF Channel

LEMMA ChannelWritten ==
    ASSUME NEW cap \in Nat, NEW q, Channel(q, cap), NEW c \in Connections,
           NEW id \in Nat, Len(q[c]) < cap
    PROVE  Channel([q EXCEPT ![c] = Append(q[c], id)], cap)
<1>1. /\ Append(q[c], id) \in Seq(Nat) /\ Len(q[c]) \in Nat
      /\ Len(Append(q[c], id)) = Len(q[c]) + 1
  BY AppendItems DEF Channel
<1>2. QED BY <1>1 DEF Channel
-----------------------------------------------------------------------------
LEMMA HandshakeKeepsTypes ==
    ASSUME TypeOK, NEW c \in Connections, Handshake(c)
    PROVE  TypeOK'
<1> USE MessagingAssumption, NextTypeParts
<1>0. Shared /\ Slots /\ Channels
  BY TypeParts
<1>1. CASE Connect(c)
  BY <1>0, <1>1 DEF Shared, Slots, Channels, Channel, Connect, Goto, registry, socket, history, PC, Ids
<1>2. CASE AddClient(c)
  <2>1. Channels'
    BY <1>0, <1>2, ChannelEmptied DEF Channels, AddClient, socket
  <2>2. Slots'
    <3>1. pc' \in [Connections -> PC]
      BY <1>0, <1>2 DEF Slots, AddClient, Goto, PC
    <3>2. fetched' \in [Connections -> BOOLEAN]
      BY <1>0, <1>2 DEF Slots, AddClient
    <3>3. handed' \in [Connections -> SUBSET Nat]
      <4>1. handed \in [Connections -> SUBSET Nat]
        BY <1>0 DEF Slots
      <4>2. handed' = handed \/ handed' = [handed EXCEPT ![c] = {}]
        BY <1>2 DEF AddClient
      <4>3. QED BY <4>1, <4>2
    <3>4. heard' \in [Connections -> Nat]
      <4>1. heard \in [Connections -> Nat]
        BY <1>0 DEF Slots
      <4>2. heard' = heard \/ heard' = [heard EXCEPT ![c] = 0]
        BY <1>2 DEF AddClient
      <4>3. QED BY <4>1, <4>2
    <3>5. QED BY <1>0, <1>2, <3>1, <3>2, <3>3, <3>4 DEF Slots, AddClient, socket
  <2>3. Shared'
    BY <1>0, <1>2 DEF Shared, AddClient, Put, Ids
  <2>4. QED BY <2>1, <2>2, <2>3
<1>3. CASE Abandon(c)
  BY <1>0, <1>3 DEF Shared, Slots, Channels, Channel, Abandon, Goto, registry, socket, history, PC, Ids
<1>4. CASE Upgrade(c)
  <2>1. Channels'
    BY <1>0, <1>4, ChannelEmptied DEF Channels, Upgrade
  <2>2. Slots'
    BY <1>0, <1>4 DEF Slots, Upgrade, Goto, history, PC
  <2>3. Shared'
    BY <1>0, <1>4 DEF Shared, Upgrade, registry, history, Ids
  <2>4. QED BY <2>1, <2>2, <2>3
<1>5. CASE UpgradeFails(c)
  BY <1>0, <1>5 DEF Shared, Slots, Channels, Channel, UpgradeFails, Goto, registry, socket, history, PC, Ids
<1>6. CASE RemoveFailed(c)
  <2>1. Channels'
    BY <1>0, <1>6, ChannelEmptied DEF Channels, RemoveFailed, socket
  <2>2. Slots'
    BY <1>0, <1>6 DEF Slots, RemoveFailed, Goto, socket, history, PC
  <2>3. Shared'
    BY <1>0, <1>6 DEF Shared, RemoveFailed, Drop, history, Ids
  <2>4. QED BY <2>1, <2>2, <2>3
<1>7. QED BY <1>1, <1>2, <1>3, <1>4, <1>5, <1>6 DEF Handshake

(* A write to the socket, when what is written is a message.                 *)
LEMMA WriteKeepsChannel ==
    ASSUME Channel(outgoing, SocketCap), NEW c \in Connections, NEW id \in Nat, WriteTo(c, id)
    PROVE  Channel(outgoing', SocketCap)
<1>1. CASE outgoing' = outgoing
  BY <1>1
<1>2. CASE Len(outgoing[c]) < SocketCap /\ outgoing' = [outgoing EXCEPT ![c] = Append(outgoing[c], id)]
  BY <1>2, ChannelWritten, MessagingAssumption
<1>3. QED BY <1>1, <1>2 DEF WriteTo

LEMMA ServeKeepsTypes ==
    ASSUME TypeOK, NEW c \in Connections, Serve(c)
    PROVE  TypeOK'
<1> USE MessagingAssumption, NextTypeParts
<1>0. Shared /\ Slots /\ Channels
  BY TypeParts
<1>a. /\ backlog[c] \in Seq(Nat) /\ queue[c] \in Seq(Nat) /\ feed[c] \in Seq(Nat)
      /\ incoming[c] \in Seq(Nat) /\ sending[c] \in Nat
  BY ConnectionFields
<1>b. \A s \in Seq(Nat) : s # << >> => Head(s) \in Nat /\ Tail(s) \in Seq(Nat)
  BY TailItems
<1>1. CASE FetchUnread(c)
  <2>1. Channels'
    BY <1>0, <1>1 DEF Channels, FetchUnread, socket
  <2>2. Slots'
    <3>1. \A list \in InOrder(Unread(UserOf[c])) : list \in Seq(Nat)
      BY UnreadListed
    <3>2. backlog' \in [Connections -> Seq(Nat)]
      BY <1>0, <1>1, <3>1 DEF Slots, FetchUnread
    <3>3. Unread(UserOf[c]) \subseteq Nat /\ handed[c] \subseteq Nat
      BY <1>0, LenProperties DEF Unread, Slots, Shared
    <3>4. handed' \in [Connections -> SUBSET Nat]
      BY <1>0, <1>1, <3>3 DEF Slots, FetchUnread
    <3>5. QED BY <1>0, <1>1, <3>2, <3>4 DEF Slots, FetchUnread, Goto, socket, PC
  <2>3. Shared'
    BY <1>0, <1>1 DEF Shared, FetchUnread, registry, Ids
  <2>4. QED BY <2>1, <2>2, <2>3
<1>2. CASE FetchFails(c)
  BY <1>0, <1>2 DEF Shared, Slots, Channels, FetchFails, Goto, registry, socket, history, PC, Ids
<1>3. CASE SendUnread(c)
  <2>1. Channels'
    BY <1>0, <1>3, <1>a, <1>b, WriteKeepsChannel DEF Channels, SendUnread
  <2>2. Slots'
    BY <1>0, <1>3, <1>a, <1>b DEF Slots, SendUnread, history
  <2>3. Shared'
    BY <1>0, <1>3 DEF Shared, SendUnread, registry, history, Ids
  <2>4. QED BY <2>1, <2>2, <2>3
<1>4. CASE EnterLoop(c)
  BY <1>0, <1>4 DEF Shared, Slots, Channels, EnterLoop, Goto, registry, socket, history, PC, Ids
<1>5. CASE ReceiveAck(c)
  <2>1. Channels'
    BY <1>0, <1>5, ChannelRead DEF Channels, ReceiveAck, session
  <2>2. Slots'
    BY <1>0, <1>5 DEF Slots, ReceiveAck, session, history
  <2>3. messages' \in Seq(MessageType) /\ Len(messages') = Len(messages)
    <3>1. \/ messages' = messages
          \/ \E id \in Ids : messages' = [messages EXCEPT ![id].is_read = TRUE]
      BY <1>5 DEF ReceiveAck, MarkAsRead, Ids
    <3>2. CASE messages' = messages
      BY <1>0, <3>2 DEF Shared
    <3>3. CASE \E id \in Ids : messages' = [messages EXCEPT ![id].is_read = TRUE]
      <4>1. PICK id \in Ids : messages' = [messages EXCEPT ![id].is_read = TRUE]
        BY <3>3
      <4>2. QED BY <4>1, MarkedType
    <3>4. QED BY <3>1, <3>2, <3>3
  <2>4. Shared'
    BY <1>0, <1>5, <2>3 DEF Shared, ReceiveAck, registry, history, Ids
  <2>5. QED BY <2>1, <2>2, <2>4
<1>6. CASE TakeRequest(c)
  <2>1. Channels'
    BY <1>0, <1>6, ChannelRead DEF Channels, TakeRequest
  <2>2. Slots'
    BY <1>0, <1>6 DEF Slots, TakeRequest, Goto, history, PC
  <2>3. Shared'
    BY <1>0, <1>6 DEF Shared, TakeRequest, registry, history, Ids
  <2>4. QED BY <2>1, <2>2, <2>3
<1>7. CASE TakeDirect(c)
  <2>1. Channels'
    BY <1>0, <1>7, ChannelRead DEF Channels, TakeDirect, socket
  <2>2. Slots'
    BY <1>0, <1>7, <1>a, <1>b DEF Slots, TakeDirect, Goto, socket, history, PC
  <2>3. Shared'
    BY <1>0, <1>7 DEF Shared, TakeDirect, registry, history, Ids
  <2>4. QED BY <2>1, <2>2, <2>3
<1>8. CASE TakeBroadcast(c)
  <2>1. Channels'
    BY <1>0, <1>8, ChannelRead DEF Channels, TakeBroadcast, socket
  <2>2. Slots'
    BY <1>0, <1>8, <1>a, <1>b DEF Slots, TakeBroadcast, Goto, socket, history, PC
  <2>3. Shared'
    BY <1>0, <1>8 DEF Shared, TakeBroadcast, registry, history, Ids
  <2>4. QED BY <2>1, <2>2, <2>3
<1>9. CASE WriteMessage(c)
  <2>1. Channels'
    BY <1>0, <1>9, <1>a, WriteKeepsChannel DEF Channels, WriteMessage
  <2>2. Slots'
    BY <1>0, <1>9 DEF Slots, WriteMessage, Goto, NoMessage, history, PC
  <2>3. Shared'
    BY <1>0, <1>9 DEF Shared, WriteMessage, registry, history, Ids
  <2>4. QED BY <2>1, <2>2, <2>3
<1>10. CASE WriteFails(c)
  BY <1>0, <1>10 DEF Shared, Slots, Channels, WriteFails, Goto, NoMessage, registry, socket, history, PC, Ids
<1>11. CASE LeaveLoop(c)
  BY <1>0, <1>11 DEF Shared, Slots, Channels, LeaveLoop, Goto, registry, socket, history, PC, Ids
<1>12. CASE RemoveClient(c)
  <2>1. Channels'
    BY <1>0, <1>12, ChannelEmptied DEF Channels, RemoveClient
  <2>2. Slots'
    BY <1>0, <1>12 DEF Slots, RemoveClient, Goto, history, PC
  <2>3. Shared'
    BY <1>0, <1>12 DEF Shared, RemoveClient, Drop, history, Ids
  <2>4. QED BY <2>1, <2>2, <2>3
<1>13. QED
  BY <1>1, <1>2, <1>3, <1>4, <1>5, <1>6, <1>7, <1>8, <1>9, <1>10, <1>11, <1>12 DEF Serve

LEMMA ClientKeepsTypes ==
    ASSUME TypeOK, NEW c \in Connections, Client(c)
    PROVE  TypeOK'
<1> USE MessagingAssumption, NextTypeParts
<1>0. Shared /\ Slots /\ Channels
  BY TypeParts
<1>a. outgoing[c] \in Seq(Nat) /\ acking[c] \in Nat /\ UserOf[c] \in Users
  BY ConnectionFields
<1>1. CASE ClientReceive(c)
  <2>1. Channels'
    BY <1>0, <1>1, ChannelRead DEF Channels, ClientReceive, session
  <2>2. Head(outgoing[c]) \in Nat
    BY <1>1, <1>a, TailItems DEF ClientReceive
  <2>3. Slots'
    <3>1. acking' \in [Connections -> Nat]
      <4>1. acking' = acking \/ acking' = [acking EXCEPT ![c] = Head(outgoing[c])]
        BY <1>1 DEF ClientReceive
      <4>2. QED BY <1>0, <4>1, <2>2 DEF Slots
    <3>2. heard' \in [Connections -> Nat]
      <4>1. heard' = heard \/ heard' = [heard EXCEPT ![c] = Head(outgoing[c])]
        BY <1>1 DEF ClientReceive
      <4>2. QED BY <1>0, <4>1, <2>2 DEF Slots
    <3>3. QED BY <1>0, <1>1, <3>1, <3>2 DEF Slots, ClientReceive, session
  <2>4. Shared'
    <3>1. seen' = seen \/ seen' = seen \cup {<< UserOf[c], Head(outgoing[c]) >>}
      BY <1>1 DEF ClientReceive
    <3>2. seen' \subseteq Users \X Nat
      BY <1>0, <1>a, <2>2, <3>1 DEF Shared
    <3>3. QED BY <1>0, <1>1, <3>2 DEF Shared, ClientReceive, registry, Ids
  <2>5. QED BY <2>1, <2>3, <2>4
<1>2. CASE ClientAck(c)
  <2>1. Channels'
    <3>1. \/ incoming' = incoming
          \/ /\ Len(incoming[c]) < IncomingCap
             /\ incoming' = [incoming EXCEPT ![c] = Append(incoming[c], acking[c])]
      BY <1>2 DEF ClientAck
    <3>2. Channel(incoming', IncomingCap)
      <4>1. Channel(incoming, IncomingCap)
        BY <1>0 DEF Channels
      <4>2. CASE incoming' = incoming
        BY <4>1, <4>2
      <4>3. CASE /\ Len(incoming[c]) < IncomingCap
                 /\ incoming' = [incoming EXCEPT ![c] = Append(incoming[c], acking[c])]
        BY <1>a, <4>1, <4>3, ChannelWritten
      <4>4. QED BY <3>1, <4>2, <4>3
    <3>3. QED BY <1>0, <1>2, <3>2 DEF Channels, ClientAck, session
  <2>2. Slots'
    BY <1>0, <1>2 DEF Slots, ClientAck, session, history
  <2>3. Shared'
    BY <1>0, <1>2 DEF Shared, ClientAck, registry, history, Ids
  <2>4. QED BY <2>1, <2>2, <2>3
<1>3. CASE ClientRequest(c)
  <2>1. Channels'
    <3>1. Channel(incoming, IncomingCap) /\ NoMessage \in Nat
      BY <1>0 DEF Channels, NoMessage
    <3>2. /\ Len(incoming[c]) < IncomingCap
          /\ incoming' = [incoming EXCEPT ![c] = Append(incoming[c], NoMessage)]
      BY <1>3 DEF ClientRequest
    <3>3. Channel(incoming', IncomingCap)
      BY <3>1, <3>2, ChannelWritten
    <3>4. QED BY <1>0, <1>3, <3>3 DEF Channels, ClientRequest, session
  <2>2. Slots'
    BY <1>0, <1>3 DEF Slots, ClientRequest, session, history
  <2>3. Shared'
    BY <1>0, <1>3 DEF Shared, ClientRequest, registry, history, Ids
  <2>4. QED BY <2>1, <2>2, <2>3
<1>4. CASE ClientDrop(c)
  <2>1. Channels'
    BY <1>0, <1>4, ChannelEmptied DEF Channels, ClientDrop, session
  <2>2. Slots'
    BY <1>0, <1>4 DEF Slots, ClientDrop, session, history
  <2>3. Shared'
    BY <1>0, <1>4 DEF Shared, ClientDrop, registry, history, Ids
  <2>4. QED BY <2>1, <2>2, <2>3
<1>5. QED BY <1>1, <1>2, <1>3, <1>4 DEF Client

(* What the console appends to the table.                                    *)
LEMMA SavedType ==
    ASSUME TypeOK, NEW k \in {"direct", "broadcast"}, NEW r \in Users \cup {NoUser}, Save(k, r)
    PROVE  /\ messages' \in Seq(MessageType)
           /\ Len(messages') = Len(messages) + 1
           /\ \A id \in Ids : messages'[id] = messages[id]
           /\ messages'[Len(messages) + 1] = [kind |-> k, recipient |-> r, is_read |-> FALSE]
<1>1. [kind |-> k, recipient |-> r, is_read |-> FALSE] \in MessageType
  BY DEF MessageType
<1>2. messages \in Seq(MessageType)
  BY DEF TypeOK
<1> HIDE DEF MessageType
<1>3. QED BY <1>1, <1>2, AppendProperties DEF Save, Ids

ConsoleType == [at : {"idle", "saved", "offering", "publishing"}, id : Nat]

LEMMA IdleType == Idle \in ConsoleType /\ Idle.at = "idle" /\ Idle.id = 0
BY DEF ConsoleType, Idle

LEMMA OfferingType ==
    ASSUME NEW step \in ConsoleType
    PROVE  /\ [step EXCEPT !.at = "offering"] \in ConsoleType
           /\ [step EXCEPT !.at = "offering"].at = "offering"
           /\ [step EXCEPT !.at = "offering"].id = step.id
BY DEF ConsoleType

LEMMA ConsoleKeepsTypes ==
    ASSUME TypeOK, Offering, Console
    PROVE  TypeOK'
<1> USE MessagingAssumption, NextTypeParts
<1>0. Shared /\ Slots /\ Channels
  BY TypeParts
<1>a. Len(messages) \in Nat
  BY LenProperties DEF TypeOK
<1>1. ASSUME NEW u \in Users, SaveDirect(u) PROVE TypeOK'
  <2>1. messages' \in Seq(MessageType) /\ Len(messages') = Len(messages) + 1
    BY <1>1, SavedType DEF SaveDirect
  <2>2. Shared'
    BY <1>0, <1>1, <1>a, <2>1 DEF Shared, SaveDirect, registry, history, Ids
  <2>3. Slots' /\ Channels'
    BY <1>0, <1>1 DEF Slots, Channels, SaveDirect, session, socket, history
  <2>4. QED BY <2>2, <2>3
<1>2. CASE LookUp
  <2>1. Shared'
    <3>1. /\ console' \in ConsoleType
          /\ console'.at # "idle" => console'.id \in Ids
      <4>1. console \in ConsoleType /\ console.id \in Ids
        BY <1>0, <1>2 DEF Shared, ConsoleType, LookUp
      <4>2. console' = Idle \/ console' = [console EXCEPT !.at = "offering"]
        BY <1>2 DEF LookUp
      <4>3. QED BY <4>1, <4>2, IdleType, OfferingType
    <3>2. QED BY <1>0, <1>2, <3>1 DEF Shared, LookUp, ConsoleType, history, Ids
  <2>2. Slots' /\ Channels'
    BY <1>0, <1>2 DEF Slots, Channels, LookUp, session, socket, history
  <2>3. QED BY <2>1, <2>2
<1>3. CASE Offer
  <2> DEFINE c == clients[messages[console.id].recipient]
  <2>1. c \in Connections /\ console.id \in Nat
    BY <1>0, <1>3 DEF Shared, Offer, Offering
  <2>2. \/ UNCHANGED << queue, handed >>
        \/ /\ Len(queue[c]) < QueueCap
           /\ queue' = [queue EXCEPT ![c] = Append(queue[c], console.id)]
           /\ handed' = [handed EXCEPT ![c] = handed[c] \cup {console.id}]
    BY <1>3 DEF Offer
  <2> HIDE DEF c
  <2>3. Channel(queue', QueueCap)
    <3>1. Channel(queue, QueueCap)
      BY <1>0 DEF Channels
    <3>2. CASE queue' = queue
      BY <3>1, <3>2
    <3>3. CASE Len(queue[c]) < QueueCap /\ queue' = [queue EXCEPT ![c] = Append(queue[c], console.id)]
      BY <2>1, <3>1, <3>3, ChannelWritten
    <3>4. QED BY <2>2, <3>2, <3>3
  <2>4. handed' \in [Connections -> SUBSET Nat]
    <3>1. handed \in [Connections -> SUBSET Nat]
      BY <1>0 DEF Slots
    <3>2. handed[c] \cup {console.id} \in SUBSET Nat
      BY <2>1, <3>1
    <3>3. QED BY <2>1, <2>2, <3>1, <3>2
  <2>5. Shared'
    BY <1>0, <1>3 DEF Shared, Offer, Idle, Ids
  <2>6. Slots'
    BY <1>0, <1>3, <2>4 DEF Slots, Offer, socket
  <2>7. Channels'
    BY <1>0, <1>3, <2>3 DEF Channels, Offer, socket
  <2>8. QED BY <2>5, <2>6, <2>7
<1>4. CASE SaveBroadcast
  <2>1. messages' \in Seq(MessageType) /\ Len(messages') = Len(messages) + 1
    BY <1>4, SavedType DEF SaveBroadcast
  <2>2. Shared'
    BY <1>0, <1>4, <1>a, <2>1 DEF Shared, SaveBroadcast, registry, history, Ids
  <2>3. Slots' /\ Channels'
    BY <1>0, <1>4 DEF Slots, Channels, SaveBroadcast, session, socket, history
  <2>4. QED BY <2>2, <2>3
<1>5. CASE Publish
  <2>1. console.id \in Nat
    BY <1>0 DEF Shared
  <2>2. Channel(feed', FeedCap)
    <3>1. Channel(feed, FeedCap)
      BY <1>0 DEF Channels
    <3>2. ASSUME NEW c \in Connections
          PROVE  Receive(feed[c], console.id) \in Seq(Nat) /\ Len(Receive(feed[c], console.id)) <= FeedCap
      <4>1. feed[c] \in Seq(Nat) /\ Len(feed[c]) \in Nat /\ Len(feed[c]) <= FeedCap
        BY <3>1, LenProperties DEF Channel
      <4>2. CASE Len(feed[c]) = FeedCap
        <5>1. feed[c] # << >>
          BY <4>1, <4>2, NoItems
        <5>2. Tail(feed[c]) \in Seq(Nat) /\ Len(Tail(feed[c])) = Len(feed[c]) - 1
          BY <4>1, <5>1, TailItems
        <5>3. /\ Append(Tail(feed[c]), console.id) \in Seq(Nat)
              /\ Len(Append(Tail(feed[c]), console.id)) = Len(Tail(feed[c])) + 1
          BY <2>1, <5>2, AppendItems
        <5>4. QED BY <4>1, <4>2, <5>2, <5>3 DEF Receive
      <4>3. CASE Len(feed[c]) # FeedCap
        <5>1. /\ Append(feed[c], console.id) \in Seq(Nat)
              /\ Len(Append(feed[c], console.id)) = Len(feed[c]) + 1
          BY <2>1, <4>1, AppendItems
        <5>2. QED BY <4>1, <4>3, <5>1 DEF Receive
      <4>4. QED BY <4>2, <4>3
    <3>3. QED BY <1>5, <3>1, <3>2 DEF Channel, Publish
  <2>3. Shared'
    BY <1>0, <1>5 DEF Shared, Publish, Idle, registry, history, Ids
  <2>4. Slots'
    BY <1>0, <1>5 DEF Slots, Publish, socket, history
  <2>5. Channels'
    BY <1>0, <1>5, <2>2 DEF Channels, Publish, socket
  <2>6. QED BY <2>3, <2>4, <2>5
<1>6. QED BY <1>1, <1>2, <1>3, <1>4, <1>5 DEF Console

LEMMA RestartKeepsTypes == ASSUME TypeOK, Restart PROVE TypeOK'
<1> USE MessagingAssumption, NextTypeParts
<1>0. Shared /\ Slots /\ Channels
  BY TypeParts
<1>1. Shared'
  <2>1. DOMAIN clients' = {}
    BY NoDomain DEF Restart
  <2>2. console' \in ConsoleType /\ console'.at = "idle"
    BY IdleType DEF Restart
  <2>3. guard' \in BOOLEAN
    BY DEF Restart
  <2>4. restarts' \in Nat
    BY <1>0 DEF Restart, Shared
  <2>5. UNCHANGED << messages, failures, seen >>
    BY DEF Restart, history
  <2>6. QED BY <1>0, <2>1, <2>2, <2>3, <2>4, <2>5 DEF Shared, ConsoleType, Ids
<1>2. Slots'
  BY <1>0, NoItems DEF Slots, Restart, NoMessage, PC, history
<1>3. Channels'
  BY <1>0, NoItems DEF Channels, Channel, Restart
<1>4. QED BY <1>1, <1>2, <1>3

LEMMA TypeStep == ASSUME TypeOK, Offering, [Next]_vars PROVE TypeOK'
<1>1. CASE Next
  BY <1>1, HandshakeKeepsTypes, ServeKeepsTypes, ClientKeepsTypes, ConsoleKeepsTypes,
     RestartKeepsTypes DEF Next
<1>2. CASE UNCHANGED vars
  BY <1>2 DEF TypeOK, vars, registry, session, socket, history, Ids
<1>3. QED BY <1>1, <1>2
-----------------------------------------------------------------------------
LEMMA RegistryKept ==
    ASSUME RegistryMatchesSessions, DOMAIN clients \subseteq Users,
           \A u \in DOMAIN clients : clients[u] \in Connections,
           clients' = clients,
           \A c \in Connections : pc'[c] \in Registered <=> pc[c] \in Registered
    PROVE  RegistryMatchesSessions'
BY DEF RegistryMatchesSessions

(* A session that leaves the registry takes away its own entry.              *)
LEMMA Unregistered ==
    ASSUME TypeOK, RegistryMatchesSessions, NEW c \in Connections, pc[c] \in Registered,
           clients' = Drop(clients, UserOf[c]), Goto(c, "none")
    PROVE  RegistryMatchesSessions'
<1>1. /\ pc'[c] = "none" /\ "none" \notin Registered
      /\ \A d \in Connections \ {c} : pc'[d] = pc[d]
  BY DEF Goto, TypeOK, Registered, PC
<1>2. /\ DOMAIN clients' = DOMAIN clients \ {UserOf[c]}
      /\ \A u \in DOMAIN clients' : clients'[u] = clients[u]
  BY DEF Drop
<1>3. ASSUME NEW u \in DOMAIN clients'
      PROVE  UserOf[clients'[u]] = u /\ pc'[clients'[u]] \in Registered
  <2>1. clients[u] \in Connections /\ UserOf[clients[u]] = u /\ pc[clients[u]] \in Registered
    BY <1>2, <1>3 DEF TypeOK, RegistryMatchesSessions
  <2>2. clients[u] # c
    BY <1>2, <1>3, <2>1
  <2>3. QED BY <1>1, <1>2, <1>3, <2>1, <2>2
<1>4. ASSUME NEW d \in Connections, pc'[d] \in Registered
      PROVE  UserOf[d] \in DOMAIN clients' /\ clients'[UserOf[d]] = d
  <2>1. d # c /\ pc[d] \in Registered
    BY <1>1, <1>4
  <2>2. UserOf[d] \in DOMAIN clients /\ clients[UserOf[d]] = d /\ clients[UserOf[c]] = c
    BY <2>1 DEF RegistryMatchesSessions
  <2>3. QED BY <1>2, <2>1, <2>2
<1>5. QED BY <1>3, <1>4 DEF RegistryMatchesSessions

LEMMA RegistryStep ==
    ASSUME TypeOK, RegistryMatchesSessions, [Next]_vars
    PROVE  RegistryMatchesSessions'
<1>0. /\ DOMAIN clients \subseteq Users /\ \A u \in DOMAIN clients : clients[u] \in Connections
      /\ pc \in [Connections -> PC]
  BY DEF TypeOK
<1>1. ASSUME NEW c \in Connections, Handshake(c) PROVE RegistryMatchesSessions'
  <2>1. CASE Connect(c) \/ Abandon(c) \/ Upgrade(c) \/ UpgradeFails(c)
    <3>1. /\ clients' = clients
          /\ \A d \in Connections : pc'[d] \in Registered <=> pc[d] \in Registered
      BY <1>0, <2>1 DEF Connect, Abandon, Upgrade, UpgradeFails, Goto, registry, Registered, PC
    <3>2. QED BY <1>0, <3>1, RegistryKept
  <2>2. CASE AddClient(c)
    <3>1. CASE clients' = clients /\ Goto(c, "none")
      <4>1. \A d \in Connections : pc'[d] \in Registered <=> pc[d] \in Registered
        BY <1>0, <2>2, <3>1 DEF AddClient, Goto, Registered, PC
      <4>2. QED BY <1>0, <3>1, <4>1, RegistryKept
    <3>2. CASE /\ UserOf[c] \notin DOMAIN clients /\ clients' = Put(clients, UserOf[c], c)
               /\ Goto(c, "upgrading")
      <4>1. /\ pc'[c] \in Registered /\ pc[c] \notin Registered
            /\ \A d \in Connections \ {c} : pc'[d] = pc[d]
        BY <1>0, <2>2, <3>2 DEF AddClient, Goto, Registered, PC
      <4>2. /\ DOMAIN clients' = DOMAIN clients \cup {UserOf[c]}
            /\ clients'[UserOf[c]] = c
            /\ \A u \in DOMAIN clients : clients'[u] = clients[u]
        BY <3>2 DEF Put
      <4>3. \A u \in DOMAIN clients : clients[u] # c
        BY <4>1 DEF RegistryMatchesSessions
      <4>4. ASSUME NEW u \in DOMAIN clients'
            PROVE  UserOf[clients'[u]] = u /\ pc'[clients'[u]] \in Registered
        BY <1>0, <4>1, <4>2, <4>3, <4>4 DEF RegistryMatchesSessions
      <4>5. ASSUME NEW d \in Connections, pc'[d] \in Registered
            PROVE  UserOf[d] \in DOMAIN clients' /\ clients'[UserOf[d]] = d
        BY <4>1, <4>2, <4>5 DEF RegistryMatchesSessions
      <4>6. QED BY <4>4, <4>5 DEF RegistryMatchesSessions
    <3>3. QED BY <2>2, <3>1, <3>2 DEF AddClient
  <2>3. CASE RemoveFailed(c)
    <3>1. pc[c] \in Registered
      BY <2>3 DEF RemoveFailed, Registered, PC
    <3>2. QED BY <2>3, <3>1, Unregistered DEF RemoveFailed
  <2>4. QED BY <1>1, <2>1, <2>2, <2>3 DEF Handshake
<1>2. ASSUME NEW c \in Connections, Serve(c) PROVE RegistryMatchesSessions'
  <2>1. CASE RemoveClient(c)
    <3>1. pc[c] \in Registered
      BY <2>1 DEF RemoveClient, Registered, PC
    <3>2. QED BY <2>1, <3>1, Unregistered DEF RemoveClient
  <2>2. CASE ~RemoveClient(c)
    <3>1. /\ clients' = clients
          /\ \A d \in Connections : pc'[d] \in Registered <=> pc[d] \in Registered
      BY <1>0, <1>2, <2>2 DEF Serve, FetchUnread, FetchFails, SendUnread, EnterLoop, ReceiveAck,
         TakeRequest, TakeDirect, TakeBroadcast, WriteMessage, WriteFails, LeaveLoop,
         Goto, registry, session, Registered, PC
    <3>2. QED BY <1>0, <3>1, RegistryKept
  <2>3. QED BY <2>1, <2>2
<1>3. CASE \/ \E c \in Connections : Client(c)
           \/ Console
           \/ UNCHANGED vars
  <2>1. clients' = clients /\ pc' = pc
    BY <1>3 DEF Client, ClientReceive, ClientAck, ClientRequest, ClientDrop,
       Console, SaveDirect, LookUp, Offer, SaveBroadcast, Publish, registry, session, vars
  <2>2. QED BY <1>0, <2>1, RegistryKept
<1>4. CASE Restart
  <2>1. DOMAIN clients' = {} /\ \A d \in Connections : pc'[d] \notin Registered
    BY <1>4, NoDomain DEF Restart, Registered, PC
  <2>2. QED BY <2>1 DEF RegistryMatchesSessions
<1>5. QED BY <1>1, <1>2, <1>3, <1>4 DEF Next
-----------------------------------------------------------------------------
(* What a step does to the table and to what users were shown: nothing,      *)
(* a row more, a row marked as read for its recipient, or a message shown.   *)
Posted(k, r) == Save(k, r) /\ seen' = seen

Marked(c) ==
    /\ pc[c] = "looping" /\ incoming[c] # << >> /\ Head(incoming[c]) # NoMessage
    /\ MarkAsRead(Head(incoming[c]), UserOf[c])
    /\ seen' = seen /\ console' = console

ShownTo(c) ==
    /\ outgoing[c] # << >> /\ Head(outgoing[c]) # NoMessage
    /\ seen' = seen \cup {<< UserOf[c], Head(outgoing[c]) >>}
    /\ messages' = messages /\ console' = console

LEMMA TableSteps ==
    ASSUME [Next]_vars
    PROVE  \/ UNCHANGED << messages, seen, console >>
           \/ \E u \in Users : SaveDirect(u) /\ Posted("direct", u)
           \/ SaveBroadcast /\ Posted("broadcast", NoUser)
           \/ LookUp /\ UNCHANGED << messages, seen >>
           \/ Offer /\ UNCHANGED << messages, seen >>
           \/ Publish /\ UNCHANGED << messages, seen >>
           \/ Restart /\ UNCHANGED << messages, seen >>
           \/ \E c \in Connections : ReceiveAck(c) /\ Marked(c)
           \/ \E c \in Connections : ClientReceive(c) /\ ShownTo(c)
<1>1. ASSUME NEW c \in Connections, Handshake(c)
      PROVE  UNCHANGED << messages, seen, console >>
  BY <1>1 DEF Handshake, Connect, AddClient, Abandon, Upgrade, UpgradeFails, RemoveFailed, history
<1>2. ASSUME NEW c \in Connections, Serve(c)
      PROVE  UNCHANGED << messages, seen, console >> \/ (ReceiveAck(c) /\ Marked(c))
  <2>1. ASSUME ReceiveAck(c) PROVE UNCHANGED << messages, seen, console >> \/ Marked(c)
    <3>1. UNCHANGED << seen, console >>
      BY <2>1 DEF ReceiveAck, history
    <3>2. QED BY <2>1, <3>1 DEF ReceiveAck, Marked
  <2>2. CASE ~ReceiveAck(c)
    <3>1. UNCHANGED << messages, seen, console >>
      BY <1>2, <2>2 DEF Serve, FetchUnread, FetchFails, SendUnread, EnterLoop, TakeRequest,
         TakeDirect, TakeBroadcast, WriteMessage, WriteFails, LeaveLoop, RemoveClient, history
    <3>2. QED BY <3>1
  <2>3. QED BY <2>1, <2>2
<1>3. ASSUME NEW c \in Connections, Client(c)
      PROVE  UNCHANGED << messages, seen, console >> \/ (ClientReceive(c) /\ ShownTo(c))
  <2>1. ASSUME ClientReceive(c) PROVE UNCHANGED << messages, seen, console >> \/ ShownTo(c)
    <3>1. UNCHANGED << messages, console >> /\ outgoing[c] # << >>
      BY <2>1 DEF ClientReceive
    <3>2. seen' = IF Head(outgoing[c]) = NoMessage
                   THEN seen ELSE seen \cup {<< UserOf[c], Head(outgoing[c]) >>}
      BY <2>1 DEF ClientReceive
    <3>3. QED BY <3>1, <3>2 DEF ShownTo
  <2>2. CASE ~ClientReceive(c)
    <3>1. UNCHANGED << messages, seen, console >>
      BY <1>3, <2>2 DEF Client, ClientAck, ClientRequest, ClientDrop, history
    <3>2. QED BY <3>1
  <2>3. QED BY <2>1, <2>2
<1>4. ASSUME Console
      PROVE  \/ \E u \in Users : SaveDirect(u) /\ Posted("direct", u)
             \/ SaveBroadcast /\ Posted("broadcast", NoUser)
             \/ LookUp /\ UNCHANGED << messages, seen >>
             \/ Offer /\ UNCHANGED << messages, seen >>
             \/ Publish /\ UNCHANGED << messages, seen >>
  BY <1>4 DEF Console, SaveDirect, SaveBroadcast, LookUp, Offer, Publish, Posted, history
<1>5. ASSUME Restart PROVE UNCHANGED << messages, seen >>
  BY <1>5 DEF Restart, history
<1>6. ASSUME UNCHANGED vars PROVE UNCHANGED << messages, seen, console >>
  BY <1>6 DEF vars, history
<1>7. QED BY <1>1, <1>2, <1>3, <1>4, <1>5, <1>6 DEF Next

LEMMA MarkedRow ==
    ASSUME TypeOK, NEW c \in Connections, Marked(c)
    PROVE  LET id == Head(incoming[c]) IN
           \/ messages' = messages
           \/ /\ id \in Ids /\ messages[id].recipient = UserOf[c]
              /\ Len(messages') = Len(messages)
              /\ messages'[id].kind = messages[id].kind
              /\ messages'[id].recipient = messages[id].recipient
              /\ messages'[id].is_read
              /\ \A other \in Ids \ {id} : messages'[other] = messages[other]
<1>1. CASE messages' = messages
  BY <1>1
<1>2. CASE /\ Head(incoming[c]) \in Ids /\ messages[Head(incoming[c])].recipient = UserOf[c]
           /\ messages' = [messages EXCEPT ![Head(incoming[c])].is_read = TRUE]
  <2> DEFINE id == Head(incoming[c])
  <2>1. /\ Len(messages') = Len(messages)
        /\ messages'[id] = [kind |-> messages[id].kind, recipient |-> messages[id].recipient,
                            is_read |-> TRUE]
        /\ \A other \in Ids \ {id} : messages'[other] = messages[other]
    BY <1>2, MarkedType
  <2>2. QED BY <1>2, <2>1
<1>3. QED BY <1>1, <1>2 DEF Marked, MarkAsRead, Ids

(* The table and what was shown only grow.                                   *)
LEMMA TableGrows ==
    ASSUME TypeOK, [Next]_vars
    PROVE  /\ Len(messages) \in Nat /\ Len(messages') \in Nat /\ Len(messages) <= Len(messages')
           /\ \A id \in Ids : /\ messages'[id].kind = messages[id].kind
                              /\ messages'[id].recipient = messages[id].recipient
                              /\ messages[id].is_read => messages'[id].is_read
           /\ seen \subseteq seen'
<1>0. Len(messages) \in Nat /\ NoUser \in Users \cup {NoUser} /\ Users \subseteq Users \cup {NoUser}
  BY LenProperties DEF TypeOK
<1>1. CASE UNCHANGED << messages, seen >>
  BY <1>0, <1>1
<1>2. CASE \E k \in {"direct", "broadcast"}, r \in Users \cup {NoUser} : Posted(k, r)
  <2>1. PICK k \in {"direct", "broadcast"}, r \in Users \cup {NoUser} : Posted(k, r)
    BY <1>2
  <2>2. /\ Len(messages') = Len(messages) + 1
        /\ \A id \in Ids : messages'[id] = messages[id]
    BY <2>1, SavedType DEF Posted
  <2>3. QED BY <1>0, <2>1, <2>2 DEF Posted
<1>3. CASE \E c \in Connections : Marked(c)
  <2>1. PICK c \in Connections : Marked(c)
    BY <1>3
  <2>2. seen' = seen
    BY <2>1 DEF Marked
  <2>3. QED BY <1>0, <2>1, <2>2, MarkedRow
<1>4. CASE \E c \in Connections : ShownTo(c)
  BY <1>0, <1>4 DEF ShownTo
<1>5. QED BY <1>0, <1>1, <1>2, <1>3, <1>4, TableSteps
-----------------------------------------------------------------------------
LEMMA OfferingStep ==
    ASSUME TypeOK, Offering, [Next]_vars
    PROVE  Offering'
<1>0. console \in ConsoleType /\ (console.at # "idle" => console.id \in Ids)
  BY DEF TypeOK, ConsoleType
<1>1. ASSUME UNCHANGED << clients, guard, console >> PROVE Offering'
  <2>1. console.at = "offering" => messages'[console.id].recipient = messages[console.id].recipient
    BY <1>0, TableGrows
  <2>2. QED BY <1>1, <2>1 DEF Offering
<1>2. ASSUME UNCHANGED << guard, console >>, ~guard PROVE Offering'
  BY <1>2 DEF Offering
<1>3. ASSUME ~guard', console'.at # "offering" PROVE Offering'
  BY <1>3 DEF Offering
<1>4. ASSUME NEW c \in Connections, Handshake(c) PROVE Offering'
  <2>1. \/ UNCHANGED << clients, guard, console >>
        \/ UNCHANGED << guard, console >> /\ ~guard
    BY <1>4 DEF Handshake, Connect, AddClient, Abandon, Upgrade, UpgradeFails, RemoveFailed, registry
  <2>2. QED BY <1>1, <1>2, <2>1
<1>5. ASSUME NEW c \in Connections, Serve(c) PROVE Offering'
  <2>1. \/ UNCHANGED << clients, guard, console >>
        \/ UNCHANGED << guard, console >> /\ ~guard
    BY <1>5 DEF Serve, FetchUnread, FetchFails, SendUnread, EnterLoop, ReceiveAck, TakeRequest,
       TakeDirect, TakeBroadcast, WriteMessage, WriteFails, LeaveLoop, RemoveClient, registry
  <2>2. QED BY <1>1, <1>2, <2>1
<1>6. ASSUME NEW c \in Connections, Client(c) PROVE Offering'
  <2>1. UNCHANGED << clients, guard, console >>
    BY <1>6 DEF Client, ClientReceive, ClientAck, ClientRequest, ClientDrop, registry
  <2>2. QED BY <1>1, <2>1
<1>7. ASSUME SaveBroadcast \/ \E u \in Users : SaveDirect(u) PROVE Offering'
  <2>1. guard' = guard /\ console.at = "idle" /\ console'.at # "offering"
    BY <1>7 DEF SaveBroadcast, SaveDirect, registry
  <2>2. QED BY <1>3, <2>1 DEF Offering
<1>8. CASE LookUp
  <2>1. CASE console' = Idle /\ guard' = guard
    BY <1>3, <1>8, <2>1, IdleType DEF LookUp, Offering
  <2>2. CASE /\ messages[console.id].recipient \in DOMAIN clients
             /\ console' = [console EXCEPT !.at = "offering"] /\ guard' = TRUE
    BY <1>0, <1>8, <2>2, OfferingType DEF LookUp, Offering
  <2>3. QED BY <1>8, <2>1, <2>2 DEF LookUp
<1>9. CASE Offer
  BY <1>3, <1>9, IdleType DEF Offer
<1>10. CASE Publish
  <2>1. guard' = guard /\ console.at = "publishing" /\ console' = Idle
    BY <1>10 DEF Publish, registry
  <2>2. QED BY <1>3, <2>1, IdleType DEF Offering
<1>11. CASE Restart
  BY <1>3, <1>11, IdleType DEF Restart
<1>12. CASE UNCHANGED vars
  BY <1>1, <1>12 DEF vars, registry
<1>13. QED
  BY <1>4, <1>5, <1>6, <1>7, <1>8, <1>9, <1>10, <1>11, <1>12 DEF Next, Console

(* A row that is there stays what it is, and stays justified.                *)
LEMMA RowsStep ==
    ASSUME TypeOK, RowsOK, \A c \in Connections : DeliveryOK(c), [Next]_vars
    PROVE  RowsOK'
<1> DEFINE KindOf(id) == messages[id].kind = "direct" <=> messages[id].recipient \in Users
           ReadOf(id) == messages[id].is_read =>
                             Direct(id) /\ << messages[id].recipient, id >> \in seen
           Working == /\ console.at = "idle" => console.id = 0
                      /\ console.at \in {"saved", "offering"} =>
                            messages[console.id].recipient \in Users
                      /\ console.at = "publishing" => messages[console.id].recipient = NoUser
<1>0. /\ console \in ConsoleType /\ (console.at # "idle" => console.id \in Ids)
      /\ Len(messages) \in Nat
      /\ \A id \in Ids : KindOf(id) /\ ReadOf(id)
      /\ Working
      /\ NoUser \notin Users
  BY LenProperties, MessagingAssumption DEF TypeOK, ConsoleType, RowsOK
<1>g. /\ \A id \in Ids : /\ messages'[id].kind = messages[id].kind
                         /\ messages'[id].recipient = messages[id].recipient
      /\ seen \subseteq seen'
  BY TableGrows
<1>1. SUFFICES (\A id \in Ids' : KindOf(id)' /\ ReadOf(id)') /\ Working'
  BY DEF RowsOK
<1>2. ASSUME Len(messages') = Len(messages),
             \A id \in Ids : messages'[id].is_read = messages[id].is_read
      PROVE  \A id \in Ids' : KindOf(id)' /\ ReadOf(id)'
  BY <1>0, <1>g, <1>2 DEF Ids, Direct
<1>3. ASSUME console' = console PROVE Working'
  BY <1>0, <1>g, <1>3 DEF ConsoleType
<1>4. ASSUME console' = Idle PROVE Working'
  BY <1>4, IdleType
<1>5. CASE UNCHANGED << messages, seen, console >>
  BY <1>2, <1>3, <1>5
<1>6. ASSUME NEW k \in {"direct", "broadcast"}, NEW r \in Users \cup {NoUser}, Posted(k, r),
             k = "direct" <=> r \in Users,
             console'.at = IF k = "direct" THEN "saved" ELSE "publishing",
             console'.id = Len(messages) + 1
      PROVE  (\A id \in Ids' : KindOf(id)' /\ ReadOf(id)') /\ Working'
  <2>1. /\ Len(messages') = Len(messages) + 1
        /\ \A id \in Ids : messages'[id] = messages[id]
        /\ messages'[Len(messages) + 1] = [kind |-> k, recipient |-> r, is_read |-> FALSE]
    BY <1>6, SavedType DEF Posted
  <2>2. \A id \in Ids' : id \in Ids \/ id = Len(messages) + 1
    BY <1>0, <2>1 DEF Ids
  <2>3. ASSUME NEW id \in Ids' PROVE KindOf(id)' /\ ReadOf(id)'
    <3>1. CASE id \in Ids
      BY <1>0, <1>g, <2>1, <3>1 DEF Direct
    <3>2. CASE id = Len(messages) + 1
      BY <1>6, <2>1, <3>2
    <3>3. QED BY <2>2, <3>1, <3>2
  <2>4. messages'[console'.id].recipient = r
    BY <1>6, <2>1
  <2>5. Working'
    BY <1>6, <2>4
  <2>6. QED BY <2>3, <2>5
<1>7. ASSUME NEW u \in Users, SaveDirect(u), Posted("direct", u)
      PROVE  (\A id \in Ids' : KindOf(id)' /\ ReadOf(id)') /\ Working'
  <2>1. console'.at = "saved" /\ console'.id = Len(messages) + 1
    BY <1>7 DEF SaveDirect
  <2> HIDE DEF KindOf, ReadOf, Working
  <2>2. QED BY <1>6, <1>7, <2>1
<1>8. ASSUME SaveBroadcast, Posted("broadcast", NoUser)
      PROVE  (\A id \in Ids' : KindOf(id)' /\ ReadOf(id)') /\ Working'
  <2>1. console'.at = "publishing" /\ console'.id = Len(messages) + 1
    BY <1>8 DEF SaveBroadcast
  <2> HIDE DEF KindOf, ReadOf, Working
  <2>2. QED BY <1>0, <1>6, <1>8, <2>1
<1>9. ASSUME LookUp \/ Offer \/ Publish \/ Restart, UNCHANGED << messages, seen >>
      PROVE  (\A id \in Ids' : KindOf(id)' /\ ReadOf(id)') /\ Working'
  <2>1. CASE console' = Idle
    BY <1>2, <1>4, <1>9, <2>1
  <2>2. CASE LookUp /\ console' = [console EXCEPT !.at = "offering"]
    <3>1. Working'
      BY <1>0, <1>9, <2>2, OfferingType DEF LookUp
    <3>2. QED BY <1>2, <1>9, <3>1
  <2>3. QED BY <1>9, <2>1, <2>2 DEF LookUp, Offer, Publish, Restart
<1>10. ASSUME NEW c \in Connections, Marked(c)
       PROVE  (\A id \in Ids' : KindOf(id)' /\ ReadOf(id)') /\ Working'
  <2> DEFINE marked == Head(incoming[c])
  <2>1. seen' = seen /\ console' = console
    BY <1>10 DEF Marked
  <2>2. CASE messages' = messages
    BY <1>2, <1>3, <2>1, <2>2
  <2>3. CASE messages' # messages
    <3>1. /\ marked \in Ids /\ messages[marked].recipient = UserOf[c]
          /\ Len(messages') = Len(messages)
          /\ \A other \in Ids \ {marked} : messages'[other] = messages[other]
      BY <1>10, <2>3, MarkedRow
    <3>2. marked \in Shown(c)
      <4>1. incoming[c] \in Seq(Nat) /\ incoming[c] # << >> /\ marked # NoMessage
        BY <1>10, ConnectionFields DEF Marked
      <4>2. marked \in Items(incoming[c])
        BY <4>1, TailItems
      <4>3. QED BY <4>1, <4>2 DEF DeliveryOK
    <3>3. << UserOf[c], marked >> \in seen /\ UserOf[c] \in Users
      BY <3>2, ConnectionFields DEF Shown
    <3>4. ASSUME NEW id \in Ids' PROVE KindOf(id)' /\ ReadOf(id)'
      <4>1. CASE id = marked
        BY <1>0, <1>g, <2>1, <3>1, <3>3, <4>1 DEF Direct
      <4>2. CASE id # marked
        <5>1. id \in Ids /\ messages'[id] = messages[id]
          BY <3>1, <4>2 DEF Ids
        <5>2. QED BY <1>0, <2>1, <5>1 DEF Direct
      <4>3. QED BY <4>1, <4>2
    <3>5. QED BY <1>3, <2>1, <3>4
  <2>4. QED BY <2>2, <2>3
<1>11. ASSUME NEW c \in Connections, ShownTo(c)
       PROVE  (\A id \in Ids' : KindOf(id)' /\ ReadOf(id)') /\ Working'
  <2>1. messages' = messages /\ console' = console
    BY <1>11 DEF ShownTo
  <2>2. QED BY <1>2, <1>3, <2>1
<1> HIDE DEF KindOf, ReadOf, Working
<1>12. QED
  BY <1>2, <1>3, <1>5, <1>7, <1>8, <1>9, <1>10, <1>11, TableSteps
-----------------------------------------------------------------------------
LEMMA AddresseesGrow ==
    ASSUME TypeOK, [Next]_vars, NEW c \in Connections
    PROVE  Mine(c) \subseteq Mine(c)' /\ Public \subseteq Public' /\ Shown(c) \subseteq Shown(c)'
<1>1. /\ Ids \subseteq Ids'
      /\ \A id \in Ids : messages'[id].recipient = messages[id].recipient
      /\ seen \subseteq seen'
  BY TableGrows DEF Ids
<1>2. QED BY <1>1 DEF Mine, Public, Shown

(* What is on its way is delivered to the same addressees as before: each    *)
(* place holds what it held or what may be there.                            *)
LEMMA Delivered ==
    ASSUME TypeOK, [Next]_vars, NEW c \in Connections, DeliveryOK(c),
           Items(backlog'[c]) \subseteq Items(backlog[c]) \cup Mine(c)',
           Items(queue'[c]) \subseteq Items(queue[c]) \cup Mine(c)',
           Items(feed'[c]) \subseteq Items(feed[c]) \cup Public',
           sending'[c] \in {NoMessage, sending[c]} \cup Mine(c) \cup Public,
           Items(outgoing'[c]) \subseteq Items(outgoing[c]) \cup {NoMessage} \cup Mine(c) \cup Public,
           acking'[c] \in {0, acking[c]} \cup Shown(c)',
           Items(incoming'[c]) \subseteq Items(incoming[c]) \cup {NoMessage} \cup Shown(c)
    PROVE  DeliveryOK(c)'
<1> USE AddresseesGrow
<1>1. Items(backlog'[c]) \subseteq Mine(c)'
  BY DEF DeliveryOK
<1>2. Items(queue'[c]) \subseteq Mine(c)'
  BY DEF DeliveryOK
<1>3. Items(feed'[c]) \subseteq Public'
  BY DEF DeliveryOK
<1>4. sending'[c] \in {NoMessage} \cup Mine(c)' \cup Public'
  BY DEF DeliveryOK
<1>5. Items(outgoing'[c]) \subseteq {NoMessage} \cup Mine(c)' \cup Public'
  BY DEF DeliveryOK
<1>6. acking'[c] \in {0} \cup Shown(c)'
  BY DEF DeliveryOK
<1>7. Items(incoming'[c]) \subseteq {NoMessage} \cup Shown(c)'
  BY DEF DeliveryOK
<1>8. QED BY <1>1, <1>2, <1>3, <1>4, <1>5, <1>6, <1>7 DEF DeliveryOK, Items

(* Nothing happened on this connection.                                      *)
Quiet(c) ==
    /\ backlog'[c] = backlog[c] /\ queue'[c] = queue[c] /\ feed'[c] = feed[c]
    /\ sending'[c] = sending[c] /\ outgoing'[c] = outgoing[c]
    /\ acking'[c] = acking[c] /\ incoming'[c] = incoming[c]

LEMMA QuietDelivery ==
    ASSUME TypeOK, [Next]_vars, NEW c \in Connections, DeliveryOK(c), Quiet(c)
    PROVE  DeliveryOK(c)'
BY Delivered DEF Quiet

LEMMA ServeQuiet ==
    ASSUME TypeOK, NEW c \in Connections, NEW d \in Connections \ {c},
           Handshake(c) \/ Serve(c) \/ Client(c)
    PROVE  Quiet(d)
<1> USE DEF Quiet, TypeOK
<1>1. CASE Handshake(c)
  BY <1>1 DEF Handshake, Connect, AddClient, Abandon, Upgrade, UpgradeFails, RemoveFailed, socket
<1>2. CASE Serve(c)
  <2>1. ASSUME NEW id, WriteTo(c, id) PROVE outgoing'[d] = outgoing[d]
    BY <2>1 DEF WriteTo
  <2>2. CASE FetchUnread(c)
    BY <2>2 DEF FetchUnread, socket
  <2>3. CASE FetchFails(c) \/ EnterLoop(c) \/ ReceiveAck(c) \/ TakeRequest(c) \/ LeaveLoop(c)
    BY <2>3 DEF FetchFails, EnterLoop, ReceiveAck, TakeRequest, LeaveLoop, socket, session
  <2>4. CASE SendUnread(c)
    BY <2>1, <2>4 DEF SendUnread
  <2>5. CASE TakeDirect(c) \/ TakeBroadcast(c) \/ WriteFails(c) \/ RemoveClient(c)
    BY <2>5 DEF TakeDirect, TakeBroadcast, WriteFails, RemoveClient, socket
  <2>6. CASE WriteMessage(c)
    BY <2>1, <2>6 DEF WriteMessage
  <2>7. QED BY <1>2, <2>2, <2>3, <2>4, <2>5, <2>6 DEF Serve
<1>3. CASE Client(c)
  BY <1>3 DEF Client, ClientReceive, ClientAck, ClientRequest, ClientDrop, session
<1>4. QED BY <1>1, <1>2, <1>3

LEMMA HandshakeDelivers ==
    ASSUME TypeOK, [Next]_vars, NEW c \in Connections, DeliveryOK(c), Handshake(c)
    PROVE  DeliveryOK(c)'
<1>1. /\ backlog'[c] = backlog[c] /\ sending'[c] = sending[c]
      /\ outgoing'[c] = outgoing[c] /\ acking'[c] = acking[c] /\ incoming'[c] = incoming[c]
      /\ queue'[c] \in {queue[c], << >>} /\ feed'[c] \in {feed[c], << >>}
  BY DEF TypeOK, Handshake, Connect, AddClient, Abandon, Upgrade, UpgradeFails, RemoveFailed, socket
<1>2. Items(queue'[c]) \subseteq Items(queue[c]) /\ Items(feed'[c]) \subseteq Items(feed[c])
  BY <1>1, NoItems
<1>3. QED BY <1>1, <1>2, Delivered

LEMMA WriteDelivers ==
    ASSUME TypeOK, NEW c \in Connections, NEW id \in Nat, WriteTo(c, id)
    PROVE  Items(outgoing'[c]) \subseteq Items(outgoing[c]) \cup {id}
<1>1. outgoing'[c] \in {outgoing[c], Append(outgoing[c], id)}
  BY DEF WriteTo, TypeOK
<1>2. outgoing[c] \in Seq(Nat)
  BY ConnectionFields
<1>3. Items(Append(outgoing[c], id)) = Items(outgoing[c]) \cup {id}
  BY <1>2, AppendItems
<1>4. QED BY <1>1, <1>3

(* The unread messages of a user are messages for the user.                  *)
LEMMA UnreadMine ==
    ASSUME NEW c \in Connections
    PROVE  Unread(UserOf[c]) \subseteq Mine(c)
BY DEF Unread, Mine, Ids

LEMMA ServeDelivers ==
    ASSUME TypeOK, [Next]_vars, NEW c \in Connections, DeliveryOK(c), Serve(c)
    PROVE  DeliveryOK(c)'
<1>a. /\ backlog[c] \in Seq(Nat) /\ queue[c] \in Seq(Nat) /\ feed[c] \in Seq(Nat)
      /\ incoming[c] \in Seq(Nat) /\ sending[c] \in Nat
  BY ConnectionFields
<1>b. \A s \in Seq(Nat) : s # << >> =>
          Head(s) \in Nat /\ Head(s) \in Items(s) /\ Items(Tail(s)) \subseteq Items(s)
  BY TailItems
<1>c. /\ Items(backlog[c]) \subseteq Mine(c) /\ Items(queue[c]) \subseteq Mine(c)
      /\ Items(feed[c]) \subseteq Public
      /\ sending[c] \in {NoMessage} \cup Mine(c) \cup Public
  BY DEF DeliveryOK
<1>1. CASE FetchUnread(c)
  <2>1. /\ \E list \in InOrder(Unread(UserOf[c])) : backlog'[c] = list
        /\ queue'[c] = queue[c] /\ feed'[c] = feed[c] /\ sending'[c] = sending[c]
        /\ outgoing'[c] = outgoing[c] /\ acking'[c] = acking[c] /\ incoming'[c] = incoming[c]
    BY <1>1 DEF FetchUnread, TypeOK, socket
  <2>2. Items(backlog'[c]) \subseteq Mine(c)
    BY <2>1, UnreadListed, UnreadMine
  <2>3. QED BY <2>1, <2>2, AddresseesGrow, Delivered
<1>2. CASE FetchFails(c) \/ EnterLoop(c) \/ LeaveLoop(c)
  <2>1. Quiet(c)
    BY <1>2 DEF FetchFails, EnterLoop, LeaveLoop, socket, Quiet
  <2>2. QED BY <2>1, QuietDelivery
<1>3. CASE SendUnread(c)
  <2>1. /\ backlog[c] # << >> /\ backlog'[c] = Tail(backlog[c])
        /\ WriteTo(c, Head(backlog[c]))
        /\ queue'[c] = queue[c] /\ feed'[c] = feed[c] /\ sending'[c] = sending[c]
        /\ acking'[c] = acking[c] /\ incoming'[c] = incoming[c]
    BY <1>3 DEF SendUnread, TypeOK
  <2>2. Items(outgoing'[c]) \subseteq Items(outgoing[c]) \cup Mine(c)
    <3>1. Head(backlog[c]) \in Nat /\ Head(backlog[c]) \in Mine(c)
      BY <1>a, <1>b, <1>c, <2>1
    <3>2. Items(outgoing'[c]) \subseteq Items(outgoing[c]) \cup {Head(backlog[c])}
      BY <2>1, <3>1, WriteDelivers
    <3>3. QED BY <3>1, <3>2
  <2>3. Items(backlog'[c]) \subseteq Items(backlog[c])
    BY <1>a, <1>b, <2>1
  <2>4. QED BY <2>1, <2>2, <2>3, Delivered
<1>4. CASE ReceiveAck(c) \/ TakeRequest(c)
  <2>1. /\ incoming[c] # << >> /\ incoming'[c] = Tail(incoming[c])
        /\ backlog'[c] = backlog[c] /\ queue'[c] = queue[c] /\ feed'[c] = feed[c]
        /\ sending'[c] = sending[c] /\ outgoing'[c] = outgoing[c] /\ acking'[c] = acking[c]
    BY <1>4 DEF ReceiveAck, TakeRequest, TypeOK, session
  <2>2. Items(incoming'[c]) \subseteq Items(incoming[c])
    BY <1>a, <1>b, <2>1
  <2>3. QED BY <2>1, <2>2, Delivered
<1>5. CASE TakeDirect(c)
  <2>1. /\ queue[c] # << >> /\ queue'[c] = Tail(queue[c]) /\ sending'[c] = Head(queue[c])
        /\ backlog'[c] = backlog[c] /\ feed'[c] = feed[c] /\ outgoing'[c] = outgoing[c]
        /\ acking'[c] = acking[c] /\ incoming'[c] = incoming[c]
    BY <1>5 DEF TakeDirect, TypeOK, socket
  <2>2. Items(queue'[c]) \subseteq Items(queue[c]) /\ sending'[c] \in Mine(c)
    BY <1>a, <1>b, <1>c, <2>1
  <2>3. QED BY <2>1, <2>2, Delivered
<1>6. CASE TakeBroadcast(c)
  <2>1. /\ feed[c] # << >> /\ feed'[c] = Tail(feed[c]) /\ sending'[c] = Head(feed[c])
        /\ backlog'[c] = backlog[c] /\ queue'[c] = queue[c] /\ outgoing'[c] = outgoing[c]
        /\ acking'[c] = acking[c] /\ incoming'[c] = incoming[c]
    BY <1>6 DEF TakeBroadcast, TypeOK, socket
  <2>2. Items(feed'[c]) \subseteq Items(feed[c]) /\ sending'[c] \in Public
    BY <1>a, <1>b, <1>c, <2>1
  <2>3. QED BY <2>1, <2>2, Delivered
<1>7. CASE WriteMessage(c)
  <2>1. /\ WriteTo(c, sending[c]) /\ sending'[c] = NoMessage
        /\ backlog'[c] = backlog[c] /\ queue'[c] = queue[c] /\ feed'[c] = feed[c]
        /\ acking'[c] = acking[c] /\ incoming'[c] = incoming[c]
    BY <1>7 DEF WriteMessage, TypeOK
  <2>2. Items(outgoing'[c]) \subseteq Items(outgoing[c]) \cup {NoMessage} \cup Mine(c) \cup Public
    <3>1. Items(outgoing'[c]) \subseteq Items(outgoing[c]) \cup {sending[c]}
      BY <1>a, <2>1, WriteDelivers
    <3>2. QED BY <1>c, <3>1
  <2>3. QED BY <2>1, <2>2, Delivered
<1>8. CASE WriteFails(c)
  <2>1. /\ sending'[c] = NoMessage /\ outgoing'[c] = outgoing[c]
        /\ backlog'[c] = backlog[c] /\ queue'[c] = queue[c] /\ feed'[c] = feed[c]
        /\ acking'[c] = acking[c] /\ incoming'[c] = incoming[c]
    BY <1>8 DEF WriteFails, TypeOK, socket
  <2>2. QED BY <2>1, Delivered
<1>9. CASE RemoveClient(c)
  <2>1. /\ queue'[c] = << >> /\ feed'[c] = << >> /\ incoming'[c] = << >>
        /\ backlog'[c] = backlog[c] /\ sending'[c] = sending[c]
        /\ outgoing'[c] = outgoing[c] /\ acking'[c] = acking[c]
    BY <1>9 DEF RemoveClient, TypeOK
  <2>2. QED BY <2>1, NoItems, Delivered
<1>10. QED BY <1>1, <1>2, <1>3, <1>4, <1>5, <1>6, <1>7, <1>8, <1>9 DEF Serve

(* A message that is shown was on its way, for this user or for all; when it *)
(* is a direct message it is for this user.                                  *)
LEMMA ReceivedIsForUser ==
    ASSUME TypeOK, RowsOK, NEW c \in Connections, DeliveryOK(c), outgoing[c] # << >>,
           Head(outgoing[c]) # NoMessage
    PROVE  LET id == Head(outgoing[c]) IN
           /\ id \in Mine(c) \cup Public
           /\ IsDirect(id) => id \in Mine(c)
<1>1. Head(outgoing[c]) \in Items(outgoing[c])
  BY ConnectionFields, TailItems
<1>2. Head(outgoing[c]) \in Mine(c) \cup Public
  BY <1>1 DEF DeliveryOK
<1>3. IsDirect(Head(outgoing[c])) => Head(outgoing[c]) \notin Public
  BY <1>2, MessagingAssumption DEF RowsOK, IsDirect, Public
<1>4. QED BY <1>2, <1>3

LEMMA ClientDelivers ==
    ASSUME TypeOK, RowsOK, [Next]_vars, NEW c \in Connections, DeliveryOK(c), Client(c)
    PROVE  DeliveryOK(c)'
<1>a. /\ outgoing[c] \in Seq(Nat) /\ incoming[c] \in Seq(Nat) /\ acking[c] \in Nat
      /\ NoMessage \in Nat
  BY ConnectionFields DEF NoMessage
<1>1. CASE ClientReceive(c)
  <2> DEFINE id == Head(outgoing[c])
  <2>1. /\ outgoing[c] # << >> /\ outgoing'[c] = Tail(outgoing[c])
        /\ backlog'[c] = backlog[c] /\ queue'[c] = queue[c] /\ feed'[c] = feed[c]
        /\ sending'[c] = sending[c] /\ incoming'[c] = incoming[c]
    BY <1>1 DEF ClientReceive, TypeOK, session
  <2>2. Items(outgoing'[c]) \subseteq Items(outgoing[c])
    BY <1>a, <2>1, TailItems
  <2>3. \/ acking' = acking
        \/ id # NoMessage /\ IsDirect(id) /\ acking' = [acking EXCEPT ![c] = id]
    BY <1>1 DEF ClientReceive, IsDirect
  <2>4. ASSUME id # NoMessage, IsDirect(id) PROVE id \in Shown(c)'
    <3>1. id \in Mine(c)
      BY <2>1, <2>4, ReceivedIsForUser
    <3>2. messages' = messages /\ << UserOf[c], id >> \in seen'
      BY <1>1, <2>4 DEF ClientReceive
    <3>3. QED BY <3>1, <3>2 DEF Shown, Mine, Ids
  <2>5. acking'[c] \in {0, acking[c]} \cup Shown(c)'
    BY <2>3, <2>4 DEF TypeOK
  <2>6. QED BY <2>1, <2>2, <2>5, Delivered
<1>2. CASE ClientAck(c)
  <2>1. /\ incoming'[c] \in {incoming[c], Append(incoming[c], acking[c])}
        /\ acking[c] # 0 /\ acking'[c] = 0 /\ outgoing'[c] = outgoing[c]
        /\ backlog'[c] = backlog[c] /\ queue'[c] = queue[c] /\ feed'[c] = feed[c]
        /\ sending'[c] = sending[c]
    BY <1>2 DEF ClientAck, TypeOK, session
  <2>2. acking[c] \in Shown(c)
    BY <2>1 DEF DeliveryOK
  <2>3. Items(Append(incoming[c], acking[c])) = Items(incoming[c]) \cup {acking[c]}
    BY <1>a, AppendItems
  <2>4. QED BY <2>1, <2>2, <2>3, Delivered
<1>3. CASE ClientRequest(c)
  <2>1. /\ incoming'[c] = Append(incoming[c], NoMessage)
        /\ acking'[c] = acking[c] /\ outgoing'[c] = outgoing[c]
        /\ backlog'[c] = backlog[c] /\ queue'[c] = queue[c] /\ feed'[c] = feed[c]
        /\ sending'[c] = sending[c]
    BY <1>3 DEF ClientRequest, TypeOK, session
  <2>2. Items(Append(incoming[c], NoMessage)) = Items(incoming[c]) \cup {NoMessage}
    BY <1>a, AppendItems
  <2>3. QED BY <2>1, <2>2, Delivered
<1>4. CASE ClientDrop(c)
  <2>1. /\ outgoing'[c] = << >> /\ acking'[c] = 0 /\ incoming'[c] = incoming[c]
        /\ backlog'[c] = backlog[c] /\ queue'[c] = queue[c] /\ feed'[c] = feed[c]
        /\ sending'[c] = sending[c]
    BY <1>4 DEF ClientDrop, TypeOK, session
  <2>2. QED BY <2>1, NoItems, Delivered
<1>5. QED BY <1>1, <1>2, <1>3, <1>4 DEF Client

LEMMA ConsoleDelivers ==
    ASSUME TypeOK, RegistryMatchesSessions, Offering, RowsOK, [Next]_vars,
           \A c \in Connections : DeliveryOK(c), Console, NEW d \in Connections
    PROVE  DeliveryOK(d)'
<1>0. console \in ConsoleType /\ (console.at # "idle" => console.id \in Ids) /\ console.id \in Nat
  BY DEF TypeOK, ConsoleType
<1>1. CASE SaveBroadcast \/ LookUp \/ \E u \in Users : SaveDirect(u)
  <2>1. Quiet(d)
    BY <1>1 DEF SaveBroadcast, LookUp, SaveDirect, Quiet, session, socket
  <2>2. QED BY <2>1, QuietDelivery
<1>2. CASE Offer
  <2> DEFINE c == clients[messages[console.id].recipient]
  <2>1. /\ console.at = "offering" /\ messages[console.id].recipient \in DOMAIN clients
        /\ c \in Connections /\ UserOf[c] = messages[console.id].recipient
    BY <1>2 DEF Offer, Offering, RegistryMatchesSessions, TypeOK
  <2>2. console.id \in Mine(c)
    BY <1>0, <2>1 DEF Mine
  <2>3. /\ backlog'[d] = backlog[d] /\ feed'[d] = feed[d] /\ sending'[d] = sending[d]
        /\ outgoing'[d] = outgoing[d] /\ acking'[d] = acking[d] /\ incoming'[d] = incoming[d]
        /\ queue' = queue \/ queue' = [queue EXCEPT ![c] = Append(queue[c], console.id)]
    BY <1>2 DEF Offer, socket
  <2> HIDE DEF c
  <2>4. queue[c] \in Seq(Nat) /\ queue \in [Connections -> Seq(Nat)]
    BY <2>1 DEF TypeOK
  <2>5. Items(Append(queue[c], console.id)) = Items(queue[c]) \cup {console.id}
    BY <1>0, <2>4, AppendItems
  <2>6. Items(queue'[d]) \subseteq Items(queue[d]) \cup Mine(d)
    <3>1. CASE queue' = queue
      BY <3>1
    <3>2. CASE d # c /\ queue' = [queue EXCEPT ![c] = Append(queue[c], console.id)]
      BY <2>4, <3>2
    <3>3. CASE d = c /\ queue' = [queue EXCEPT ![c] = Append(queue[c], console.id)]
      BY <2>2, <2>4, <2>5, <3>3
    <3>4. QED BY <2>3, <3>1, <3>2, <3>3
  <2>7. QED BY <2>3, <2>6, AddresseesGrow, Delivered
<1>3. CASE Publish
  <2>1. /\ feed'[d] \in {feed[d], Receive(feed[d], console.id)}
        /\ backlog'[d] = backlog[d] /\ queue'[d] = queue[d] /\ sending'[d] = sending[d]
        /\ outgoing'[d] = outgoing[d] /\ acking'[d] = acking[d] /\ incoming'[d] = incoming[d]
    BY <1>3 DEF Publish, socket
  <2>2. console.id \in Public
    BY <1>0, <1>3 DEF Publish, RowsOK, Public
  <2>3. feed[d] \in Seq(Nat)
    BY ConnectionFields
  <2>4. Items(Append(feed[d], console.id)) = Items(feed[d]) \cup {console.id}
    BY <1>0, <2>3, AppendItems
  <2>5. ASSUME Len(feed[d]) = FeedCap
        PROVE  Items(Append(Tail(feed[d]), console.id)) \subseteq Items(feed[d]) \cup {console.id}
    <3>1. feed[d] # << >>
      BY <2>5, NoItems, MessagingAssumption
    <3>2. Tail(feed[d]) \in Seq(Nat) /\ Items(Tail(feed[d])) \subseteq Items(feed[d])
      BY <2>3, <3>1, TailItems
    <3>3. ASSUME NEW rest \in Seq(Nat), Items(rest) \subseteq Items(feed[d])
          PROVE  Items(Append(rest, console.id)) \subseteq Items(feed[d]) \cup {console.id}
      <4>1. Items(Append(rest, console.id)) = Items(rest) \cup {console.id}
        BY <1>0, AppendItems
      <4>2. QED BY <3>3, <4>1
    <3>4. QED BY <3>2, <3>3
  <2>6. Items(Receive(feed[d], console.id)) \subseteq Items(feed[d]) \cup {console.id}
    BY <2>4, <2>5 DEF Receive
  <2>7. Items(feed'[d]) \subseteq Items(feed[d]) \cup Public'
    BY <2>1, <2>2, <2>6, AddresseesGrow
  <2>8. QED BY <2>1, <2>7, Delivered
<1>4. QED BY <1>1, <1>2, <1>3 DEF Console

LEMMA DeliveryStep ==
    ASSUME TypeOK, RegistryMatchesSessions, Offering, RowsOK, [Next]_vars,
           \A c \in Connections : DeliveryOK(c)
    PROVE  \A c \in Connections : DeliveryOK(c)'
<1>1. ASSUME NEW c \in Connections, Handshake(c) \/ Serve(c) \/ Client(c), NEW d \in Connections
      PROVE  DeliveryOK(d)'
  <2>1. CASE d = c
    BY <1>1, <2>1, HandshakeDelivers, ServeDelivers, ClientDelivers
  <2>2. CASE d # c
    <3>1. Quiet(d)
      BY <1>1, <2>2, ServeQuiet
    <3>2. QED BY <3>1, QuietDelivery
  <2>3. QED BY <2>1, <2>2
<1>2. ASSUME Console, NEW d \in Connections PROVE DeliveryOK(d)'
  BY <1>2, ConsoleDelivers
<1>3. ASSUME Restart, NEW d \in Connections PROVE DeliveryOK(d)'
  <2>1. /\ backlog'[d] = << >> /\ queue'[d] = << >> /\ feed'[d] = << >>
        /\ sending'[d] = NoMessage /\ incoming'[d] = << >>
        /\ outgoing'[d] = outgoing[d] /\ acking'[d] = acking[d]
    BY <1>3 DEF Restart
  <2>2. QED BY <2>1, NoItems, Delivered
<1>4. ASSUME UNCHANGED vars, NEW d \in Connections PROVE DeliveryOK(d)'
  <2>1. Quiet(d)
    BY <1>4 DEF vars, session, socket, Quiet
  <2>2. QED BY <2>1, QuietDelivery
<1>5. QED BY <1>1, <1>2, <1>3, <1>4 DEF Next
-----------------------------------------------------------------------------
LEMMA FetchedStep ==
    ASSUME TypeOK, NotYetFetched, [Next]_vars
    PROVE  NotYetFetched'
<1> DEFINE Early == {"upgrading", "failed", "fetching"}
<1>0. pc \in [Connections -> PC] /\ fetched \in [Connections -> BOOLEAN]
  BY DEF TypeOK
<1>1. ASSUME NEW c \in Connections, NEW label, label \notin Early, Goto(c, label),
             \A d \in Connections \ {c} : fetched'[d] = fetched[d]
      PROVE  NotYetFetched'
  BY <1>0, <1>1 DEF NotYetFetched, Goto
<1>2. ASSUME NEW c \in Connections, NEW label, Goto(c, label), fetched' = fetched,
             pc[c] \in Early
      PROVE  NotYetFetched'
  BY <1>0, <1>2 DEF NotYetFetched, Goto
<1>3. ASSUME pc' = pc, fetched' = fetched PROVE NotYetFetched'
  BY <1>3 DEF NotYetFetched
<1>4. ASSUME NEW c \in Connections, Handshake(c) PROVE NotYetFetched'
  <2>1. CASE Connect(c)
    BY <1>1, <2>1 DEF Connect, history
  <2>2. CASE AddClient(c)
    <3>1. CASE Goto(c, "none") /\ fetched' = fetched
      BY <1>1, <3>1
    <3>2. CASE Goto(c, "upgrading") /\ fetched' = [fetched EXCEPT ![c] = FALSE]
      BY <1>0, <3>2 DEF NotYetFetched, Goto
    <3>3. QED BY <2>2, <3>1, <3>2 DEF AddClient
  <2>3. CASE Abandon(c)
    BY <1>1, <2>3 DEF Abandon, history
  <2>4. CASE Upgrade(c)
    BY <1>2, <2>4 DEF Upgrade, history
  <2>5. CASE UpgradeFails(c)
    BY <1>2, <2>5 DEF UpgradeFails, history
  <2>6. CASE RemoveFailed(c)
    BY <1>1, <2>6 DEF RemoveFailed, history
  <2>7. QED BY <1>4, <2>1, <2>2, <2>3, <2>4, <2>5, <2>6 DEF Handshake
<1>5. ASSUME NEW c \in Connections, Serve(c) PROVE NotYetFetched'
  <2>1. CASE FetchUnread(c)
    <3>1. \A d \in Connections \ {c} : fetched'[d] = fetched[d]
      BY <1>0, <2>1 DEF FetchUnread
    <3>2. QED BY <1>1, <2>1, <3>1 DEF FetchUnread
  <2>2. CASE SendUnread(c) \/ ReceiveAck(c)
    BY <1>3, <2>2 DEF SendUnread, ReceiveAck, session, history
  <2>3. CASE TakeRequest(c)
    BY <1>1, <1>3, <2>3 DEF TakeRequest, history
  <2>4. CASE FetchFails(c)
    BY <1>1, <2>4 DEF FetchFails, history
  <2>5. CASE EnterLoop(c)
    BY <1>1, <2>5 DEF EnterLoop, history
  <2>6. CASE TakeDirect(c)
    BY <1>1, <2>6 DEF TakeDirect, history
  <2>7. CASE TakeBroadcast(c)
    BY <1>1, <2>7 DEF TakeBroadcast, history
  <2>8. CASE WriteMessage(c)
    BY <1>1, <2>8 DEF WriteMessage, history
  <2>9. CASE WriteFails(c)
    BY <1>1, <2>9 DEF WriteFails, history
  <2>10. CASE LeaveLoop(c)
    BY <1>1, <2>10 DEF LeaveLoop, history
  <2>11. CASE RemoveClient(c)
    BY <1>1, <2>11 DEF RemoveClient, history
  <2>12. QED
    BY <1>5, <2>1, <2>2, <2>3, <2>4, <2>5, <2>6, <2>7, <2>8, <2>9, <2>10, <2>11 DEF Serve
<1>6. CASE \/ \E c \in Connections : Client(c)
           \/ Console
           \/ UNCHANGED vars
  <2>1. pc' = pc /\ fetched' = fetched
    BY <1>6 DEF Client, ClientReceive, ClientAck, ClientRequest, ClientDrop,
       Console, SaveDirect, LookUp, Offer, SaveBroadcast, Publish, session, history, vars
  <2>2. QED BY <1>3, <2>1
<1>7. CASE Restart
  BY <1>7 DEF Restart, NotYetFetched
<1>8. QED BY <1>4, <1>5, <1>6, <1>7 DEF Next

(* A session that has its query behind it misses nothing: the row is in its  *)
(* hands, or the console is about to find the session in the registry.       *)
Handed(c, id) ==
    /\ pc[c] \in Registered /\ fetched[c]
    /\ messages[id].recipient = UserOf[c] /\ ~messages[id].is_read
    => id \in handed[c] \/ console.id = id

LEMMA HandedEverywhere ==
    /\ NoMissedDirect <=> \A c \in Connections, id \in Ids : Handed(c, id)
    /\ NoMissedDirect' <=> \A c \in Connections, id \in Ids' : Handed(c, id)'
BY DEF NoMissedDirect, Handed

(* A step that only opens or closes the session of c, or that changes none.  *)
LEMMA HandedKept ==
    ASSUME TypeOK, [Next]_vars, NoMissedDirect, NEW c \in Connections,
           Len(messages') = Len(messages), console' = console,
           (pc'[c] \in Registered /\ fetched'[c]) => (pc[c] \in Registered /\ fetched[c]),
           handed[c] \subseteq handed'[c]
    PROVE  \A id \in Ids' : Handed(c, id)'
<1>1. /\ \A id \in Ids : Handed(c, id)
      /\ \A id \in Ids : messages'[id].recipient = messages[id].recipient
      /\ \A id \in Ids : messages[id].is_read => messages'[id].is_read
  BY HandedEverywhere, TableGrows
<1>2. Ids' = Ids
  BY DEF Ids
<1>3. ASSUME NEW id \in Ids, pc'[c] \in Registered, fetched'[c],
             messages'[id].recipient = UserOf[c], ~messages'[id].is_read
      PROVE  id \in handed'[c] \/ console'.id = id
  <2>1. pc[c] \in Registered /\ fetched[c]
    BY <1>3
  <2>2. messages[id].recipient = UserOf[c] /\ ~messages[id].is_read
    BY <1>1, <1>3, Zenon
  <2>3. id \in handed[c] \/ console.id = id
    <3>1. Handed(c, id)
      BY <1>1, <1>3
    <3>2. QED BY <2>1, <2>2, <3>1, Zenon DEF Handed
  <2>4. QED BY <2>3
<1>4. QED BY <1>2, <1>3 DEF Handed

LEMMA SessionsMissNothing ==
    ASSUME TypeOK, RowsOK, NotYetFetched, NoMissedDirect, [Next]_vars,
           NEW c \in Connections, Handshake(c) \/ Serve(c) \/ Client(c)
    PROVE  NoMissedDirect'
<1>0. /\ pc \in [Connections -> PC] /\ fetched \in [Connections -> BOOLEAN]
      /\ handed \in [Connections -> SUBSET Nat]
  BY DEF TypeOK
<1>1. Len(messages') = Len(messages) /\ console' = console
  <2>1. \/ UNCHANGED << messages, console >>
        \/ console' = console /\ Marked(c)
    BY DEF Handshake, Connect, AddClient, Abandon, Upgrade, UpgradeFails, RemoveFailed,
       Serve, FetchUnread, FetchFails, SendUnread, EnterLoop, ReceiveAck, TakeRequest, TakeDirect,
       TakeBroadcast, WriteMessage, WriteFails, LeaveLoop, RemoveClient,
       Client, ClientReceive, ClientAck, ClientRequest, ClientDrop, Marked, history
  <2>2. QED BY <2>1, MarkedRow
<1>2. ASSUME NEW d \in Connections \ {c} PROVE \A id \in Ids' : Handed(d, id)'
  <2>1. pc'[d] = pc[d] /\ fetched'[d] = fetched[d] /\ handed'[d] = handed[d]
    BY <1>0 DEF Handshake, Connect, AddClient, Abandon, Upgrade, UpgradeFails, RemoveFailed,
       Serve, FetchUnread, FetchFails, SendUnread, EnterLoop, ReceiveAck, TakeRequest, TakeDirect,
       TakeBroadcast, WriteMessage, WriteFails, LeaveLoop, RemoveClient,
       Client, ClientReceive, ClientAck, ClientRequest, ClientDrop, Goto, session, history
  <2>2. QED BY <1>1, <2>1, HandedKept
<1>3. CASE FetchUnread(c)
  <2>1. /\ messages' = messages /\ handed'[c] = handed[c] \cup Unread(UserOf[c])
    BY <1>0, <1>3 DEF FetchUnread
  <2>2. ASSUME NEW id \in Ids, messages[id].recipient = UserOf[c], ~messages[id].is_read
        PROVE  id \in Unread(UserOf[c])
    <3>1. messages[id].kind = "direct" /\ id # NoMessage
      BY <2>2, ConnectionFields DEF RowsOK, Ids, NoMessage
    <3>2. QED BY <2>2, <3>1 DEF Unread, IsDirect, Ids
  <2>3. \A id \in Ids' : Handed(c, id)'
    BY <2>1, <2>2 DEF Handed, Ids
  <2>4. QED BY <1>2, <2>3, HandedEverywhere
<1>4. CASE AddClient(c)
  <2>1. ~(pc'[c] \in Registered /\ fetched'[c])
    BY <1>0, <1>4 DEF AddClient, Goto, Registered, PC
  <2>2. \A id \in Ids' : Handed(c, id)'
    BY <2>1 DEF Handed
  <2>3. QED BY <1>2, <2>2, HandedEverywhere
<1>5. CASE ~FetchUnread(c) /\ ~AddClient(c)
  <2>1. handed' = handed /\ fetched' = fetched
    BY <1>5 DEF Handshake, Connect, Abandon, Upgrade, UpgradeFails, RemoveFailed,
       Serve, FetchFails, SendUnread, EnterLoop, ReceiveAck, TakeRequest, TakeDirect,
       TakeBroadcast, WriteMessage, WriteFails, LeaveLoop, RemoveClient,
       Client, ClientReceive, ClientAck, ClientRequest, ClientDrop, history
  <2>2. pc'[c] \in Registered => pc[c] \in Registered
    BY <1>0, <1>5 DEF Handshake, Connect, Abandon, Upgrade, UpgradeFails, RemoveFailed,
       Serve, FetchFails, SendUnread, EnterLoop, ReceiveAck, TakeRequest, TakeDirect,
       TakeBroadcast, WriteMessage, WriteFails, LeaveLoop, RemoveClient,
       Client, ClientReceive, ClientAck, ClientRequest, ClientDrop, Goto, session, Registered, PC
  <2>3. \A id \in Ids' : Handed(c, id)'
    BY <1>1, <2>1, <2>2, HandedKept
  <2>4. QED BY <1>2, <2>3, HandedEverywhere
<1>6. QED BY <1>3, <1>4, <1>5

LEMMA ConsoleMissesNothing ==
    ASSUME TypeOK, RegistryMatchesSessions, Offering, RowsOK, NotYetFetched, NoMissedDirect,
           [Next]_vars, Console
    PROVE  NoMissedDirect'
<1>0. /\ console \in ConsoleType /\ (console.at # "idle" => console.id \in Ids)
      /\ handed \in [Connections -> SUBSET Nat]
      /\ pc' = pc /\ fetched' = fetched
      /\ Len(messages) \in Nat
      /\ \A c \in Connections, id \in Ids : Handed(c, id)
      /\ \A id \in Ids : messages'[id].recipient = messages[id].recipient
  <2>1. pc' = pc /\ fetched' = fetched
    BY DEF Console, SaveDirect, LookUp, Offer, SaveBroadcast, Publish, session, history
  <2>2. QED BY <2>1, HandedEverywhere, TableGrows DEF TypeOK, ConsoleType
<1>1. ASSUME NEW k \in {"direct", "broadcast"}, NEW r \in Users \cup {NoUser}, Save(k, r),
             console.at = "idle", console'.id = Len(messages) + 1, handed' = handed
      PROVE  NoMissedDirect'
  <2>1. /\ Len(messages') = Len(messages) + 1
        /\ \A id \in Ids : messages'[id] = messages[id]
    BY <1>1, SavedType
  <2>2. \A id \in Ids' : id \in Ids \/ id = console'.id
    BY <1>0, <1>1, <2>1 DEF Ids
  <2>3. \A id \in Ids : id # console.id
    BY <1>1 DEF RowsOK, Ids
  <2>4. ASSUME NEW c \in Connections, NEW id \in Ids' PROVE Handed(c, id)'
    <3>1. CASE id = console'.id
      BY <3>1 DEF Handed
    <3>2. CASE id \in Ids
      BY <1>0, <1>1, <2>1, <2>3, <3>2 DEF Handed
    <3>3. QED BY <2>2, <3>1, <3>2
  <2>5. QED BY <2>4, HandedEverywhere
<1>2. ASSUME NEW u \in Users, SaveDirect(u) PROVE NoMissedDirect'
  BY <1>1, <1>2 DEF SaveDirect, history
<1>3. CASE SaveBroadcast
  BY <1>1, <1>3 DEF SaveBroadcast, history
<1>4. CASE LookUp
  <2>1. UNCHANGED << messages, handed >> /\ Ids' = Ids
    BY <1>4 DEF LookUp, history, Ids
  <2>2. CASE console'.id = console.id
    BY <1>0, <2>1, <2>2, HandedEverywhere DEF Handed
  <2>3. CASE messages[console.id].recipient \notin DOMAIN clients
    <3>1. ASSUME NEW c \in Connections, pc[c] \in Registered
          PROVE  messages[console.id].recipient # UserOf[c]
      BY <2>3, <3>1 DEF RegistryMatchesSessions
    <3>2. ASSUME NEW c \in Connections, NEW id \in Ids PROVE Handed(c, id)'
      BY <1>0, <2>1, <3>1 DEF Handed
    <3>3. QED BY <2>1, <3>2, HandedEverywhere
  <2>4. QED BY <1>0, <1>4, <2>2, <2>3, OfferingType DEF LookUp
<1>5. CASE Offer
  <2> DEFINE c == clients[messages[console.id].recipient]
  <2>1. /\ messages[console.id].recipient \in DOMAIN clients /\ c \in Connections
    BY <1>5 DEF Offer, Offering, TypeOK
  <2>2. \A d \in Connections : pc[d] \in Registered /\ UserOf[d] = messages[console.id].recipient
           => d = c
    BY DEF RegistryMatchesSessions
  <2>3. UNCHANGED messages /\ Ids' = Ids
    BY <1>5 DEF Offer, Ids
  <2>4. \/ pc[c] = "failed" /\ handed' = handed
        \/ handed' = [handed EXCEPT ![c] = handed[c] \cup {console.id}]
    BY <1>5 DEF Offer
  <2>5. pc[c] = "failed" => ~fetched[c]
    BY <2>1 DEF NotYetFetched
  <2> HIDE DEF c
  <2>6. \A d \in Connections : handed[d] \subseteq handed'[d]
    BY <1>0, <2>1, <2>4
  <2>7. ASSUME NEW d \in Connections, NEW id \in Ids PROVE Handed(d, id)'
    <3>1. CASE id = console.id
      <4>1. ASSUME pc[d] \in Registered, fetched[d], messages[id].recipient = UserOf[d]
            PROVE  id \in handed'[d]
        <5>1. d = c /\ pc[c] # "failed"
          BY <2>2, <2>5, <3>1, <4>1
        <5>2. QED BY <1>0, <2>4, <3>1, <5>1
      <4>2. QED BY <1>0, <2>3, <4>1 DEF Handed
    <3>2. CASE id # console.id
      BY <1>0, <2>3, <2>6, <3>2 DEF Handed
    <3>3. QED BY <3>1, <3>2
  <2>8. QED BY <2>3, <2>7, HandedEverywhere
<1>6. CASE Publish
  <2>1. UNCHANGED << messages, handed >> /\ Ids' = Ids
    BY <1>6 DEF Publish, history, Ids
  <2>2. \A c \in Connections : messages[console.id].recipient # UserOf[c]
    BY <1>6, MessagingAssumption DEF Publish, RowsOK
  <2>3. ASSUME NEW c \in Connections, NEW id \in Ids PROVE Handed(c, id)'
    BY <1>0, <2>1, <2>2 DEF Handed
  <2>4. QED BY <2>1, <2>3, HandedEverywhere
<1>7. QED BY <1>2, <1>3, <1>4, <1>5, <1>6 DEF Console

LEMMA MissedStep ==
    ASSUME TypeOK, RegistryMatchesSessions, Offering, RowsOK, NotYetFetched, NoMissedDirect,
           [Next]_vars
    PROVE  NoMissedDirect'
<1>1. CASE Restart
  <2>1. \A c \in Connections : pc'[c] \notin Registered
    BY <1>1 DEF Restart, Registered, PC
  <2>2. QED BY <2>1 DEF NoMissedDirect
<1>2. CASE UNCHANGED vars
  BY <1>2 DEF NoMissedDirect, vars, session, history, Ids
<1>3. QED BY <1>1, <1>2, SessionsMissNothing, ConsoleMissesNothing DEF Next
-----------------------------------------------------------------------------
LEMMA InitIInv == Init => IInv
<1> SUFFICES ASSUME Init PROVE IInv
  OBVIOUS
<1> USE MessagingAssumption, NoItems, NoDomain
<1>1. /\ DOMAIN clients = {} /\ Len(messages) = 0 /\ Ids = {} /\ seen = {}
      /\ console = Idle /\ guard = FALSE
  BY DEF Init, Ids
<1>2. Shared
  <2>1. messages \in Seq(MessageType)
    BY EmptySeq DEF Init
  <2>2. QED BY <1>1, <2>1, IdleType DEF Init, Shared, ConsoleType
<1>3. Slots
  BY DEF Init, Slots, NoMessage, PC
<1>4. Channels
  BY DEF Init, Channels, Channel
<1>5. TypeOK
  BY <1>2, <1>3, <1>4, TypeParts
<1>6. RegistryMatchesSessions /\ Offering /\ RowsOK
  BY <1>1, IdleType DEF Init, RegistryMatchesSessions, Offering, RowsOK, Registered, PC
<1>7. \A c \in Connections : DeliveryOK(c)
  BY DEF Init, DeliveryOK, NoMessage
<1>8. NotYetFetched /\ NoMissedDirect
  BY <1>1 DEF Init, NotYetFetched, NoMissedDirect
<1>9. QED BY <1>5, <1>6, <1>7, <1>8 DEF IInv

LEMMA NextIInv == IInv /\ [Next]_vars => IInv'
BY TypeStep, RegistryStep, OfferingStep, RowsStep, DeliveryStep, FetchedStep, MissedStep DEF IInv

LEMMA Invariant == Spec => []IInv
BY InitIInv, NextIInv, PTL DEF Spec
-----------------------------------------------------------------------------
(* Every variable keeps its type, and no channel holds more than it can.     *)
THEOREM TypeCorrect == Spec => []TypeOK
<1>1. IInv => TypeOK
  BY DEF IInv
<1>2. QED BY <1>1, Invariant, PTL

(* The registry and the sessions agree in every state: remove_client, which  *)
(* removes by user, only ever takes away its own entry.                      *)
THEOREM RegistryNamesSessions == Spec => []RegistryMatchesSessions
<1>1. IInv => RegistryMatchesSessions
  BY DEF IInv
<1>2. QED BY <1>1, Invariant, PTL

(* No direct message falls between the query for unread messages and the     *)
(* channel of a session.                                                     *)
THEOREM NoDirectMissed == Spec => []NoMissedDirect
<1>1. IInv => NoMissedDirect
  BY DEF IInv
<1>2. QED BY <1>1, Invariant, PTL
-----------------------------------------------------------------------------
(* The refinement of the mailbox.                                            *)
Recipients == [id \in Ids |-> messages[id].recipient]

Confirmed == {id \in Ids : messages[id].is_read}

LEMMA RecipientsList ==
    ASSUME NEW table \in Seq(MessageType)
    PROVE  LET list == [id \in 1 .. Len(table) |-> table[id].recipient] IN
           /\ list \in Seq(Users \cup {NoUser})
           /\ Len(table) \in Nat /\ Len(list) = Len(table)
           /\ \A id \in 1 .. Len(table) : list[id] = table[id].recipient
<1> DEFINE list == [id \in 1 .. Len(table) |-> table[id].recipient]
<1>1. Len(table) \in Nat /\ \A id \in 1 .. Len(table) : table[id].recipient \in Users \cup {NoUser}
  <2>1. \A id \in 1 .. Len(table) : table[id] \in MessageType
    BY LenProperties
  <2>2. QED BY <2>1, LenProperties DEF MessageType
<1>2. list \in [1 .. Len(table) -> Users \cup {NoUser}]
  BY <1>1
<1>3. \A id \in 1 .. Len(table) : list[id] = table[id].recipient
  OBVIOUS
<1> HIDE DEF list
<1>4. list \in Seq(Users \cup {NoUser}) /\ Len(list) = Len(table)
  BY <1>1, <1>2
<1>5. QED BY <1>1, <1>3, <1>4 DEF list

LEMMA BoxStep ==
    ASSUME IInv, [Next]_vars
    PROVE  [Box!BoxNext]_(Box!boxVars)
<1> USE DEF IInv
<1>0. /\ TypeOK' /\ TypeOK
      /\ Len(messages) \in Nat /\ Ids = 1 .. Len(messages)
      /\ Recipients \in Seq(Users \cup {NoUser}) /\ Len(Recipients) = Len(messages)
      /\ \A id \in Ids : Recipients[id] = messages[id].recipient
      /\ Recipients' \in Seq(Users \cup {NoUser}) /\ Len(Recipients') = Len(messages')
      /\ \A id \in Ids' : Recipients'[id] = messages'[id].recipient
      /\ \A id \in Ids : messages'[id].recipient = messages[id].recipient
  <2>1. TypeOK' /\ messages \in Seq(MessageType) /\ messages' \in Seq(MessageType)
    BY TypeStep DEF TypeOK
  <2>2. /\ Len(messages) \in Nat
        /\ Recipients \in Seq(Users \cup {NoUser}) /\ Len(Recipients) = Len(messages)
        /\ \A id \in Ids : Recipients[id] = messages[id].recipient
    BY <2>1, RecipientsList DEF Recipients, Ids
  <2>3. /\ Recipients' \in Seq(Users \cup {NoUser}) /\ Len(Recipients') = Len(messages')
        /\ \A id \in Ids' : Recipients'[id] = messages'[id].recipient
    BY <2>1, RecipientsList DEF Recipients, Ids
  <2>4. \A id \in Ids : messages'[id].recipient = messages[id].recipient
    BY TableGrows
  <2>5. QED BY <2>1, <2>2, <2>3, <2>4 DEF Ids
<1>1. /\ Box!boxVars = << Recipients, seen, Confirmed >>
      /\ Box!boxVars' = << Recipients', seen', Confirmed' >>
  BY DEF Box!boxVars, Recipients, Confirmed
<1>2. ASSUME NEW r \in Users \cup {NoUser},
             Recipients' = Append(Recipients, r), seen' = seen, Confirmed' = Confirmed
      PROVE  Box!BoxNext
  BY <1>2 DEF Box!BoxNext, Box!Post, Recipients, Confirmed
<1>3. ASSUME NEW u \in Users, NEW id \in 1 .. Len(Recipients), Recipients[id] \in {u, NoUser},
             seen' = seen \cup {<< u, id >>}, Recipients' = Recipients, Confirmed' = Confirmed
      PROVE  Box!BoxNext
  BY <1>3 DEF Box!BoxNext, Box!Display, Recipients, Confirmed
<1>4. ASSUME NEW id \in 1 .. Len(Recipients), Recipients[id] # NoUser,
             << Recipients[id], id >> \in seen,
             Confirmed' = Confirmed \cup {id}, Recipients' = Recipients, seen' = seen
      PROVE  Box!BoxNext
  BY <1>4 DEF Box!BoxNext, Box!Confirm, Recipients, Confirmed
<1>5. ASSUME UNCHANGED << messages, seen >> PROVE UNCHANGED Box!boxVars
  <2>1. Ids' = Ids
    BY <1>5 DEF Ids
  <2>2. Recipients' = Recipients /\ Confirmed' = Confirmed
    BY <1>5, <2>1 DEF Recipients, Confirmed
  <2>3. QED BY <1>1, <1>5, <2>2
<1>6. ASSUME NEW k \in {"direct", "broadcast"}, NEW r \in Users \cup {NoUser}, Posted(k, r)
      PROVE  Box!BoxNext
  <2>1. /\ Len(messages') = Len(messages) + 1
        /\ \A id \in Ids : messages'[id] = messages[id]
        /\ messages'[Len(messages) + 1] = [kind |-> k, recipient |-> r, is_read |-> FALSE]
    BY <1>6, SavedType DEF Posted
  <2>2. \A id : id \in Ids' <=> id \in Ids \/ id = Len(messages) + 1
    BY <1>0, <2>1 DEF Ids
  <2>3. Recipients' = Append(Recipients, r)
    <3>1. /\ Append(Recipients, r) \in Seq(Users \cup {NoUser})
          /\ Len(Append(Recipients, r)) = Len(Recipients) + 1
          /\ \A id \in 1 .. Len(Recipients) : Append(Recipients, r)[id] = Recipients[id]
          /\ Append(Recipients, r)[Len(Recipients) + 1] = r
      BY <1>0, AppendProperties
    <3>2. \A id \in 1 .. Len(Recipients') : Recipients'[id] = Append(Recipients, r)[id]
      <4>1. ASSUME NEW id \in Ids' PROVE Recipients'[id] = Append(Recipients, r)[id]
        <5>1. CASE id \in Ids
          BY <1>0, <3>1, <5>1
        <5>2. CASE id = Len(messages) + 1
          BY <1>0, <2>1, <3>1, <5>2
        <5>3. QED BY <2>2, <5>1, <5>2
      <4>2. QED BY <1>0, <4>1 DEF Ids
    <3>3. QED BY <1>0, <2>1, <3>1, <3>2, SeqEqual
  <2>4. Confirmed' = Confirmed
    <3>1. \A id : id \in Confirmed' <=> id \in Confirmed
      <4>1. ~messages'[Len(messages) + 1].is_read
        BY <2>1
      <4>2. QED BY <2>1, <2>2, <4>1 DEF Confirmed
    <3>2. QED BY <3>1
  <2>5. QED BY <1>2, <1>6, <2>3, <2>4 DEF Posted
<1>7. ASSUME NEW c \in Connections, Marked(c)
      PROVE  [Box!BoxNext]_(Box!boxVars)
  <2> DEFINE id == Head(incoming[c])
  <2>1. seen' = seen
    BY <1>7 DEF Marked
  <2>2. CASE messages' = messages
    BY <1>5, <2>1, <2>2
  <2>3. CASE messages' # messages
    <3>1. /\ id \in Ids /\ messages[id].recipient = UserOf[c] /\ Len(messages') = Len(messages)
          /\ messages'[id].is_read
          /\ \A other \in Ids \ {id} : messages'[other] = messages[other]
      BY <1>7, <2>3, MarkedRow
    <3>2. << UserOf[c], id >> \in seen
      <4>1. incoming[c] \in Seq(Nat) /\ incoming[c] # << >> /\ id # NoMessage
        BY <1>7, ConnectionFields DEF Marked
      <4>2. id \in Items(incoming[c])
        BY <4>1, TailItems
      <4>3. QED BY <4>1, <4>2 DEF DeliveryOK, Shown
    <3>3. Ids' = Ids
      BY <3>1 DEF Ids
    <3>4. Recipients' = Recipients
      BY <1>0, <3>3 DEF Recipients
    <3>5. Confirmed' = Confirmed \cup {id}
      <4>1. \A other : other \in Confirmed' <=> other \in Confirmed \/ other = id
        BY <3>1, <3>3 DEF Confirmed
      <4>2. QED BY <4>1
    <3>6. /\ id \in 1 .. Len(Recipients) /\ Recipients[id] # NoUser
          /\ << Recipients[id], id >> \in seen
      BY <1>0, <3>1, <3>2, MessagingAssumption, ConnectionFields
    <3> HIDE DEF id
    <3>7. QED BY <1>4, <2>1, <3>4, <3>5, <3>6
  <2>4. QED BY <2>2, <2>3
<1>8. ASSUME NEW c \in Connections, ShownTo(c)
      PROVE  Box!BoxNext
  <2> DEFINE id == Head(outgoing[c])
  <2>1. /\ messages' = messages /\ seen' = seen \cup {<< UserOf[c], id >>}
        /\ id \in Mine(c) \cup Public
    BY <1>8, ReceivedIsForUser DEF ShownTo
  <2>2. Ids' = Ids /\ UserOf[c] \in Users
    BY <2>1, ConnectionFields DEF Ids
  <2>3. Recipients' = Recipients /\ Confirmed' = Confirmed
    BY <2>1, <2>2 DEF Recipients, Confirmed
  <2>4. id \in 1 .. Len(Recipients) /\ Recipients[id] \in {UserOf[c], NoUser}
    BY <1>0, <2>1 DEF Mine, Public
  <2> HIDE DEF id
  <2>5. QED BY <1>3, <2>1, <2>2, <2>3, <2>4
<1>9. QED BY <1>5, <1>6, <1>7, <1>8, TableSteps

(* The registry, the sessions, the channels and the acknowledgements         *)
(* implement the mailbox.                                                    *)
THEOREM MailboxImplemented == Spec => ImplementsMailbox
<1>1. Init => Box!BoxInit
  <2> SUFFICES ASSUME Init PROVE Box!BoxInit
    OBVIOUS
  <2>1. TypeOK /\ Len(messages) = 0 /\ Ids = {} /\ seen = {}
    BY InitIInv, NoItems DEF Init, Ids, IInv
  <2>2. Recipients = << >>
    <3>1. Recipients \in Seq(Users \cup {NoUser}) /\ Len(Recipients) = 0
      BY <2>1, RecipientsList DEF Recipients, Ids, TypeOK
    <3>2. QED BY <3>1, EmptySeq, SeqEqual
  <2>3. QED BY <2>1, <2>2 DEF Box!BoxInit, Recipients
<1>2. IInv /\ [Next]_vars => [Box!BoxNext]_(Box!boxVars)
  BY BoxStep
<1>3. QED BY <1>1, <1>2, Invariant, PTL DEF Spec, ImplementsMailbox, Box!BoxSpec
-----------------------------------------------------------------------------
(***************************************************************************)
(* The order in which messages are shown.                                  *)
(***************************************************************************)
Displayed(c) == {id \in Nat : << UserOf[c], id >> \in seen}

(* Every message of list that is in mine comes after all those of mine that  *)
(* are older, which are in ahead or earlier in the list.                     *)
Follows(mine, list, ahead) ==
    \A i \in 1 .. Len(list) : list[i] \in mine =>
        \A id \in mine : id < list[i] => id \in ahead \/ \E j \in 1 .. i - 1 : list[j] = id

Rising(all, list) ==
    \A i, j \in 1 .. Len(list) : i < j /\ list[i] \in all /\ list[j] \in all => list[i] < list[j]

Below(A, B) == \A a \in A, b \in B : a < b

Ascending(A, B, C, D) == Below(A, B \cup C \cup D) /\ Below(B, C \cup D) /\ Below(C, D)

(* What a session holds depends on where it is; what is in flight, on the    *)
(* link.                                                                     *)
PlacesOK(c) ==
    /\ pc[c] # "sending" => sending[c] = NoMessage
    /\ pc[c] # "pending" => backlog[c] = << >>
    /\ pc[c] = "fetching" => outgoing[c] = << >>
    /\ link[c] = "down" => outgoing[c] = << >>
    /\ link[c] = "up" => pc[c] \in Subscribed
    /\ link[c] = "closing" => pc[c] = "none"

(* Direct messages: from the client inwards, each place follows those nearer *)
(* to the client.  A session the console can find has all it was handed      *)
(* somewhere on the way, unless the link broke.                              *)
DirectOrder(c) ==
    /\ fetched[c] /\ link[c] # "down" => Follows(Mine(c), outgoing[c], Displayed(c))
    /\ fetched[c] /\ link[c] = "up" =>
          /\ Follows(Mine(c), << sending[c] >>, Displayed(c) \cup Items(outgoing[c]))
          /\ Follows(Mine(c), backlog[c], Displayed(c) \cup Items(outgoing[c]))
          /\ Follows(Mine(c), queue[c], Displayed(c) \cup Items(outgoing[c])
                                          \cup {sending[c]} \cup Items(backlog[c]))

HandedOnTheWay(c) ==
    link[c] = "up" \/ pc[c] = "upgrading" =>
        handed[c] \subseteq {NoMessage} \cup Displayed(c) \cup Items(outgoing[c])
                              \cup {sending[c]} \cup Items(backlog[c]) \cup Items(queue[c])

BroadcastsIn(list) == Items(list) \cap Public

(* Broadcasts: each place holds later ones than those nearer to the client,  *)
(* and the console publishes one that is later than all.                     *)
BroadcastOrder(c) ==
    LET shown == {heard[c]}
        flying == BroadcastsIn(outgoing[c])
        written == {sending[c]} \cap Public
        held == BroadcastsIn(feed[c])
    IN  /\ heard[c] \in {0} \cup Public
        /\ Rising(Public, outgoing[c]) /\ Rising(Public, feed[c])
        /\ Ascending(shown, flying, written, held)
        /\ console.at = "publishing" =>
              Below(shown \cup flying \cup written \cup held, {console.id})

Ordered ==
    \A c \in Connections :
        PlacesOK(c) /\ DirectOrder(c) /\ HandedOnTheWay(c) /\ BroadcastOrder(c)
-----------------------------------------------------------------------------
(* Lists that follow, and lists that rise.                                   *)
LEMMA FollowsNothing ==
    ASSUME NEW mine, NEW ahead
    PROVE  Follows(mine, << >>, ahead)
BY NoItems DEF Follows

LEMMA FollowsMore ==
    ASSUME NEW mine, NEW list, NEW ahead, NEW more,
           Follows(mine, list, ahead), ahead \cap mine \subseteq more
    PROVE  Follows(mine, list, more)
BY DEF Follows

LEMMA FollowsHead ==
    ASSUME NEW mine, NEW list \in Seq(Nat), NEW ahead, list # << >>,
           Follows(mine, list, ahead), Head(list) \in mine
    PROVE  \A id \in mine : id < Head(list) => id \in ahead
<1>1. 1 \in 1 .. Len(list) /\ Head(list) = list[1] /\ 1 .. 1 - 1 = {}
  BY TailItems, HeadTailProperties
<1>2. QED BY <1>1 DEF Follows

LEMMA FollowsTail ==
    ASSUME NEW mine, NEW list \in Seq(Nat), NEW ahead, list # << >>,
           Follows(mine, list, ahead)
    PROVE  Follows(mine, Tail(list), ahead \cup {Head(list)})
<1>1. /\ Len(list) \in Nat \ {0} /\ Len(Tail(list)) = Len(list) - 1
      /\ \A i \in 1 .. Len(Tail(list)) : Tail(list)[i] = list[i + 1]
      /\ Head(list) = list[1]
  BY TailItems, HeadTailProperties
<1>2. ASSUME NEW i \in 1 .. Len(Tail(list)), Tail(list)[i] \in mine,
             NEW id \in mine, id < Tail(list)[i]
      PROVE  id \in ahead \cup {Head(list)} \/ \E j \in 1 .. i - 1 : Tail(list)[j] = id
  <2>1. i + 1 \in 1 .. Len(list) /\ list[i + 1] \in mine /\ id < list[i + 1]
    BY <1>1, <1>2
  <2>2. id \in ahead \/ \E j \in 1 .. (i + 1) - 1 : list[j] = id
    BY <2>1 DEF Follows
  <2>3. ASSUME NEW j \in 1 .. (i + 1) - 1, list[j] = id
        PROVE  id = Head(list) \/ \E k \in 1 .. i - 1 : Tail(list)[k] = id
    <3>1. CASE j = 1
      BY <1>1, <2>3, <3>1
    <3>2. CASE j # 1
      <4>1. j - 1 \in 1 .. i - 1 /\ j - 1 \in 1 .. Len(Tail(list)) /\ (j - 1) + 1 = j
        BY <1>1, <3>2
      <4>2. Tail(list)[j - 1] = id
        BY <1>1, <2>3, <4>1
      <4>3. QED BY <4>1, <4>2
    <3>3. QED BY <3>1, <3>2
  <2>4. QED BY <2>2, <2>3
<1>3. QED BY <1>2 DEF Follows

LEMMA FollowsAppend ==
    ASSUME NEW mine, NEW list \in Seq(Nat), NEW ahead, NEW e \in Nat,
           Follows(mine, list, ahead),
           e \in mine => \A id \in mine : id < e => id \in ahead \cup Items(list)
    PROVE  Follows(mine, Append(list, e), ahead)
<1>1. /\ Len(list) \in Nat /\ Len(Append(list, e)) = Len(list) + 1
      /\ \A i \in 1 .. Len(list) : Append(list, e)[i] = list[i]
      /\ Append(list, e)[Len(list) + 1] = e
  BY AppendProperties, LenProperties
<1>2. ASSUME NEW i \in 1 .. Len(Append(list, e)), Append(list, e)[i] \in mine,
             NEW id \in mine, id < Append(list, e)[i]
      PROVE  id \in ahead \/ \E j \in 1 .. i - 1 : Append(list, e)[j] = id
  <2>1. CASE i \in 1 .. Len(list)
    <3>1. id \in ahead \/ \E j \in 1 .. i - 1 : list[j] = id
      BY <1>1, <1>2, <2>1 DEF Follows
    <3>2. \A j \in 1 .. i - 1 : j \in 1 .. Len(list)
      BY <1>1, <2>1
    <3>3. QED BY <1>1, <3>1, <3>2
  <2>2. CASE i = Len(list) + 1
    <3>1. id \in ahead \cup Items(list)
      BY <1>1, <1>2, <2>2
    <3>2. 1 .. i - 1 = 1 .. Len(list)
      BY <1>1, <2>2
    <3>3. QED BY <1>1, <3>1, <3>2 DEF Items
  <2>3. QED BY <1>1, <2>1, <2>2
<1>3. QED BY <1>2 DEF Follows

LEMMA FollowsOne ==
    ASSUME NEW mine, NEW e, NEW ahead
    PROVE  Follows(mine, << e >>, ahead) <=>
              (e \in mine => \A id \in mine : id < e => id \in ahead)
<1>1. Len(<< e >>) = 1 /\ 1 .. 1 = {1} /\ << e >>[1] = e /\ 1 .. 1 - 1 = {}
  OBVIOUS
<1>2. QED BY <1>1 DEF Follows

(* A newer message for the user changes nothing.                             *)
LEMMA FollowsStill ==
    ASSUME NEW mine, NEW all, NEW list \in Seq(Nat), NEW ahead, NEW more,
           Follows(mine, list, ahead), ahead \cap mine \subseteq more,
           \A id \in all : id \in mine \/ \A i \in 1 .. Len(list) : ~(id < list[i]) /\ id # list[i]
    PROVE  Follows(all, list, more)
BY DEF Follows

LEMMA OneItem ==
    ASSUME NEW e \in Nat
    PROVE  << e >> \in Seq(Nat) /\ Len(<< e >>) = 1 /\ << e >>[1] = e
OBVIOUS

LEMMA RisingNothing == \A all : Rising(all, << >>)
BY NoItems DEF Rising

LEMMA RisingHead ==
    ASSUME NEW all, NEW list \in Seq(Nat), list # << >>, Rising(all, list)
    PROVE  /\ Rising(all, Tail(list))
           /\ Head(list) \in all => Below({Head(list)}, Items(Tail(list)) \cap all)
<1>1. /\ Len(list) \in Nat \ {0} /\ Len(Tail(list)) = Len(list) - 1
      /\ \A i \in 1 .. Len(Tail(list)) : Tail(list)[i] = list[i + 1]
      /\ Head(list) = list[1]
  BY TailItems, HeadTailProperties
<1>2. /\ \A i \in 1 .. Len(Tail(list)) : i + 1 \in 1 .. Len(list) /\ 1 < i + 1
      /\ 1 \in 1 .. Len(list)
      /\ \A i, j \in 1 .. Len(Tail(list)) : i < j => i + 1 < j + 1
  BY <1>1
<1>3. Rising(all, Tail(list))
  BY <1>1, <1>2 DEF Rising
<1>4. ASSUME Head(list) \in all, NEW b \in Items(Tail(list)) \cap all
      PROVE  Head(list) < b
  <2>1. PICK i \in 1 .. Len(Tail(list)) : b = Tail(list)[i]
    BY <1>4 DEF Items
  <2>2. QED BY <1>1, <1>2, <1>4, <2>1 DEF Rising
<1>5. QED BY <1>3, <1>4 DEF Below

LEMMA RisingAppend ==
    ASSUME NEW all, NEW list \in Seq(Nat), NEW e \in Nat, Rising(all, list),
           e \in all => Below(Items(list) \cap all, {e})
    PROVE  Rising(all, Append(list, e))
<1>1. /\ Len(list) \in Nat /\ Len(Append(list, e)) = Len(list) + 1
      /\ \A i \in 1 .. Len(list) : Append(list, e)[i] = list[i]
      /\ Append(list, e)[Len(list) + 1] = e
  BY AppendProperties, LenProperties
<1>2. ASSUME NEW i \in 1 .. Len(Append(list, e)), NEW j \in 1 .. Len(Append(list, e)), i < j,
             Append(list, e)[i] \in all, Append(list, e)[j] \in all
      PROVE  Append(list, e)[i] < Append(list, e)[j]
  <2>1. i \in 1 .. Len(list) /\ (j \in 1 .. Len(list) \/ j = Len(list) + 1)
    BY <1>1, <1>2
  <2>2. CASE j \in 1 .. Len(list)
    BY <1>1, <1>2, <2>1, <2>2 DEF Rising
  <2>3. CASE j = Len(list) + 1
    <3>1. list[i] \in Items(list) \cap all /\ e \in all
      BY <1>1, <1>2, <2>1, <2>3 DEF Items
    <3>2. QED BY <1>1, <2>1, <2>3, <3>1 DEF Below
  <2>4. QED BY <2>1, <2>2, <2>3
<1>3. QED BY <1>2 DEF Rising

LEMMA RisingStill ==
    ASSUME NEW some, NEW all, NEW list, Rising(some, list), Items(list) \cap all \subseteq some
    PROVE  Rising(all, list)
BY DEF Rising, Items
-----------------------------------------------------------------------------
(* A step of one connection leaves the others where they are.                *)
Undisturbed(c) ==
    /\ Quiet(c)
    /\ pc'[c] = pc[c] /\ link'[c] = link[c] /\ fetched'[c] = fetched[c]
    /\ handed'[c] = handed[c] /\ heard'[c] = heard[c]

LEMMA OthersUndisturbed ==
    ASSUME TypeOK, NEW c \in Connections, NEW d \in Connections \ {c},
           Handshake(c) \/ Serve(c) \/ Client(c)
    PROVE  Undisturbed(d)
<1>1. pc'[d] = pc[d]
  BY DEF TypeOK, Handshake, Connect, AddClient, Abandon, Upgrade, UpgradeFails, RemoveFailed,
     Serve, FetchUnread, FetchFails, SendUnread, EnterLoop, ReceiveAck, TakeRequest, TakeDirect,
     TakeBroadcast, WriteMessage, WriteFails, LeaveLoop, RemoveClient,
     Client, ClientReceive, ClientAck, ClientRequest, ClientDrop, Goto, session
<1>2. link'[d] = link[d]
  BY DEF TypeOK, Handshake, Connect, AddClient, Abandon, Upgrade, UpgradeFails, RemoveFailed,
     Serve, FetchUnread, FetchFails, SendUnread, EnterLoop, ReceiveAck, TakeRequest, TakeDirect,
     TakeBroadcast, WriteMessage, WriteFails, LeaveLoop, RemoveClient,
     Client, ClientReceive, ClientAck, ClientRequest, ClientDrop, socket
<1>3. fetched'[d] = fetched[d] /\ handed'[d] = handed[d] /\ heard'[d] = heard[d]
  BY DEF TypeOK, Handshake, Connect, AddClient, Abandon, Upgrade, UpgradeFails, RemoveFailed,
     Serve, FetchUnread, FetchFails, SendUnread, EnterLoop, ReceiveAck, TakeRequest, TakeDirect,
     TakeBroadcast, WriteMessage, WriteFails, LeaveLoop, RemoveClient,
     Client, ClientReceive, ClientAck, ClientRequest, ClientDrop, history
<1>4. QED BY <1>1, <1>2, <1>3, ServeQuiet DEF Undisturbed

LEMMA PlacesStep ==
    ASSUME TypeOK, [Next]_vars, NEW c \in Connections, PlacesOK(c)
    PROVE  PlacesOK(c)'
<1>a. /\ pc \in [Connections -> PC] /\ link \in [Connections -> {"up", "closing", "down"}]
      /\ sending \in [Connections -> Nat] /\ backlog \in [Connections -> Seq(Nat)]
      /\ outgoing \in [Connections -> Seq(Nat)]
  BY DEF TypeOK
<1>b. ASSUME pc'[c] = pc[c], link'[c] = link[c], sending'[c] = sending[c],
             backlog'[c] = backlog[c], outgoing'[c] = outgoing[c]
      PROVE  PlacesOK(c)'
  BY <1>b DEF PlacesOK
<1>1. ASSUME Handshake(c) PROVE PlacesOK(c)'
  <2> USE <1>a DEF Goto, PlacesOK, Subscribed, PC
  <2>1. UNCHANGED << sending, backlog, outgoing >>
    BY <1>1 DEF Handshake, Connect, AddClient, Abandon, Upgrade, UpgradeFails, RemoveFailed, socket
  <2>2. CASE Connect(c)
    BY <2>1, <2>2 DEF Connect, socket
  <2>3. CASE AddClient(c)
    BY <2>1, <2>3 DEF AddClient, socket
  <2>4. CASE Abandon(c)
    BY <2>1, <2>4 DEF Abandon, socket
  <2>5. CASE Upgrade(c)
    BY <2>1, <2>5 DEF Upgrade
  <2>6. CASE UpgradeFails(c)
    BY <2>1, <2>6 DEF UpgradeFails, socket
  <2>7. CASE RemoveFailed(c)
    BY <2>1, <2>7 DEF RemoveFailed, socket
  <2>8. QED BY <1>1, <2>2, <2>3, <2>4, <2>5, <2>6, <2>7 DEF Handshake
<1>2. ASSUME Serve(c) PROVE PlacesOK(c)'
  <2> USE <1>a DEF Goto, PlacesOK, Subscribed, PC
  <2>1. CASE FetchUnread(c)
    BY <2>1 DEF FetchUnread, socket
  <2>2. CASE FetchFails(c)
    BY <2>2 DEF FetchFails, socket
  <2>3. CASE SendUnread(c)
    BY <2>3 DEF SendUnread, WriteTo
  <2>4. CASE EnterLoop(c)
    BY <2>4 DEF EnterLoop, socket
  <2>5. CASE ReceiveAck(c)
    BY <1>b, <2>5 DEF ReceiveAck, session
  <2>6. CASE TakeRequest(c)
    BY <2>6 DEF TakeRequest
  <2>7. CASE TakeDirect(c)
    BY <2>7 DEF TakeDirect, socket
  <2>8. CASE TakeBroadcast(c)
    BY <2>8 DEF TakeBroadcast, socket
  <2>9. CASE WriteMessage(c)
    BY <2>9 DEF WriteMessage, WriteTo
  <2>10. CASE WriteFails(c)
    BY <2>10 DEF WriteFails, socket
  <2>11. CASE LeaveLoop(c)
    BY <2>11 DEF LeaveLoop, socket
  <2>12. CASE RemoveClient(c)
    BY <2>12 DEF RemoveClient
  <2>13. QED
    BY <1>2, <2>1, <2>2, <2>3, <2>4, <2>5, <2>6, <2>7, <2>8, <2>9, <2>10, <2>11, <2>12 DEF Serve
<1>3. ASSUME Client(c) PROVE PlacesOK(c)'
  <2> USE <1>a DEF PlacesOK
  <2>1. CASE ClientReceive(c)
    BY <2>1 DEF ClientReceive, session
  <2>2. CASE ClientAck(c) \/ ClientRequest(c)
    BY <1>b, <2>2 DEF ClientAck, ClientRequest, session
  <2>3. CASE ClientDrop(c)
    BY <2>3 DEF ClientDrop, session
  <2>4. QED BY <1>3, <2>1, <2>2, <2>3 DEF Client
<1>4. ASSUME NEW d \in Connections \ {c}, Handshake(d) \/ Serve(d) \/ Client(d)
      PROVE  PlacesOK(c)'
  BY <1>b, <1>4, OthersUndisturbed DEF Undisturbed, Quiet
<1>5. ASSUME Console PROVE PlacesOK(c)'
  BY <1>b, <1>5 DEF Console, SaveDirect, LookUp, Offer, SaveBroadcast, Publish, session, socket
<1>6. ASSUME Restart PROVE PlacesOK(c)'
  BY <1>6 DEF Restart, PlacesOK, Subscribed
<1>7. ASSUME UNCHANGED vars PROVE PlacesOK(c)'
  BY <1>b, <1>7 DEF vars, session, socket
<1>8. QED BY <1>1, <1>2, <1>3, <1>4, <1>5, <1>6, <1>7 DEF Next
-----------------------------------------------------------------------------
(* Direct messages.                                                          *)
LEMMA HeadItems ==
    ASSUME NEW list \in Seq(Nat), list # << >>
    PROVE  Items(list) = {Head(list)} \cup Items(Tail(list))
<1>1. /\ Len(list) \in Nat \ {0} /\ Len(Tail(list)) = Len(list) - 1
      /\ \A i \in 1 .. Len(Tail(list)) : Tail(list)[i] = list[i + 1]
      /\ Head(list) = list[1]
  BY TailItems, HeadTailProperties
<1>2. ASSUME NEW i \in 1 .. Len(list), i # 1
      PROVE  i - 1 \in 1 .. Len(Tail(list)) /\ Tail(list)[i - 1] = list[i]
  BY <1>1, <1>2
<1>3. \A x \in Items(list) : x = Head(list) \/ x \in Items(Tail(list))
  BY <1>1, <1>2 DEF Items
<1>4. QED BY <1>3, TailItems

LEMMA DirectOrderNext ==
    ASSUME NEW c \in Connections
    PROVE  DirectOrder(c)' <=>
             /\ fetched'[c] /\ link'[c] # "down" => Follows(Mine(c)', outgoing'[c], Displayed(c)')
             /\ fetched'[c] /\ link'[c] = "up" =>
                  /\ Follows(Mine(c)', << sending'[c] >>, Displayed(c)' \cup Items(outgoing'[c]))
                  /\ Follows(Mine(c)', backlog'[c], Displayed(c)' \cup Items(outgoing'[c]))
                  /\ Follows(Mine(c)', queue'[c], Displayed(c)' \cup Items(outgoing'[c])
                                          \cup {sending'[c]} \cup Items(backlog'[c]))
BY DEF DirectOrder, Follows, Items

(* Nothing that is on its way is newer than the table.                       *)
LEMMA OnTheWayIsKnown ==
    ASSUME TypeOK, NEW c \in Connections, DeliveryOK(c)
    PROVE  /\ \A id \in Items(outgoing[c]) \cup {sending[c]} \cup Items(backlog[c])
                          \cup Items(queue[c]) : id = NoMessage \/ id \in Ids
           /\ << sending[c] >> \in Seq(Nat)
           /\ NoMessage \notin Mine(c)
           /\ Mine(c) \cap Public = {}
BY ConnectionFields, MessagingAssumption, OneItem DEF DeliveryOK, Mine, Public, Ids, NoMessage

LEMMA DisplayedGrows ==
    ASSUME TypeOK, [Next]_vars, NEW c \in Connections
    PROVE  /\ Displayed(c) \subseteq Displayed(c)'
           /\ \A id \in Mine(c)' : id \in Nat /\ (id \in Mine(c) \/ id > Len(messages))
           /\ Len(messages) \in Nat
<1>1. /\ Len(messages) \in Nat /\ Len(messages') \in Nat
      /\ \A id \in Ids : messages'[id].recipient = messages[id].recipient
      /\ seen \subseteq seen'
  BY TableGrows
<1>2. QED BY <1>1 DEF Mine, Displayed, Ids

LEMMA DirectStill ==
    ASSUME TypeOK, [Next]_vars, NEW c \in Connections, DeliveryOK(c), DirectOrder(c),
           fetched'[c] => fetched[c],
           link'[c] # "down" => link[c] # "down" /\ outgoing'[c] = outgoing[c],
           link'[c] = "up" => /\ link[c] = "up" /\ sending'[c] = sending[c]
                              /\ backlog'[c] = backlog[c] /\ queue'[c] = queue[c]
    PROVE  DirectOrder(c)'
<1>1. ASSUME NEW list \in Seq(Nat), NEW ahead, NEW more, Follows(Mine(c), list, ahead),
             ahead \subseteq more, \A id \in Items(list) : id = NoMessage \/ id \in Ids
      PROVE  Follows(Mine(c)', list, more)
  <2>1. \A id \in Mine(c)' : id \in Mine(c) \/ \A k \in Items(list) : ~(id < k) /\ id # k
    <3>1. \A k \in Items(list) : k \in Nat /\ k <= Len(messages)
      BY <1>1, DisplayedGrows DEF Ids, NoMessage
    <3>2. QED BY <3>1, DisplayedGrows
  <2>2. \A i \in 1 .. Len(list) : list[i] \in Items(list)
    BY DEF Items
  <2>3. QED BY <1>1, <2>1, <2>2, FollowsStill
<1>2. /\ outgoing[c] \in Seq(Nat) /\ backlog[c] \in Seq(Nat) /\ queue[c] \in Seq(Nat)
      /\ << sending[c] >> \in Seq(Nat) /\ Items(<< sending[c] >>) = {sending[c]}
  BY ConnectionFields, OneItem DEF Items
<1>3. ASSUME fetched'[c], link'[c] # "down"
      PROVE  Follows(Mine(c)', outgoing'[c], Displayed(c)')
  <2>1. Follows(Mine(c), outgoing[c], Displayed(c))
    BY <1>3 DEF DirectOrder
  <2>2. Follows(Mine(c)', outgoing[c], Displayed(c)')
    BY <1>1, <1>2, <2>1, OnTheWayIsKnown, DisplayedGrows
  <2>3. QED BY <1>3, <2>2
<1>4. ASSUME fetched'[c], link'[c] = "up"
      PROVE  /\ Follows(Mine(c)', << sending'[c] >>, Displayed(c)' \cup Items(outgoing'[c]))
             /\ Follows(Mine(c)', backlog'[c], Displayed(c)' \cup Items(outgoing'[c]))
             /\ Follows(Mine(c)', queue'[c], Displayed(c)' \cup Items(outgoing'[c])
                                          \cup {sending'[c]} \cup Items(backlog'[c]))
  <2> DEFINE near == Displayed(c) \cup Items(outgoing[c])
             far == near \cup {sending[c]} \cup Items(backlog[c])
             near2 == Displayed(c)' \cup Items(outgoing[c])
             far2 == near2 \cup {sending[c]} \cup Items(backlog[c])
  <2>1. /\ Follows(Mine(c), << sending[c] >>, near)
        /\ Follows(Mine(c), backlog[c], near) /\ Follows(Mine(c), queue[c], far)
    BY <1>4 DEF DirectOrder
  <2>2. near \subseteq near2 /\ far \subseteq far2
    BY DisplayedGrows
  <2> HIDE DEF near, far, near2, far2
  <2>3. /\ Follows(Mine(c)', << sending[c] >>, near2)
        /\ Follows(Mine(c)', backlog[c], near2) /\ Follows(Mine(c)', queue[c], far2)
    BY <1>1, <1>2, <2>1, <2>2, OnTheWayIsKnown
  <2>4. QED BY <1>4, <2>3 DEF near2, far2
<1>5. QED BY <1>3, <1>4, DirectOrderNext

(* A message for a user was shown to the user or is unread.                  *)
LEMMA ShownOrUnread ==
    ASSUME TypeOK, RowsOK, NEW c \in Connections, NEW id \in Mine(c)
    PROVE  id \in Displayed(c) \/ id \in Unread(UserOf[c])
<1>1. id \in Ids /\ messages[id].recipient = UserOf[c] /\ UserOf[c] \in Users
      /\ Len(messages) \in Nat
  BY ConnectionFields, LenProperties DEF Mine, TypeOK
<1>2. messages[id].kind = "direct" /\ id # NoMessage /\ id \in Nat
  BY <1>1 DEF RowsOK, Ids, NoMessage
<1>3. CASE messages[id].is_read
  BY <1>1, <1>2, <1>3 DEF RowsOK, Displayed
<1>4. CASE ~messages[id].is_read
  BY <1>1, <1>2, <1>4 DEF Unread, IsDirect, Ids
<1>5. QED BY <1>3, <1>4

(* The list of unread messages is in the order of the rows.                  *)
LEMMA UnreadFollows ==
    ASSUME TypeOK, RowsOK, NEW c \in Connections, NEW list \in InOrder(Unread(UserOf[c]))
    PROVE  Follows(Mine(c), list, Displayed(c))
<1>1. list \in Seq(Nat) /\ Items(list) = Unread(UserOf[c]) /\ Len(list) \in Nat
  BY UnreadListed, LenProperties
<1>2. \A i, j \in 1 .. Len(list) : i < j => list[i] < list[j]
  <2>1. \A i, j \in DOMAIN list : i < j => list[i] < list[j]
    BY DEF InOrder
  <2>2. DOMAIN list = 1 .. Len(list)
    BY <1>1, LenProperties
  <2>3. QED BY <2>1, <2>2
<1>3. ASSUME NEW i \in 1 .. Len(list), NEW id \in Mine(c), id < list[i], id \notin Displayed(c)
      PROVE  \E j \in 1 .. i - 1 : list[j] = id
  <2>1. PICK j \in 1 .. Len(list) : list[j] = id
    BY <1>1, <1>3, ShownOrUnread DEF Items
  <2>2. ~(i < j) /\ i # j
    <3>1. list[i] \in Nat /\ list[j] \in Nat
      BY <1>1
    <3>2. QED BY <1>2, <1>3, <2>1, <3>1
  <2>3. j \in 1 .. i - 1
    BY <1>1, <2>2
  <2>4. QED BY <2>1, <2>3
<1>4. QED BY <1>3 DEF Follows

(* A step that leaves the table alone and changes the session of c.          *)
LEMMA FetchOrders ==
    ASSUME TypeOK, RowsOK, [Next]_vars, NEW c \in Connections, PlacesOK(c), FetchUnread(c)
    PROVE  DirectOrder(c)'
<1>1. /\ messages' = messages /\ seen' = seen
      /\ outgoing'[c] = << >> /\ sending'[c] = NoMessage /\ queue'[c] = queue[c]
      /\ \E list \in InOrder(Unread(UserOf[c])) : backlog'[c] = list
  BY DEF FetchUnread, PlacesOK, TypeOK, socket
<1>2. Mine(c)' = Mine(c) /\ Displayed(c)' = Displayed(c) /\ NoMessage \notin Mine(c)
  BY <1>1 DEF Mine, Ids, Displayed, NoMessage
<1>3. Follows(Mine(c), backlog'[c], Displayed(c)) /\ Items(backlog'[c]) = Unread(UserOf[c])
  BY <1>1, UnreadFollows, UnreadListed
<1>4. Follows(Mine(c), queue'[c], Displayed(c) \cup Items(backlog'[c]))
  BY <1>3, ShownOrUnread DEF Follows
<1>5. /\ Follows(Mine(c)', outgoing'[c], Displayed(c)')
      /\ Follows(Mine(c)', << sending'[c] >>, Displayed(c)' \cup Items(outgoing'[c]))
      /\ Follows(Mine(c)', backlog'[c], Displayed(c)' \cup Items(outgoing'[c]))
  BY <1>1, <1>2, <1>3, FollowsNothing, FollowsOne, FollowsMore
<1>6. Follows(Mine(c)', queue'[c], Displayed(c)' \cup Items(outgoing'[c])
                                          \cup {sending'[c]} \cup Items(backlog'[c]))
  BY <1>2, <1>4, FollowsMore
<1>7. QED BY <1>5, <1>6, DirectOrderNext

LEMMA BacklogOrders ==
    ASSUME TypeOK, [Next]_vars, NEW c \in Connections, DeliveryOK(c), DirectOrder(c),
           PlacesOK(c), SendUnread(c)
    PROVE  DirectOrder(c)'
<1> DEFINE id == Head(backlog[c])
<1>1. /\ messages' = messages /\ seen' = seen /\ fetched' = fetched /\ link' = link
      /\ pc[c] = "pending" /\ backlog[c] # << >>
      /\ sending'[c] = sending[c] /\ queue'[c] = queue[c] /\ backlog'[c] = Tail(backlog[c])
      /\ WriteTo(c, id)
  BY DEF SendUnread, TypeOK, history
<1>2. Mine(c)' = Mine(c) /\ Displayed(c)' = Displayed(c)
  BY <1>1 DEF Mine, Ids, Displayed
<1>3. CASE link[c] # "up"
  <2>1. outgoing'[c] = outgoing[c]
    BY <1>1, <1>3 DEF WriteTo
  <2>2. QED BY <1>1, <1>3, <2>1, DirectStill
<1>4. CASE ~fetched[c]
  BY <1>1, <1>4, DirectOrderNext
<1>5. CASE link[c] = "up" /\ fetched[c]
  <2>1. outgoing'[c] = Append(outgoing[c], id)
    BY <1>1, <1>5 DEF WriteTo, TypeOK
  <2>2. /\ outgoing[c] \in Seq(Nat) /\ backlog[c] \in Seq(Nat) /\ queue[c] \in Seq(Nat)
        /\ sending[c] = NoMessage /\ NoMessage \notin Mine(c)
        /\ Items(backlog[c]) \subseteq Mine(c)
    BY <1>1, ConnectionFields, OnTheWayIsKnown DEF PlacesOK, DeliveryOK
  <2>3. /\ id \in Nat /\ id \in Mine(c) /\ Items(backlog[c]) = {id} \cup Items(Tail(backlog[c]))
        /\ Items(outgoing'[c]) = Items(outgoing[c]) \cup {id}
    BY <1>1, <2>1, <2>2, TailItems, HeadItems, AppendItems
  <2>4. /\ Follows(Mine(c), outgoing[c], Displayed(c))
        /\ Follows(Mine(c), backlog[c], Displayed(c) \cup Items(outgoing[c]))
        /\ Follows(Mine(c), queue[c], Displayed(c) \cup Items(outgoing[c])
                                          \cup {sending[c]} \cup Items(backlog[c]))
    BY <1>5 DEF DirectOrder
  <2> HIDE DEF id
  <2>5. \A other \in Mine(c) : other < id => other \in Displayed(c) \cup Items(outgoing[c])
    BY <1>1, <2>2, <2>3, <2>4, FollowsHead DEF id
  <2>6. Follows(Mine(c), outgoing'[c], Displayed(c))
    <3>1. Follows(Mine(c), Append(outgoing[c], id), Displayed(c))
      BY <2>2, <2>3, <2>4, <2>5, FollowsAppend
    <3>2. QED BY <2>1, <3>1
  <2>7. Follows(Mine(c), << sending'[c] >>, Displayed(c) \cup Items(outgoing'[c]))
    BY <1>1, <2>2, FollowsOne
  <2>8. Follows(Mine(c), backlog'[c], Displayed(c) \cup Items(outgoing'[c]))
    <3>1. Follows(Mine(c), Tail(backlog[c]), (Displayed(c) \cup Items(outgoing[c])) \cup {id})
      BY <1>1, <2>2, <2>4, FollowsTail DEF id
    <3>2. QED BY <1>1, <2>3, <3>1, FollowsMore
  <2>9. Follows(Mine(c), queue'[c], Displayed(c) \cup Items(outgoing'[c])
                                          \cup {sending'[c]} \cup Items(backlog'[c]))
    BY <1>1, <2>3, <2>4, FollowsMore
  <2>10. QED BY <1>2, <2>6, <2>7, <2>8, <2>9, DirectOrderNext
<1>6. QED BY <1>3, <1>4, <1>5

LEMMA TakeOrders ==
    ASSUME TypeOK, [Next]_vars, NEW c \in Connections, DeliveryOK(c), DirectOrder(c),
           PlacesOK(c), TakeDirect(c) \/ TakeBroadcast(c)
    PROVE  DirectOrder(c)'
<1>1. /\ messages' = messages /\ seen' = seen /\ fetched' = fetched /\ link' = link
      /\ outgoing' = outgoing /\ backlog' = backlog /\ pc[c] = "looping"
  BY DEF TakeDirect, TakeBroadcast, history, socket
<1>2. Mine(c)' = Mine(c) /\ Displayed(c)' = Displayed(c)
  BY <1>1 DEF Mine, Ids, Displayed
<1>3. CASE ~fetched[c] \/ link[c] # "up"
  <2>1. CASE ~fetched[c]
    BY <1>1, <2>1, DirectOrderNext
  <2>2. CASE link[c] # "up"
    BY <1>1, <2>2, DirectStill
  <2>3. QED BY <1>3, <2>1, <2>2
<1>4. CASE link[c] = "up" /\ fetched[c]
  <2>1. /\ queue[c] \in Seq(Nat) /\ sending[c] = NoMessage /\ backlog[c] = << >>
        /\ NoMessage \notin Mine(c) /\ Items(backlog[c]) = {} /\ Mine(c) \cap Public = {}
        /\ Items(queue[c]) \subseteq Mine(c)
    BY <1>1, ConnectionFields, OnTheWayIsKnown, NoItems DEF PlacesOK, DeliveryOK
  <2>2. /\ Follows(Mine(c), outgoing[c], Displayed(c))
        /\ Follows(Mine(c), queue[c], Displayed(c) \cup Items(outgoing[c])
                                          \cup {sending[c]} \cup Items(backlog[c]))
    BY <1>4 DEF DirectOrder
  <2>3. Follows(Mine(c), queue[c], Displayed(c) \cup Items(outgoing[c]))
    BY <2>1, <2>2, FollowsMore
  <2>4. /\ Follows(Mine(c), outgoing'[c], Displayed(c))
        /\ Follows(Mine(c), backlog'[c], Displayed(c) \cup Items(outgoing'[c]))
    BY <1>1, <2>1, <2>2, FollowsNothing
  <2>5. /\ Follows(Mine(c), << sending'[c] >>, Displayed(c) \cup Items(outgoing'[c]))
        /\ Follows(Mine(c), queue'[c], Displayed(c) \cup Items(outgoing'[c])
                                          \cup {sending'[c]} \cup Items(backlog'[c]))
    <3>1. CASE TakeDirect(c)
      <4>1. /\ queue[c] # << >> /\ sending'[c] = Head(queue[c]) /\ queue'[c] = Tail(queue[c])
        BY <3>1 DEF TakeDirect, TypeOK
      <4>2. \A id \in Mine(c) : id < Head(queue[c]) => id \in Displayed(c) \cup Items(outgoing[c])
        BY <2>1, <2>3, <4>1, FollowsHead, TailItems
      <4>3. Follows(Mine(c), Tail(queue[c]),
                    (Displayed(c) \cup Items(outgoing[c])) \cup {Head(queue[c])})
        BY <2>1, <2>3, <4>1, FollowsTail
      <4>4. Follows(Mine(c), << sending'[c] >>, Displayed(c) \cup Items(outgoing'[c]))
        <5>1. Follows(Mine(c), << Head(queue[c]) >>, Displayed(c) \cup Items(outgoing[c]))
          BY <4>2, FollowsOne
        <5>2. QED BY <1>1, <4>1, <5>1
      <4>5. QED BY <1>1, <4>1, <4>3, <4>4, FollowsMore
    <3>2. CASE TakeBroadcast(c)
      <4>1. /\ feed[c] # << >> /\ sending'[c] = Head(feed[c]) /\ queue'[c] = queue[c]
        BY <3>2 DEF TakeBroadcast, TypeOK
      <4>2. sending'[c] \notin Mine(c)
        <5>1. Head(feed[c]) \in Items(feed[c])
          BY <4>1, ConnectionFields, TailItems
        <5>2. QED BY <2>1, <4>1, <5>1 DEF DeliveryOK
      <4>3. QED BY <1>1, <2>3, <4>1, <4>2, FollowsOne, FollowsMore
    <3>3. QED BY <3>1, <3>2
  <2>6. QED BY <1>2, <2>4, <2>5, DirectOrderNext
<1>5. QED BY <1>3, <1>4

LEMMA WriteOrders ==
    ASSUME TypeOK, [Next]_vars, NEW c \in Connections, DeliveryOK(c), DirectOrder(c),
           PlacesOK(c), WriteMessage(c)
    PROVE  DirectOrder(c)'
<1>1. /\ messages' = messages /\ seen' = seen /\ fetched' = fetched /\ link' = link
      /\ queue' = queue /\ backlog' = backlog /\ pc[c] = "sending"
      /\ sending'[c] = NoMessage /\ WriteTo(c, sending[c])
  BY DEF WriteMessage, TypeOK, history
<1>2. Mine(c)' = Mine(c) /\ Displayed(c)' = Displayed(c)
  BY <1>1 DEF Mine, Ids, Displayed
<1>3. CASE ~fetched[c]
  BY <1>1, <1>3, DirectOrderNext
<1>4. CASE link[c] # "up"
  <2>1. outgoing'[c] = outgoing[c]
    BY <1>1, <1>4 DEF WriteTo
  <2>2. QED BY <1>1, <1>4, <2>1, DirectStill
<1>5. CASE link[c] = "up" /\ fetched[c]
  <2>1. outgoing'[c] = Append(outgoing[c], sending[c])
    BY <1>1, <1>5 DEF WriteTo, TypeOK
  <2>2. /\ outgoing[c] \in Seq(Nat) /\ sending[c] \in Nat /\ backlog[c] = << >>
        /\ NoMessage \notin Mine(c)
        /\ Items(outgoing'[c]) = Items(outgoing[c]) \cup {sending[c]}
    BY <1>1, <2>1, ConnectionFields, OnTheWayIsKnown, AppendItems DEF PlacesOK
  <2>3. /\ Follows(Mine(c), outgoing[c], Displayed(c))
        /\ Follows(Mine(c), << sending[c] >>, Displayed(c) \cup Items(outgoing[c]))
        /\ Follows(Mine(c), queue[c], Displayed(c) \cup Items(outgoing[c])
                                          \cup {sending[c]} \cup Items(backlog[c]))
    BY <1>5 DEF DirectOrder
  <2>4. Follows(Mine(c), outgoing'[c], Displayed(c))
    <3>1. sending[c] \in Mine(c) => \A id \in Mine(c) :
             id < sending[c] => id \in Displayed(c) \cup Items(outgoing[c])
      BY <2>3, FollowsOne
    <3>2. QED BY <2>1, <2>2, <2>3, <3>1, FollowsAppend
  <2>5. Follows(Mine(c), << sending'[c] >>, Displayed(c) \cup Items(outgoing'[c]))
    BY <1>1, <2>2, FollowsOne
  <2>6. Follows(Mine(c), backlog'[c], Displayed(c) \cup Items(outgoing'[c]))
    BY <1>1, <2>2, FollowsNothing
  <2>7. Follows(Mine(c), queue'[c], Displayed(c) \cup Items(outgoing'[c])
                                          \cup {sending'[c]} \cup Items(backlog'[c]))
    BY <1>1, <2>2, <2>3, FollowsMore
  <2>8. QED BY <1>2, <2>4, <2>5, <2>6, <2>7, DirectOrderNext
<1>6. QED BY <1>3, <1>4, <1>5

LEMMA ShowOrders ==
    ASSUME TypeOK, [Next]_vars, NEW c \in Connections, DeliveryOK(c), DirectOrder(c),
           ClientReceive(c)
    PROVE  DirectOrder(c)'
<1> DEFINE id == Head(outgoing[c])
<1>1. /\ messages' = messages /\ fetched' = fetched /\ link' = link
      /\ queue' = queue /\ backlog' = backlog /\ sending' = sending
      /\ outgoing[c] # << >> /\ outgoing'[c] = Tail(outgoing[c])
      /\ seen' = IF id = NoMessage THEN seen ELSE seen \cup {<< UserOf[c], id >>}
  BY DEF ClientReceive, TypeOK, session
<1>2. /\ outgoing[c] \in Seq(Nat) /\ id \in Nat /\ NoMessage \notin Mine(c)
      /\ Items(outgoing[c]) = {id} \cup Items(Tail(outgoing[c]))
  BY <1>1, ConnectionFields, OnTheWayIsKnown, TailItems, HeadItems
<1>3. /\ Mine(c)' = Mine(c) /\ Displayed(c) \subseteq Displayed(c)'
      /\ id # NoMessage => id \in Displayed(c)'
  BY <1>1, <1>2 DEF Mine, Ids, Displayed
<1>4. ASSUME fetched'[c], link'[c] # "down"
      PROVE  Follows(Mine(c)', outgoing'[c], Displayed(c)')
  <2>1. Follows(Mine(c), Tail(outgoing[c]), Displayed(c) \cup {id})
    BY <1>1, <1>2, <1>4, FollowsTail DEF DirectOrder
  <2> HIDE DEF id
  <2>2. (Displayed(c) \cup {id}) \cap Mine(c) \subseteq Displayed(c)'
    BY <1>2, <1>3
  <2>3. QED BY <1>1, <1>3, <2>1, <2>2, FollowsMore
<1> HIDE DEF id
<1>5. ASSUME fetched'[c], link'[c] = "up"
      PROVE  /\ Follows(Mine(c)', << sending'[c] >>, Displayed(c)' \cup Items(outgoing'[c]))
             /\ Follows(Mine(c)', backlog'[c], Displayed(c)' \cup Items(outgoing'[c]))
             /\ Follows(Mine(c)', queue'[c], Displayed(c)' \cup Items(outgoing'[c])
                                          \cup {sending'[c]} \cup Items(backlog'[c]))
  <2>1. /\ Follows(Mine(c), << sending[c] >>, Displayed(c) \cup Items(outgoing[c]))
        /\ Follows(Mine(c), backlog[c], Displayed(c) \cup Items(outgoing[c]))
        /\ Follows(Mine(c), queue[c], Displayed(c) \cup Items(outgoing[c])
                                          \cup {sending[c]} \cup Items(backlog[c]))
    BY <1>1, <1>5 DEF DirectOrder
  <2>2. (Displayed(c) \cup Items(outgoing[c])) \cap Mine(c)
           \subseteq Displayed(c)' \cup Items(outgoing'[c])
    BY <1>1, <1>2, <1>3
  <2>3. (Displayed(c) \cup Items(outgoing[c]) \cup {sending[c]} \cup Items(backlog[c])) \cap Mine(c)
           \subseteq Displayed(c)' \cup Items(outgoing'[c]) \cup {sending[c]} \cup Items(backlog[c])
    BY <2>2
  <2>4. QED BY <1>1, <1>3, <2>1, <2>2, <2>3, FollowsMore
<1>6. QED BY <1>4, <1>5, DirectOrderNext

(* What the console puts in a channel follows all there is before it: an     *)
(* older message was shown, or the session was handed it.                    *)
LEMMA OfferOrders ==
    ASSUME TypeOK, RegistryMatchesSessions, Offering, RowsOK, NoMissedDirect, [Next]_vars,
           NEW c \in Connections, DeliveryOK(c), DirectOrder(c), HandedOnTheWay(c), Offer
    PROVE  DirectOrder(c)'
<1> DEFINE id == console.id
           found == clients[messages[id].recipient]
<1>1. /\ messages' = messages /\ seen' = seen /\ fetched' = fetched /\ link' = link
      /\ outgoing' = outgoing /\ backlog' = backlog /\ sending' = sending
      /\ queue' = queue \/ (pc[found] # "failed"
                              /\ queue' = [queue EXCEPT ![found] = Append(queue[found], id)])
  BY DEF Offer, socket
<1>2. /\ id \in Ids /\ id \in Nat /\ messages[id].recipient \in DOMAIN clients
      /\ found \in Connections /\ UserOf[found] = messages[id].recipient
      /\ pc[found] \in Registered
  BY DEF Offer, Offering, RegistryMatchesSessions, TypeOK
<1>3. CASE queue'[c] = queue[c] \/ link[c] # "up"
  BY <1>1, <1>3, DirectStill
<1>4. CASE ~fetched[c]
  BY <1>1, <1>4, DirectOrderNext
<1>5. CASE queue'[c] # queue[c] /\ link[c] = "up" /\ fetched[c]
  <2> HIDE DEF found, id
  <2>1. found = c /\ queue'[c] = Append(queue[c], id)
    BY <1>1, <1>2, <1>5 DEF TypeOK
  <2>2. Mine(c)' = Mine(c) /\ Displayed(c)' = Displayed(c) /\ NoMessage \notin Mine(c)
    BY <1>1, OnTheWayIsKnown DEF Mine, Ids, Displayed
  <2>3. ASSUME NEW older \in Mine(c), older < id
        PROVE  older \in (Displayed(c) \cup Items(outgoing[c]) \cup {sending[c]}
                            \cup Items(backlog[c])) \cup Items(queue[c])
    <3>1. older \in Displayed(c) \/ older \in handed[c]
      <4>1. older \in Ids /\ messages[older].recipient = UserOf[c] /\ older # id /\ older \in Nat
        BY <1>2, <2>3 DEF Mine, Ids
      <4>2. CASE messages[older].is_read
        BY <4>1, <4>2, ShownOrUnread, <2>3 DEF Unread
      <4>3. CASE ~messages[older].is_read
        BY <1>2, <1>5, <2>1, <4>1, <4>3 DEF NoMissedDirect, id
      <4>4. QED BY <4>2, <4>3
    <3>2. QED BY <1>5, <2>2, <2>3, <3>1 DEF HandedOnTheWay
  <2>4. /\ Follows(Mine(c), outgoing[c], Displayed(c))
        /\ Follows(Mine(c), << sending[c] >>, Displayed(c) \cup Items(outgoing[c]))
        /\ Follows(Mine(c), backlog[c], Displayed(c) \cup Items(outgoing[c]))
        /\ Follows(Mine(c), queue[c], Displayed(c) \cup Items(outgoing[c])
                                          \cup {sending[c]} \cup Items(backlog[c]))
    BY <1>5 DEF DirectOrder
  <2>5. Follows(Mine(c), queue'[c], Displayed(c) \cup Items(outgoing[c])
                                          \cup {sending[c]} \cup Items(backlog[c]))
    <3>1. queue[c] \in Seq(Nat)
      BY ConnectionFields
    <3>2. QED BY <1>2, <2>1, <2>3, <2>4, <3>1, FollowsAppend
  <2>6. QED BY <1>1, <2>2, <2>4, <2>5, DirectOrderNext
<1>6. QED BY <1>3, <1>4, <1>5

LEMMA DirectOrderStep ==
    ASSUME IInv, [Next]_vars, NEW c \in Connections,
           PlacesOK(c), DirectOrder(c), HandedOnTheWay(c)
    PROVE  DirectOrder(c)'
<1>a. /\ TypeOK /\ RegistryMatchesSessions /\ Offering /\ RowsOK /\ NoMissedDirect
      /\ DeliveryOK(c) /\ NotYetFetched
  BY DEF IInv
<1>b. ASSUME fetched'[c] = fetched[c], link'[c] = link[c], Quiet(c)
      PROVE  DirectOrder(c)'
  BY <1>a, <1>b, DirectStill DEF Quiet
<1>1. ASSUME Handshake(c) PROVE DirectOrder(c)'
  <2>1. CASE ~fetched'[c]
    BY <2>1, DirectOrderNext
  <2>2. CASE fetched'[c]
    <3>1. pc[c] \notin {"upgrading", "failed"} \/ ~fetched[c]
      BY <1>a DEF NotYetFetched
    <3>2. fetched' = fetched \/ ~fetched'[c]
      BY <1>1, <1>a DEF Handshake, Connect, AddClient, Abandon, Upgrade, UpgradeFails,
         RemoveFailed, history, TypeOK
    <3>3. Connect(c) \/ AddClient(c) \/ Abandon(c)
      BY <1>1, <2>2, <3>1, <3>2 DEF Handshake, Upgrade, UpgradeFails, RemoveFailed
    <3>4. fetched' = fetched /\ link' = link /\ outgoing' = outgoing /\ sending' = sending
            /\ backlog' = backlog /\ queue' = queue
      BY <1>a, <2>2, <3>2, <3>3 DEF Connect, AddClient, Abandon, socket, history, TypeOK
    <3>5. QED BY <1>a, <3>4, DirectStill
  <2>3. QED BY <2>1, <2>2
<1>2. ASSUME Serve(c) PROVE DirectOrder(c)'
  <2>1. CASE FetchUnread(c)
    BY <1>a, <2>1, FetchOrders
  <2>2. CASE SendUnread(c)
    BY <1>a, <2>2, BacklogOrders
  <2>3. CASE TakeDirect(c) \/ TakeBroadcast(c)
    BY <1>a, <2>3, TakeOrders
  <2>4. CASE WriteMessage(c)
    BY <1>a, <2>4, WriteOrders
  <2>5. CASE FetchFails(c) \/ EnterLoop(c) \/ ReceiveAck(c) \/ TakeRequest(c) \/ LeaveLoop(c)
    <3>1. /\ fetched' = fetched /\ link' = link /\ outgoing' = outgoing /\ sending' = sending
          /\ backlog' = backlog /\ queue' = queue
      BY <2>5 DEF FetchFails, EnterLoop, ReceiveAck, TakeRequest, LeaveLoop, session, socket, history
    <3>2. QED BY <1>a, <3>1, DirectStill
  <2>6. CASE WriteFails(c)
    <3>1. fetched' = fetched /\ link'[c] = "down"
      BY <2>6 DEF WriteFails, socket, history
    <3>2. QED BY <1>a, <3>1, DirectStill
  <2>7. CASE RemoveClient(c)
    <3>1. /\ fetched' = fetched /\ outgoing' = outgoing
          /\ link'[c] # "up" /\ (link'[c] # "down" => link[c] # "down")
      BY <1>a, <2>7 DEF RemoveClient, history, TypeOK
    <3>2. QED BY <1>a, <3>1, DirectStill
  <2>8. QED BY <1>2, <2>1, <2>2, <2>3, <2>4, <2>5, <2>6, <2>7 DEF Serve
<1>3. ASSUME Client(c) PROVE DirectOrder(c)'
  <2>1. CASE ClientReceive(c)
    BY <1>a, <2>1, ShowOrders
  <2>2. CASE ClientAck(c) \/ ClientRequest(c)
    <3>1. /\ fetched' = fetched /\ link' = link /\ outgoing' = outgoing /\ sending' = sending
          /\ backlog' = backlog /\ queue' = queue
      BY <2>2 DEF ClientAck, ClientRequest, session, history
    <3>2. QED BY <1>a, <3>1, DirectStill
  <2>3. CASE ClientDrop(c)
    <3>1. fetched' = fetched /\ link'[c] = "down"
      BY <1>a, <2>3 DEF ClientDrop, history, TypeOK
    <3>2. QED BY <1>a, <3>1, DirectStill
  <2>4. QED BY <1>3, <2>1, <2>2, <2>3 DEF Client
<1>4. ASSUME NEW d \in Connections \ {c}, Handshake(d) \/ Serve(d) \/ Client(d)
      PROVE  DirectOrder(c)'
  <2>1. Undisturbed(c)
    BY <1>4, <1>a, OthersUndisturbed
  <2>2. QED BY <1>b, <2>1 DEF Undisturbed
<1>5. ASSUME Console PROVE DirectOrder(c)'
  <2>1. CASE Offer
    BY <1>a, <2>1, OfferOrders
  <2>2. CASE ~Offer
    <3>1. /\ fetched' = fetched /\ link' = link /\ outgoing' = outgoing /\ sending' = sending
          /\ backlog' = backlog /\ queue' = queue
      BY <1>5, <2>2 DEF Console, SaveDirect, LookUp, SaveBroadcast, Publish, session, socket, history
    <3>2. QED BY <1>a, <3>1, DirectStill
  <2>3. QED BY <2>1, <2>2
<1>6. ASSUME Restart PROVE DirectOrder(c)'
  <2>1. /\ fetched' = fetched /\ outgoing' = outgoing
        /\ link'[c] # "up" /\ (link'[c] # "down" => link[c] # "down")
    BY <1>6, <1>a DEF Restart, history
  <2>2. QED BY <1>a, <2>1, DirectStill
<1>7. ASSUME UNCHANGED vars PROVE DirectOrder(c)'
  <2>1. /\ fetched' = fetched /\ link' = link /\ outgoing' = outgoing /\ sending' = sending
        /\ backlog' = backlog /\ queue' = queue
    BY <1>7 DEF vars, session, socket, history
  <2>2. QED BY <1>a, <2>1, DirectStill
<1>8. QED BY <1>1, <1>2, <1>3, <1>4, <1>5, <1>6, <1>7 DEF Next

(* What a session was handed stays in its hands until it is shown.           *)
OnTheWay(c) ==
    {NoMessage} \cup Displayed(c) \cup Items(outgoing[c])
       \cup {sending[c]} \cup Items(backlog[c]) \cup Items(queue[c])

LEMMA HandedNext ==
    ASSUME NEW c \in Connections
    PROVE  /\ HandedOnTheWay(c) <=>
                (link[c] = "up" \/ pc[c] = "upgrading" => handed[c] \subseteq OnTheWay(c))
           /\ HandedOnTheWay(c)' <=>
                (link'[c] = "up" \/ pc'[c] = "upgrading" => handed'[c] \subseteq OnTheWay(c)')
           /\ OnTheWay(c)' = {NoMessage} \cup Displayed(c)' \cup Items(outgoing'[c])
                \cup {sending'[c]} \cup Items(backlog'[c]) \cup Items(queue'[c])
BY DEF HandedOnTheWay, OnTheWay, Items

LEMMA HandedStill ==
    ASSUME TypeOK, [Next]_vars, NEW c \in Connections, HandedOnTheWay(c),
           link'[c] = "up" \/ pc'[c] = "upgrading" =>
              /\ link[c] = "up" \/ pc[c] = "upgrading"
              /\ handed'[c] = handed[c]
              /\ OnTheWay(c) \subseteq OnTheWay(c)'
    PROVE  HandedOnTheWay(c)'
BY HandedNext

LEMMA HandedSame ==
    ASSUME TypeOK, [Next]_vars, NEW c \in Connections, HandedOnTheWay(c),
           link'[c] = "up" \/ pc'[c] = "upgrading" =>
              /\ link[c] = "up" \/ pc[c] = "upgrading"
              /\ handed'[c] = handed[c] /\ outgoing'[c] = outgoing[c]
              /\ sending'[c] = sending[c] /\ backlog'[c] = backlog[c] /\ queue'[c] = queue[c]
    PROVE  HandedOnTheWay(c)'
<1>1. Displayed(c) \subseteq Displayed(c)'
  BY DisplayedGrows
<1>2. link'[c] = "up" \/ pc'[c] = "upgrading" => OnTheWay(c) \subseteq OnTheWay(c)'
  BY <1>1, HandedNext DEF OnTheWay
<1>3. QED BY <1>2, HandedStill

LEMMA HandedStep ==
    ASSUME IInv, [Next]_vars, NEW c \in Connections, PlacesOK(c), HandedOnTheWay(c)
    PROVE  HandedOnTheWay(c)'
<1>a. /\ TypeOK /\ RegistryMatchesSessions /\ Offering /\ RowsOK /\ DeliveryOK(c)
  BY DEF IInv
<1>b. /\ outgoing[c] \in Seq(Nat) /\ backlog[c] \in Seq(Nat) /\ queue[c] \in Seq(Nat)
      /\ sending[c] \in Nat
  BY <1>a, ConnectionFields
<1>1. ASSUME Handshake(c) PROVE HandedOnTheWay(c)'
  <2>1. UNCHANGED << outgoing, sending, backlog >>
    BY <1>1 DEF Handshake, Connect, AddClient, Abandon, Upgrade, UpgradeFails, RemoveFailed, socket
  <2>2. CASE Connect(c) \/ Abandon(c)
    <3>1. link' = link /\ pc'[c] # "upgrading" /\ handed' = handed /\ queue' = queue
      BY <1>a, <2>2 DEF Connect, Abandon, Goto, TypeOK, socket, history
    <3>2. QED BY <1>a, <2>1, <3>1, HandedSame
  <2>3. CASE AddClient(c)
    <3>1. \/ handed'[c] = {}
          \/ link' = link /\ pc'[c] = "none" /\ handed' = handed /\ queue' = queue
      BY <1>a, <2>3 DEF AddClient, Goto, TypeOK, socket
    <3>2. CASE handed'[c] = {}
      BY <3>2, HandedNext
    <3>3. QED BY <1>a, <2>1, <3>1, <3>2, HandedSame
  <2>4. CASE Upgrade(c)
    <3>1. pc[c] = "upgrading" /\ handed' = handed /\ queue' = queue
      BY <2>4 DEF Upgrade, history
    <3>2. QED BY <1>a, <2>1, <3>1, HandedSame
  <2>5. CASE UpgradeFails(c) \/ RemoveFailed(c)
    <3>1. link'[c] = "down" /\ pc'[c] # "upgrading"
      BY <1>a, <2>5 DEF UpgradeFails, RemoveFailed, Goto, TypeOK, socket, PlacesOK, Subscribed
    <3>2. QED BY <3>1, HandedNext
  <2>6. QED BY <1>1, <2>2, <2>3, <2>4, <2>5 DEF Handshake
<1>2. ASSUME Serve(c) PROVE HandedOnTheWay(c)'
  <2>1. pc[c] \in Subscribed /\ pc'[c] # "upgrading"
    BY <1>2, <1>a DEF Serve, FetchUnread, FetchFails, SendUnread, EnterLoop, ReceiveAck, TakeRequest,
       TakeDirect, TakeBroadcast, WriteMessage, WriteFails, LeaveLoop, RemoveClient, Goto, TypeOK,
       session, Subscribed
  <2>2. ASSUME link'[c] # "up" PROVE HandedOnTheWay(c)'
    BY <2>1, <2>2, HandedNext
  <2>3. CASE link[c] # "up"
    <3>1. link'[c] # "up"
      BY <1>2, <1>a, <2>3 DEF Serve, FetchUnread, FetchFails, SendUnread, EnterLoop, ReceiveAck,
         TakeRequest, TakeDirect, TakeBroadcast, WriteMessage, WriteFails, LeaveLoop, RemoveClient,
         TypeOK, socket
    <3>2. QED BY <2>2, <3>1
  <2>4. CASE link[c] = "up"
    <3>1. CASE FetchUnread(c)
      <4>1. /\ handed'[c] = handed[c] \cup Unread(UserOf[c])
            /\ outgoing' = outgoing /\ sending' = sending /\ queue' = queue
            /\ \E list \in InOrder(Unread(UserOf[c])) : backlog'[c] = list
            /\ pc[c] = "fetching"
        BY <1>a, <3>1 DEF FetchUnread, TypeOK, socket
      <4>2. Items(backlog[c]) = {} /\ Items(backlog'[c]) = Unread(UserOf[c])
        BY <1>a, <4>1, NoItems, UnreadListed DEF PlacesOK
      <4>3. OnTheWay(c)' = {NoMessage} \cup Displayed(c)' \cup Items(outgoing[c])
                \cup {sending[c]} \cup Unread(UserOf[c]) \cup Items(queue[c])
        BY <4>1, <4>2, HandedNext
      <4>4. handed[c] \subseteq OnTheWay(c)
        BY <2>4, HandedNext
      <4>5. QED BY <1>a, <4>1, <4>2, <4>3, <4>4, HandedNext, DisplayedGrows DEF OnTheWay
    <3>2. CASE SendUnread(c)
      <4>1. /\ handed' = handed /\ backlog[c] # << >> /\ backlog'[c] = Tail(backlog[c])
            /\ sending'[c] = sending[c] /\ queue'[c] = queue[c]
            /\ outgoing'[c] = Append(outgoing[c], Head(backlog[c]))
        BY <1>a, <2>4, <3>2 DEF SendUnread, WriteTo, TypeOK, history
      <4>2. /\ Items(backlog[c]) = {Head(backlog[c])} \cup Items(backlog'[c])
            /\ Items(outgoing'[c]) = Items(outgoing[c]) \cup {Head(backlog[c])}
        BY <1>b, <4>1, TailItems, HeadItems, AppendItems
      <4>3. OnTheWay(c) \subseteq OnTheWay(c)'
        BY <1>a, <4>1, <4>2, HandedNext, DisplayedGrows DEF OnTheWay
      <4>4. QED BY <1>a, <2>4, <4>1, <4>3, HandedStill
    <3>3. CASE TakeDirect(c)
      <4>1. /\ handed' = handed /\ backlog' = backlog /\ outgoing' = outgoing /\ queue[c] # << >>
            /\ sending'[c] = Head(queue[c]) /\ queue'[c] = Tail(queue[c])
            /\ sending[c] = NoMessage
        BY <1>a, <3>3 DEF TakeDirect, TypeOK, history, socket, PlacesOK
      <4>2. Items(queue[c]) = {sending'[c]} \cup Items(queue'[c])
        BY <1>b, <4>1, HeadItems
      <4>3. OnTheWay(c) \subseteq OnTheWay(c)'
        BY <1>a, <4>1, <4>2, HandedNext, DisplayedGrows DEF OnTheWay
      <4>4. QED BY <1>a, <2>4, <4>1, <4>3, HandedStill
    <3>4. CASE TakeBroadcast(c)
      <4>1. /\ handed' = handed /\ backlog' = backlog /\ outgoing' = outgoing /\ queue' = queue
            /\ sending[c] = NoMessage
        BY <1>a, <3>4 DEF TakeBroadcast, history, socket, PlacesOK
      <4>2. OnTheWay(c) \subseteq OnTheWay(c)'
        BY <1>a, <4>1, HandedNext, DisplayedGrows DEF OnTheWay
      <4>3. QED BY <1>a, <2>4, <4>1, <4>2, HandedStill
    <3>5. CASE WriteMessage(c)
      <4>1. /\ handed' = handed /\ backlog' = backlog /\ queue' = queue
            /\ outgoing'[c] = Append(outgoing[c], sending[c])
        BY <1>a, <2>4, <3>5 DEF WriteMessage, WriteTo, TypeOK, history
      <4>2. Items(outgoing'[c]) = Items(outgoing[c]) \cup {sending[c]}
        BY <1>b, <4>1, AppendItems
      <4>3. OnTheWay(c) \subseteq OnTheWay(c)'
        BY <1>a, <4>1, <4>2, HandedNext, DisplayedGrows DEF OnTheWay
      <4>4. QED BY <1>a, <2>4, <4>1, <4>3, HandedStill
    <3>6. CASE FetchFails(c) \/ EnterLoop(c) \/ ReceiveAck(c) \/ TakeRequest(c) \/ LeaveLoop(c)
      <4>1. /\ handed' = handed /\ outgoing' = outgoing /\ sending' = sending
            /\ backlog' = backlog /\ queue' = queue
        BY <3>6 DEF FetchFails, EnterLoop, ReceiveAck, TakeRequest, LeaveLoop, session, socket, history
      <4>2. QED BY <1>a, <2>4, <4>1, HandedSame
    <3>7. CASE WriteFails(c)
      BY <2>4, <3>7 DEF WriteFails
    <3>8. CASE RemoveClient(c)
      <4>1. link'[c] # "up"
        BY <1>a, <3>8 DEF RemoveClient, TypeOK
      <4>2. QED BY <2>2, <4>1
    <3>9. QED BY <1>2, <3>1, <3>2, <3>3, <3>4, <3>5, <3>6, <3>7, <3>8 DEF Serve
  <2>5. QED BY <2>3, <2>4
<1>3. ASSUME Client(c) PROVE HandedOnTheWay(c)'
  <2>1. handed' = handed /\ pc' = pc /\ sending' = sending /\ backlog' = backlog /\ queue' = queue
    BY <1>3 DEF Client, ClientReceive, ClientAck, ClientRequest, ClientDrop, session, history
  <2>2. CASE ClientReceive(c)
    <3>1. /\ link' = link /\ outgoing[c] # << >> /\ outgoing'[c] = Tail(outgoing[c])
          /\ Head(outgoing[c]) = NoMessage \/ seen' = seen \cup {<< UserOf[c], Head(outgoing[c]) >>}
      BY <1>a, <2>2 DEF ClientReceive, TypeOK
    <3>2. /\ Items(outgoing[c]) = {Head(outgoing[c])} \cup Items(outgoing'[c])
          /\ Head(outgoing[c]) \in Nat
      BY <1>b, <3>1, HeadItems, TailItems
    <3>3. Head(outgoing[c]) = NoMessage \/ Head(outgoing[c]) \in Displayed(c)'
      BY <3>1, <3>2 DEF Displayed
    <3>4. OnTheWay(c) \subseteq OnTheWay(c)'
      BY <1>a, <2>1, <3>2, <3>3, HandedNext, DisplayedGrows DEF OnTheWay
    <3>5. QED BY <1>a, <2>1, <3>1, <3>4, HandedStill
  <2>3. CASE ClientAck(c) \/ ClientRequest(c)
    <3>1. link' = link /\ outgoing' = outgoing
      BY <2>3 DEF ClientAck, ClientRequest
    <3>2. QED BY <1>a, <2>1, <3>1, HandedSame
  <2>4. CASE ClientDrop(c)
    <3>1. link'[c] = "down" /\ (pc[c] = "upgrading" => link[c] = "down") /\ link[c] # "down"
      BY <1>a, <2>4 DEF ClientDrop, TypeOK, PlacesOK, Subscribed
    <3>2. QED BY <2>1, <3>1, HandedNext
  <2>5. QED BY <1>3, <2>2, <2>3, <2>4 DEF Client
<1>4. ASSUME NEW d \in Connections \ {c}, Handshake(d) \/ Serve(d) \/ Client(d)
      PROVE  HandedOnTheWay(c)'
  <2>1. Undisturbed(c)
    BY <1>4, <1>a, OthersUndisturbed
  <2>2. QED BY <1>a, <2>1, HandedSame DEF Undisturbed, Quiet
<1>5. ASSUME Console PROVE HandedOnTheWay(c)'
  <2>1. /\ pc' = pc /\ link' = link /\ outgoing' = outgoing /\ sending' = sending
        /\ backlog' = backlog
    BY <1>5 DEF Console, SaveDirect, LookUp, Offer, SaveBroadcast, Publish, session, socket
  <2>2. CASE Offer
    <3> DEFINE found == clients[messages[console.id].recipient]
    <3>1. found \in Connections /\ console.id \in Nat
      BY <1>a, <2>2 DEF Offer, Offering, TypeOK
    <3>2. \/ queue' = queue /\ handed' = handed
          \/ /\ queue' = [queue EXCEPT ![found] = Append(queue[found], console.id)]
             /\ handed' = [handed EXCEPT ![found] = handed[found] \cup {console.id}]
      BY <2>2 DEF Offer
    <3> HIDE DEF found
    <3>3. CASE queue'[c] = queue[c] /\ handed'[c] = handed[c]
      BY <1>a, <2>1, <3>3, HandedSame
    <3>4. CASE /\ queue'[c] = Append(queue[c], console.id)
               /\ handed'[c] = handed[c] \cup {console.id}
      <4>1. Items(queue'[c]) = Items(queue[c]) \cup {console.id}
        <5>1. Items(Append(queue[c], console.id)) = Items(queue[c]) \cup {console.id}
          <6>1. queue[c] \in Seq(Nat)
            BY <1>b
          <6>2. QED BY <3>1, <6>1, AppendItems
        <5>2. QED BY <3>4, <5>1
      <4>2. OnTheWay(c) \cup {console.id} \subseteq OnTheWay(c)'
        BY <1>a, <2>1, <4>1, HandedNext, DisplayedGrows DEF OnTheWay
      <4>3. QED BY <2>1, <3>4, <4>2, HandedNext
    <3>5. QED BY <1>a, <3>1, <3>2, <3>3, <3>4 DEF TypeOK
  <2>3. CASE ~Offer
    <3>1. handed' = handed /\ queue' = queue
      BY <1>5, <2>3 DEF Console, SaveDirect, LookUp, SaveBroadcast, Publish, session, history
    <3>2. QED BY <1>a, <2>1, <3>1, HandedSame
  <2>4. QED BY <2>2, <2>3
<1>6. ASSUME Restart PROVE HandedOnTheWay(c)'
  <2>1. link'[c] # "up" /\ pc'[c] # "upgrading"
    BY <1>6 DEF Restart
  <2>2. QED BY <2>1, HandedNext
<1>7. ASSUME UNCHANGED vars PROVE HandedOnTheWay(c)'
  <2>1. /\ pc' = pc /\ link' = link /\ outgoing' = outgoing /\ sending' = sending
        /\ backlog' = backlog /\ handed' = handed /\ queue' = queue
    BY <1>7 DEF vars, session, socket, history
  <2>2. QED BY <1>a, <2>1, HandedSame
<1>8. QED BY <1>1, <1>2, <1>3, <1>4, <1>5, <1>6, <1>7 DEF Next
-----------------------------------------------------------------------------
(* Broadcasts.                                                               *)
LEMMA AscendingStays ==
    ASSUME NEW A, NEW B, NEW C, NEW D, Ascending(A, B, C, D)
    PROVE  /\ Ascending(A, B \cup C, {}, D)
           /\ \A A2 \in SUBSET A, B2 \in SUBSET B, C2 \in SUBSET C, D2 \in SUBSET D :
                 Ascending(A2, B2, C2, D2)
BY DEF Ascending, Below

LEMMA AscendingFirst ==
    ASSUME NEW A, NEW B, NEW C, NEW D, NEW e, Below({e}, B), Ascending(A, {e} \cup B, C, D)
    PROVE  Ascending({e}, B, C, D)
BY DEF Ascending, Below

LEMMA AscendingNext ==
    ASSUME NEW A, NEW B, NEW D, NEW e, Below({e}, D), Ascending(A, B, {}, {e} \cup D)
    PROVE  Ascending(A, B, {e}, D)
BY DEF Ascending, Below

LEMMA AscendingLast ==
    ASSUME NEW A, NEW B, NEW C, NEW D, NEW e, NEW E \in SUBSET (D \cup {e}),
           Ascending(A, B, C, D), Below(A \cup B \cup C, {e})
    PROVE  Ascending(A, B, C, E)
BY DEF Ascending, Below

LEMMA BroadcastOrderNext ==
    ASSUME NEW c \in Connections
    PROVE  BroadcastOrder(c)' <=>
             LET flying == Items(outgoing'[c]) \cap Public'
                 written == {sending'[c]} \cap Public'
                 held == Items(feed'[c]) \cap Public'
             IN  /\ heard'[c] \in {0} \cup Public'
                 /\ Rising(Public', outgoing'[c]) /\ Rising(Public', feed'[c])
                 /\ Ascending({heard'[c]}, flying, written, held)
                 /\ console'.at = "publishing" =>
                       Below({heard'[c]} \cup flying \cup written \cup held, {console'.id})
BY DEF BroadcastOrder, BroadcastsIn, Items, Rising, Ascending, Below

LEMMA PublicGrows ==
    ASSUME TypeOK, [Next]_vars
    PROVE  /\ Public \subseteq Public'
           /\ \A id \in Public' : id \in Nat \ {0} /\ (id \in Public \/ id > Len(messages))
           /\ Public \subseteq Ids /\ Len(messages) \in Nat
<1>1. /\ Len(messages) \in Nat /\ Len(messages') \in Nat
      /\ \A id \in Ids : messages'[id].recipient = messages[id].recipient
      /\ Len(messages) <= Len(messages')
  BY TableGrows
<1>2. QED BY <1>1 DEF Public, Ids

LEMMA BroadcastStill ==
    ASSUME TypeOK, [Next]_vars, NEW c \in Connections, DeliveryOK(c), BroadcastOrder(c),
           outgoing'[c] = outgoing[c], sending'[c] = sending[c], feed'[c] = feed[c],
           heard'[c] = heard[c],
           console'.at = "publishing" => console' = console \/ console'.id = Len(messages) + 1
    PROVE  BroadcastOrder(c)'
<1> DEFINE flying == Items(outgoing[c]) \cap Public
           written == {sending[c]} \cap Public
           held == Items(feed[c]) \cap Public
<1>1. /\ heard[c] \in {0} \cup Public
      /\ Rising(Public, outgoing[c]) /\ Rising(Public, feed[c])
      /\ Ascending({heard[c]}, flying, written, held)
      /\ console.at = "publishing" =>
            Below({heard[c]} \cup flying \cup written \cup held, {console.id})
  BY DEF BroadcastOrder, BroadcastsIn
<1>2. \A id \in Items(outgoing[c]) \cup {sending[c]} \cup Items(feed[c]) :
          id = NoMessage \/ id \in Ids
  BY PublicGrows, OnTheWayIsKnown DEF DeliveryOK
<1>3. \A id \in Ids \cup {NoMessage} : id \in Public' <=> id \in Public
  BY PublicGrows DEF Ids, NoMessage
<1>4. /\ Items(outgoing'[c]) \cap Public' = flying
      /\ {sending'[c]} \cap Public' = written
      /\ Items(feed'[c]) \cap Public' = held
  BY <1>2, <1>3
<1>5. heard[c] \in {0} \cup Public'
  BY <1>1, PublicGrows
<1>6. Rising(Public', outgoing'[c]) /\ Rising(Public', feed'[c])
  BY <1>1, <1>4, RisingStill
<1>7. ASSUME console'.id = Len(messages) + 1
      PROVE  Below({heard[c]} \cup flying \cup written \cup held, {console'.id})
  <2>1. \A id \in {heard[c]} \cup flying \cup written \cup held : id \in Nat /\ id <= Len(messages)
    BY <1>1, PublicGrows DEF Ids
  <2> HIDE DEF flying, written, held
  <2>2. Len(messages) \in Nat
    BY PublicGrows
  <2>3. \A id \in Nat : id <= Len(messages) => id < Len(messages) + 1
    BY <2>2
  <2>4. QED BY <1>7, <2>1, <2>3 DEF Below
<1> HIDE DEF flying, written, held
<1>8. QED BY <1>1, <1>4, <1>5, <1>6, <1>7, BroadcastOrderNext

(* A step of the session or the client of c, given where the broadcasts are  *)
(* after it.                                                                 *)
LEMMA BroadcastMoved ==
    ASSUME TypeOK, [Next]_vars, NEW c \in Connections, BroadcastOrder(c), messages' = messages,
           console' = console \/ console'.at # "publishing",
           NEW flying, NEW written, NEW held,
           flying = Items(outgoing'[c]) \cap Public, written = {sending'[c]} \cap Public,
           held = Items(feed'[c]) \cap Public,
           heard'[c] \in {0} \cup Public,
           Rising(Public, outgoing'[c]), Rising(Public, feed'[c]),
           Ascending({heard'[c]}, flying, written, held),
           {heard'[c]} \cup flying \cup written \cup held
              \subseteq {0, heard[c]} \cup BroadcastsIn(outgoing[c])
                           \cup ({sending[c]} \cap Public) \cup BroadcastsIn(feed[c])
    PROVE  BroadcastOrder(c)'
<1> DEFINE old == {heard[c]} \cup BroadcastsIn(outgoing[c])
                           \cup ({sending[c]} \cap Public) \cup BroadcastsIn(feed[c])
           new == {heard'[c]} \cup flying \cup written \cup held
<1>1. Public' = Public
  BY DEF Public, Ids
<1>2. ASSUME console'.at = "publishing" PROVE Below(new, {console'.id})
  <2>1. Below(old, {console.id}) /\ console' = console
    BY <1>2 DEF BroadcastOrder
  <2>2. console.id \in Nat \ {0}
    BY <1>2, <2>1 DEF TypeOK, Ids
  <2>3. new \subseteq {0} \cup old
    OBVIOUS
  <2> HIDE DEF old, new
  <2>4. QED BY <2>1, <2>2, <2>3 DEF Below
<1>3. QED BY <1>1, <1>2, BroadcastOrderNext

LEMMA BroadcastServe ==
    ASSUME IInv, [Next]_vars, NEW c \in Connections, PlacesOK(c), BroadcastOrder(c), Serve(c)
    PROVE  BroadcastOrder(c)'
<1> DEFINE flying == BroadcastsIn(outgoing[c])
           written == {sending[c]} \cap Public
           held == BroadcastsIn(feed[c])
           written2 == {sending'[c]} \cap Public
           flying2 == Items(outgoing'[c]) \cap Public
           held2 == Items(feed'[c]) \cap Public
<1>a. TypeOK /\ DeliveryOK(c)
  BY DEF IInv
<1>b. /\ outgoing[c] \in Seq(Nat) /\ backlog[c] \in Seq(Nat) /\ feed[c] \in Seq(Nat)
      /\ sending[c] \in Nat /\ NoMessage \notin Public
  BY <1>a, ConnectionFields, PublicGrows DEF NoMessage
<1>c. /\ heard[c] \in {0} \cup Public
      /\ Rising(Public, outgoing[c]) /\ Rising(Public, feed[c])
      /\ Ascending({heard[c]}, flying, written, held)
      /\ flying = Items(outgoing[c]) \cap Public /\ held = Items(feed[c]) \cap Public
  BY DEF BroadcastOrder, BroadcastsIn
<1>d. console' = console /\ heard' = heard
  BY DEF Serve, FetchUnread, FetchFails, SendUnread, EnterLoop, ReceiveAck, TakeRequest,
     TakeDirect, TakeBroadcast, WriteMessage, WriteFails, LeaveLoop, RemoveClient, history
<1>e. Items(feed[c]) \subseteq Public /\ Items(backlog[c]) \cap Public = {}
        /\ Items(queue[c]) \cap Public = {}
  BY <1>a, OnTheWayIsKnown DEF DeliveryOK
<1>f. ASSUME messages' = messages, Rising(Public, outgoing'[c]), Rising(Public, feed'[c]),
             Ascending({heard[c]}, flying2, written2, held2),
             flying2 \cup written2 \cup held2 \subseteq flying \cup written \cup held
      PROVE  BroadcastOrder(c)'
  <2>1. {heard'[c]} \cup flying2 \cup written2 \cup held2
          \subseteq {0, heard[c]} \cup flying \cup written \cup held
    BY <1>d, <1>f
  <2>2. QED BY <1>a, <1>c, <1>d, <1>f, <2>1, BroadcastMoved
<1>1. CASE \/ FetchUnread(c) \/ FetchFails(c) \/ EnterLoop(c) \/ ReceiveAck(c)
           \/ TakeRequest(c) \/ LeaveLoop(c)
  <2>1. outgoing' = outgoing /\ sending' = sending /\ feed' = feed
    BY <1>1 DEF FetchUnread, FetchFails, EnterLoop, ReceiveAck, TakeRequest, LeaveLoop, session, socket
  <2>2. QED BY <1>a, <1>d, <2>1, BroadcastStill
<1>2. ASSUME messages' = messages, feed' = feed, sending'[c] = sending[c] \/ sending'[c] \notin Public,
             outgoing'[c] = outgoing[c]
      PROVE  BroadcastOrder(c)'
  <2>1. flying2 = flying /\ held2 = held /\ written2 \subseteq written
    BY <1>2, <1>c
  <2> HIDE DEF flying, written, held, flying2, written2, held2
  <2>2. Ascending({heard[c]}, flying2, written2, held2)
    BY <1>c, <2>1, AscendingStays
  <2>3. QED BY <1>2, <1>c, <1>f, <2>1, <2>2
<1>3. CASE TakeDirect(c)
  <2>1. messages' = messages /\ feed' = feed /\ outgoing' = outgoing
          /\ queue[c] # << >> /\ sending'[c] = Head(queue[c]) /\ queue[c] \in Seq(Nat)
    BY <1>a, <1>3, ConnectionFields DEF TakeDirect, socket, TypeOK
  <2>2. sending'[c] \notin Public
    BY <1>e, <2>1, TailItems
  <2>3. QED BY <1>2, <2>1, <2>2
<1>4. CASE WriteFails(c)
  <2>1. messages' = messages /\ feed' = feed /\ outgoing' = outgoing /\ sending'[c] = NoMessage
    BY <1>a, <1>4 DEF WriteFails, socket, TypeOK
  <2>2. QED BY <1>2, <1>b, <2>1
<1>5. CASE SendUnread(c)
  <2>1. /\ messages' = messages /\ feed' = feed /\ sending' = sending /\ backlog[c] # << >>
        /\ outgoing'[c] \in {outgoing[c], Append(outgoing[c], Head(backlog[c]))}
    BY <1>a, <1>5 DEF SendUnread, WriteTo, TypeOK
  <2>2. CASE outgoing'[c] = outgoing[c]
    BY <1>2, <2>1, <2>2
  <2>3. CASE outgoing'[c] = Append(outgoing[c], Head(backlog[c]))
    <3>1. /\ Head(backlog[c]) \in Nat /\ Head(backlog[c]) \notin Public
          /\ Items(outgoing'[c]) = Items(outgoing[c]) \cup {Head(backlog[c])}
      BY <1>b, <1>e, <2>1, <2>3, TailItems, AppendItems
    <3>2. Rising(Public, outgoing'[c])
      <4>1. Rising(Public, Append(outgoing[c], Head(backlog[c])))
        BY <1>b, <1>c, <3>1, RisingAppend
      <4>2. QED BY <2>3, <4>1
    <3>3. flying2 = flying /\ held2 = held /\ written2 = written
      BY <1>c, <2>1, <3>1
    <3> HIDE DEF flying, written, held, flying2, written2, held2
    <3>4. QED BY <1>c, <1>f, <2>1, <3>2, <3>3
  <2>4. QED BY <2>1, <2>2, <2>3
<1>6. CASE TakeBroadcast(c)
  <2> DEFINE id == Head(feed[c])
  <2>1. /\ messages' = messages /\ outgoing' = outgoing /\ feed[c] # << >>
        /\ sending'[c] = id /\ feed'[c] = Tail(feed[c]) /\ sending[c] = NoMessage
    BY <1>a, <1>6 DEF TakeBroadcast, socket, TypeOK, PlacesOK
  <2>2. /\ Items(feed[c]) = {id} \cup Items(feed'[c]) /\ id \in Public
        /\ Rising(Public, feed'[c])
        /\ Below({id}, Items(feed'[c]) \cap Public)
    <3>1. Items(feed[c]) = {id} \cup Items(feed'[c]) /\ id \in Public
      BY <1>b, <1>e, <2>1, HeadItems
    <3>2. /\ Rising(Public, Tail(feed[c]))
          /\ Below({id}, Items(Tail(feed[c])) \cap Public)
      BY <1>b, <1>c, <2>1, <3>1, RisingHead
    <3>3. QED BY <2>1, <3>1, <3>2
  <2>3. /\ flying2 = flying /\ written = {} /\ written2 = {id} /\ held = {id} \cup held2
    BY <1>b, <1>c, <2>1, <2>2
  <2>4. Below({id}, held2)
    BY <2>2
  <2> HIDE DEF flying, written, held, flying2, written2, held2, id
  <2>5. Ascending({heard[c]}, flying2, written2, held2)
    BY <1>c, <2>3, <2>4, AscendingNext
  <2>6. QED BY <1>c, <1>f, <2>1, <2>2, <2>3, <2>5
<1>7. CASE WriteMessage(c)
  <2>1. /\ messages' = messages /\ feed' = feed /\ sending'[c] = NoMessage
        /\ outgoing'[c] \in {outgoing[c], Append(outgoing[c], sending[c])}
    BY <1>a, <1>7 DEF WriteMessage, WriteTo, TypeOK
  <2>2. CASE outgoing'[c] = outgoing[c]
    BY <1>2, <1>b, <2>1, <2>2
  <2>3. CASE outgoing'[c] = Append(outgoing[c], sending[c])
    <3>1. Items(outgoing'[c]) = Items(outgoing[c]) \cup {sending[c]}
      BY <1>b, <2>3, AppendItems
    <3>2. sending[c] \in Public => Below(Items(outgoing[c]) \cap Public, {sending[c]})
      BY <1>c DEF Ascending, Below
    <3>3. Rising(Public, outgoing'[c])
      <4>1. Rising(Public, Append(outgoing[c], sending[c]))
        BY <1>b, <1>c, <3>2, RisingAppend
      <4>2. QED BY <2>3, <4>1
    <3>4. flying2 = flying \cup written /\ held2 = held /\ written2 = {}
      BY <1>b, <1>c, <2>1, <3>1
    <3> HIDE DEF flying, written, held, flying2, written2, held2
    <3>5. Ascending({heard[c]}, flying2, written2, held2)
      BY <1>c, <3>4, AscendingStays
    <3>6. QED BY <1>c, <1>f, <2>1, <3>3, <3>4, <3>5
  <2>4. QED BY <2>1, <2>2, <2>3
<1>8. CASE RemoveClient(c)
  <2>1. /\ messages' = messages /\ outgoing' = outgoing /\ sending' = sending /\ feed'[c] = << >>
    BY <1>a, <1>8 DEF RemoveClient, TypeOK
  <2>2. flying2 = flying /\ written2 = written /\ held2 = {}
    BY <1>c, <2>1, NoItems
  <2>3. Rising(Public, outgoing'[c]) /\ Rising(Public, feed'[c])
    BY <1>c, <2>1, RisingNothing
  <2> HIDE DEF flying, written, held, flying2, written2, held2
  <2>4. Ascending({heard[c]}, flying2, written2, held2)
    BY <1>c, <2>2, AscendingStays
  <2>5. QED BY <1>f, <2>1, <2>2, <2>3, <2>4
<1>9. QED BY <1>1, <1>3, <1>4, <1>5, <1>6, <1>7, <1>8 DEF Serve

LEMMA BroadcastHandshake ==
    ASSUME TypeOK, [Next]_vars, NEW c \in Connections, DeliveryOK(c), BroadcastOrder(c), Handshake(c)
    PROVE  BroadcastOrder(c)'
<1> DEFINE flying == BroadcastsIn(outgoing[c])
           written == {sending[c]} \cap Public
           held == BroadcastsIn(feed[c])
           held2 == Items(feed'[c]) \cap Public
<1>1. /\ messages' = messages /\ console' = console
      /\ outgoing' = outgoing /\ sending' = sending
      /\ heard'[c] \in {0, heard[c]} /\ feed'[c] \in {feed[c], << >>}
  BY DEF Handshake, Connect, AddClient, Abandon, Upgrade, UpgradeFails, RemoveFailed,
     socket, history, TypeOK
<1>2. /\ heard[c] \in {0} \cup Public
      /\ Rising(Public, outgoing[c]) /\ Rising(Public, feed[c])
      /\ Ascending({heard[c]}, flying, written, held)
      /\ flying = Items(outgoing[c]) \cap Public /\ held = Items(feed[c]) \cap Public
  BY DEF BroadcastOrder, BroadcastsIn
<1>3. held2 \subseteq held /\ Rising(Public, feed'[c])
  BY <1>1, <1>2, NoItems, RisingNothing
<1>4. \A id \in Public : id \in Nat /\ 0 < id
  BY PublicGrows
<1>5. flying \subseteq Public /\ written \subseteq Public /\ held \subseteq Public
  BY <1>2
<1>6. flying = Items(outgoing'[c]) \cap Public /\ written = {sending'[c]} \cap Public
  BY <1>1, <1>2
<1>7. /\ heard'[c] \in {0} \cup Public
      /\ {heard'[c]} \cup flying \cup written \cup held2
           \subseteq {0, heard[c]} \cup flying \cup written \cup held
  BY <1>1, <1>2, <1>3
<1> HIDE DEF written, held, flying, held2
<1>8. Ascending({heard'[c]}, flying, written, held2)
  <2>1. Ascending({heard[c]}, flying, written, held2)
    BY <1>2, <1>3, AscendingStays
  <2>2. CASE heard'[c] = heard[c]
    BY <2>1, <2>2
  <2>3. CASE heard'[c] = 0
    <3>1. Below({0}, flying \cup written \cup held2)
      BY <1>3, <1>4, <1>5 DEF Below
    <3>2. QED BY <2>1, <2>3, <3>1 DEF Ascending
  <2>4. QED BY <1>1, <2>2, <2>3
<1>9. QED BY <1>1, <1>2, <1>3, <1>6, <1>7, <1>8, BroadcastMoved DEF written, held, flying, held2

LEMMA BroadcastClient ==
    ASSUME TypeOK, RowsOK, [Next]_vars, NEW c \in Connections, DeliveryOK(c), BroadcastOrder(c),
           Client(c)
    PROVE  BroadcastOrder(c)'
<1>1. console' = console /\ messages' = messages /\ sending' = sending /\ feed' = feed
  BY DEF Client, ClientReceive, ClientAck, ClientRequest, ClientDrop, session
<1>2. CASE ClientAck(c) \/ ClientRequest(c)
  <2>1. outgoing' = outgoing /\ heard' = heard
    BY <1>2 DEF ClientAck, ClientRequest, history
  <2>2. QED BY <1>1, <2>1, BroadcastStill
<1> DEFINE flying == BroadcastsIn(outgoing[c])
           written == {sending[c]} \cap Public
           held == BroadcastsIn(feed[c])
           flying2 == Items(outgoing'[c]) \cap Public
<1>3. /\ heard[c] \in {0} \cup Public
      /\ Rising(Public, outgoing[c]) /\ Rising(Public, feed[c])
      /\ Ascending({heard[c]}, flying, written, held)
      /\ flying = Items(outgoing[c]) \cap Public /\ held = Items(feed[c]) \cap Public
  BY DEF BroadcastOrder, BroadcastsIn
<1>4. /\ Rising(Public, feed'[c])
      /\ written = {sending'[c]} \cap Public /\ held = Items(feed'[c]) \cap Public
  BY <1>1, <1>3
<1>5. ASSUME Rising(Public, outgoing'[c]), heard'[c] \in {0} \cup Public,
             Ascending({heard'[c]}, flying2, written, held),
             {heard'[c]} \cup flying2 \subseteq {heard[c]} \cup flying
      PROVE  BroadcastOrder(c)'
  <2>1. {heard'[c]} \cup flying2 \cup written \cup held
          \subseteq {0, heard[c]} \cup flying \cup written \cup held
    BY <1>5
  <2>2. QED BY <1>1, <1>4, <1>5, <2>1, BroadcastMoved
<1>6. CASE ClientDrop(c)
  <2>1. outgoing'[c] = << >> /\ heard' = heard
    BY <1>6 DEF ClientDrop, history, TypeOK
  <2>2. flying2 = {} /\ Rising(Public, outgoing'[c])
    BY <2>1, NoItems, RisingNothing
  <2> HIDE DEF flying, written, held, flying2
  <2>3. Ascending({heard'[c]}, flying2, written, held)
    <3>1. Ascending({heard[c]}, {}, written, held)
      <4>1. {heard[c]} \in SUBSET {heard[c]} /\ {} \in SUBSET flying
              /\ written \in SUBSET written /\ held \in SUBSET held
        OBVIOUS
      <4>2. Ascending({heard[c]}, flying, written, held)
        BY <1>3
      <4>3. QED BY <4>1, <4>2, AscendingStays
    <3>2. QED BY <2>1, <2>2, <3>1
  <2>4. QED BY <1>3, <1>5, <2>1, <2>2, <2>3
<1>7. CASE ClientReceive(c)
  <2> DEFINE id == Head(outgoing[c])
  <2>1. /\ outgoing[c] # << >> /\ outgoing'[c] = Tail(outgoing[c])
        /\ \/ id = NoMessage /\ heard' = heard
           \/ IsDirect(id) /\ heard' = heard
           \/ id # NoMessage /\ ~IsDirect(id) /\ heard'[c] = id
    BY <1>7 DEF ClientReceive, TypeOK
  <2>2. outgoing[c] \in Seq(Nat) /\ NoMessage \notin Public
    BY ConnectionFields, PublicGrows DEF NoMessage
  <2>3. /\ Items(outgoing[c]) = {id} \cup Items(outgoing'[c])
    BY <2>1, <2>2, HeadItems
  <2>4. /\ Rising(Public, outgoing'[c])
        /\ id \in Public => Below({id}, flying2)
    <3>1. /\ Rising(Public, Tail(outgoing[c]))
          /\ id \in Public => Below({id}, Items(Tail(outgoing[c])) \cap Public)
      BY <1>3, <2>1, <2>2, RisingHead
    <3>2. QED BY <2>1, <3>1
  <2>5. IF id = NoMessage \/ IsDirect(id)
          THEN id \notin Public /\ heard' = heard
          ELSE id \in Public /\ heard'[c] = id
    <3>1. id # NoMessage => /\ id \in Mine(c) \cup Public
                            /\ IsDirect(id) => id \in Mine(c)
      BY <2>1, ReceivedIsForUser
    <3>2. id \in Mine(c) /\ id # NoMessage => IsDirect(id)
      BY ConnectionFields DEF RowsOK, Mine, IsDirect
    <3>3. Mine(c) \cap Public = {}
      BY OnTheWayIsKnown
    <3>4. QED BY <2>1, <2>2, <3>1, <3>2, <3>3 DEF IsDirect
  <2>6. flying = IF id \in Public THEN {id} \cup flying2 ELSE flying2
    BY <1>3, <2>3
  <2> HIDE DEF flying, written, held, flying2, id
  <2>7. CASE id \in Public
    <3>1. heard'[c] = id /\ flying = {id} \cup flying2 /\ Below({id}, flying2)
      BY <2>4, <2>5, <2>6, <2>7
    <3>2. Ascending({heard'[c]}, flying2, written, held)
      <4>1. Ascending({heard[c]}, {id} \cup flying2, written, held)
        BY <1>3, <3>1
      <4>2. Ascending({id}, flying2, written, held)
        BY <3>1, <4>1, AscendingFirst
      <4>3. QED BY <3>1, <4>2
    <3>3. QED BY <1>5, <2>4, <2>7, <3>1, <3>2
  <2>8. CASE id \notin Public
    <3>1. heard' = heard /\ flying = flying2
      BY <2>5, <2>6, <2>8
    <3>2. QED BY <1>3, <1>5, <2>4, <3>1
  <2>9. QED BY <2>7, <2>8
<1>8. QED BY <1>2, <1>6, <1>7 DEF Client

LEMMA PublishOrders ==
    ASSUME TypeOK, RowsOK, [Next]_vars, NEW c \in Connections, DeliveryOK(c), BroadcastOrder(c),
           Publish
    PROVE  BroadcastOrder(c)'
<1> DEFINE id == console.id
           flying == BroadcastsIn(outgoing[c])
           written == {sending[c]} \cap Public
           held == BroadcastsIn(feed[c])
           held2 == Items(feed'[c]) \cap Public
<1>1. /\ messages' = messages /\ sending' = sending /\ outgoing' = outgoing /\ heard' = heard
      /\ feed'[c] \in {feed[c], Receive(feed[c], id)}
      /\ console.at = "publishing" /\ console' = Idle
  BY DEF Publish, socket, history
<1>2. id \in Public /\ id \in Nat /\ Public' = Public
  BY <1>1, PublicGrows DEF RowsOK, TypeOK, Public, Ids
<1>3. /\ heard[c] \in {0} \cup Public
      /\ Rising(Public, outgoing[c]) /\ Rising(Public, feed[c])
      /\ Ascending({heard[c]}, flying, written, held)
      /\ Below({heard[c]} \cup flying \cup written \cup held, {id})
      /\ flying = Items(outgoing[c]) \cap Public /\ held = Items(feed[c]) \cap Public
  BY <1>1 DEF BroadcastOrder, BroadcastsIn
<1>4. /\ feed[c] \in Seq(Nat)
      /\ Len(feed[c]) = FeedCap => feed[c] # << >>
  BY ConnectionFields, NoItems, MessagingAssumption
<1>5. ASSUME NEW list \in Seq(Nat), Rising(Public, list), Items(list) \subseteq Items(feed[c])
      PROVE  /\ Rising(Public, Append(list, id))
             /\ Items(Append(list, id)) \cap Public \subseteq held \cup {id}
  <2>1. Below(Items(list) \cap Public, {id})
    BY <1>3, <1>5 DEF Below
  <2>2. Items(Append(list, id)) = Items(list) \cup {id}
    BY <1>2, <1>5, AppendItems
  <2>3. QED BY <1>2, <1>3, <1>5, <2>1, <2>2, RisingAppend
<1>6. Rising(Public, feed'[c]) /\ held2 \subseteq held \cup {id}
  <2>1. CASE feed'[c] = feed[c]
    BY <1>3, <2>1
  <2>2. CASE feed'[c] = Append(feed[c], id)
    BY <1>3, <1>4, <1>5, <2>2
  <2>3. CASE Len(feed[c]) = FeedCap /\ feed'[c] = Append(Tail(feed[c]), id)
    <3>1. /\ Tail(feed[c]) \in Seq(Nat) /\ Items(Tail(feed[c])) \subseteq Items(feed[c])
          /\ Rising(Public, Tail(feed[c]))
      BY <1>3, <1>4, <2>3, TailItems, RisingHead
    <3>2. /\ Rising(Public, Append(Tail(feed[c]), id))
          /\ Items(Append(Tail(feed[c]), id)) \cap Public \subseteq held \cup {id}
      BY <1>5, <3>1
    <3>3. QED BY <2>3, <3>2
  <2>4. QED BY <1>1, <2>1, <2>2, <2>3 DEF Receive
<1>7. /\ Items(outgoing'[c]) \cap Public' = flying /\ {sending'[c]} \cap Public' = written
      /\ Items(feed'[c]) \cap Public' = held2
  BY <1>1, <1>2, <1>3
<1> HIDE DEF flying, written, held, held2, id
<1>8. Ascending({heard[c]}, flying, written, held2)
  <2>1. Below({heard[c]} \cup flying \cup written, {id})
    BY <1>3 DEF Below
  <2>2. QED BY <1>3, <1>6, <2>1, AscendingLast
<1>9. QED BY <1>1, <1>2, <1>3, <1>6, <1>7, <1>8, IdleType, BroadcastOrderNext

LEMMA BroadcastOrderStep ==
    ASSUME IInv, [Next]_vars, NEW c \in Connections, PlacesOK(c), BroadcastOrder(c)
    PROVE  BroadcastOrder(c)'
<1>a. TypeOK /\ RowsOK /\ DeliveryOK(c)
  BY DEF IInv
<1>1. ASSUME NEW d \in Connections \ {c}, Handshake(d) \/ Serve(d) \/ Client(d)
      PROVE  BroadcastOrder(c)'
  <2>1. console' = console
    BY <1>1 DEF Handshake, Connect, AddClient, Abandon, Upgrade, UpgradeFails, RemoveFailed,
       Serve, FetchUnread, FetchFails, SendUnread, EnterLoop, ReceiveAck, TakeRequest, TakeDirect,
       TakeBroadcast, WriteMessage, WriteFails, LeaveLoop, RemoveClient,
       Client, ClientReceive, ClientAck, ClientRequest, ClientDrop
  <2>2. Undisturbed(c)
    BY <1>1, <1>a, OthersUndisturbed
  <2>3. QED BY <1>a, <2>1, <2>2, BroadcastStill DEF Undisturbed, Quiet
<1>2. ASSUME Console PROVE BroadcastOrder(c)'
  <2>1. CASE Publish
    BY <1>a, <2>1, PublishOrders
  <2>2. CASE ~Publish
    <3>1. outgoing' = outgoing /\ sending' = sending /\ feed' = feed /\ heard' = heard
      BY <1>2, <2>2 DEF Console, SaveDirect, LookUp, Offer, SaveBroadcast, session, socket, history
    <3>2. console'.at = "publishing" => console'.id = Len(messages) + 1
      <4>1. CASE LookUp
        BY <1>a, <4>1, OfferingType, IdleType DEF LookUp, TypeOK, ConsoleType
      <4>2. CASE Offer
        BY <4>2, IdleType DEF Offer
      <4>3. CASE SaveBroadcast \/ \E u \in Users : SaveDirect(u)
        BY <4>3 DEF SaveBroadcast, SaveDirect
      <4>4. QED BY <1>2, <2>2, <4>1, <4>2, <4>3 DEF Console
    <3>3. QED BY <1>a, <3>1, <3>2, BroadcastStill
  <2>3. QED BY <2>1, <2>2
<1>3. ASSUME Restart PROVE BroadcastOrder(c)'
  <2> DEFINE flying == BroadcastsIn(outgoing[c])
  <2>1. /\ messages' = messages /\ outgoing' = outgoing /\ heard' = heard /\ console' = Idle
        /\ sending'[c] = NoMessage /\ feed'[c] = << >>
    BY <1>3 DEF Restart, history
  <2>2. /\ heard[c] \in {0} \cup Public /\ Rising(Public, outgoing[c])
        /\ Ascending({heard[c]}, flying, {sending[c]} \cap Public, BroadcastsIn(feed[c]))
        /\ flying = Items(outgoing[c]) \cap Public /\ Public' = Public
    BY <2>1 DEF BroadcastOrder, BroadcastsIn, Public, Ids
  <2>3. /\ Items(outgoing'[c]) \cap Public' = flying /\ {sending'[c]} \cap Public' = {}
        /\ Items(feed'[c]) \cap Public' = {}
    BY <1>a, <2>1, <2>2, NoItems, PublicGrows DEF NoMessage
  <2> HIDE DEF flying
  <2>4. Ascending({heard[c]}, flying, {}, {}) /\ Rising(Public, feed'[c])
    BY <2>1, <2>2, AscendingStays, RisingNothing
  <2>5. QED BY <2>1, <2>2, <2>3, <2>4, IdleType, BroadcastOrderNext
<1>4. ASSUME UNCHANGED vars PROVE BroadcastOrder(c)'
  <2>1. /\ outgoing' = outgoing /\ sending' = sending /\ feed' = feed /\ heard' = heard
        /\ console' = console
    BY <1>4 DEF vars, session, socket, history
  <2>2. QED BY <1>a, <2>1, BroadcastStill
<1>5. QED
  BY <1>a, <1>1, <1>2, <1>3, <1>4, BroadcastHandshake, BroadcastServe, BroadcastClient DEF Next
-----------------------------------------------------------------------------
LEMMA OrderedInitially == Init => Ordered
<1> SUFFICES ASSUME Init, NEW c \in Connections
             PROVE  PlacesOK(c) /\ DirectOrder(c) /\ HandedOnTheWay(c) /\ BroadcastOrder(c)
  BY DEF Ordered
<1>1. /\ pc[c] = "none" /\ link[c] = "down" /\ sending[c] = NoMessage /\ handed[c] = {}
      /\ backlog[c] = << >> /\ outgoing[c] = << >> /\ feed[c] = << >> /\ heard[c] = 0
      /\ ~fetched[c] /\ console.at = "idle" /\ Ids = {}
  BY NoItems DEF Init, Idle, Ids
<1>2. PlacesOK(c) /\ DirectOrder(c) /\ HandedOnTheWay(c)
  BY <1>1 DEF PlacesOK, DirectOrder, HandedOnTheWay
<1>3. BroadcastOrder(c)
  BY <1>1, RisingNothing, NoItems DEF BroadcastOrder, BroadcastsIn, Public, Ascending, Below
<1>4. QED BY <1>2, <1>3

LEMMA OrderedStep == IInv /\ Ordered /\ [Next]_vars => Ordered'
<1> SUFFICES ASSUME IInv, Ordered, [Next]_vars, NEW c \in Connections
             PROVE  PlacesOK(c)' /\ DirectOrder(c)' /\ HandedOnTheWay(c)' /\ BroadcastOrder(c)'
  BY DEF Ordered
<1>1. PlacesOK(c) /\ DirectOrder(c) /\ HandedOnTheWay(c) /\ BroadcastOrder(c) /\ TypeOK
  BY DEF Ordered, IInv
<1>2. PlacesOK(c)'
  BY <1>1, PlacesStep
<1>3. DirectOrder(c)'
  BY <1>1, DirectOrderStep
<1>4. HandedOnTheWay(c)'
  BY <1>1, HandedStep
<1>5. BroadcastOrder(c)'
  BY <1>1, BroadcastOrderStep
<1>6. QED BY <1>2, <1>3, <1>4, <1>5

(* What the client shows next is the head of what is in flight: the first of *)
(* a list that follows, or that rises.                                       *)
LEMMA ShownNext ==
    ASSUME IInv, Ordered, NEW c \in Connections, ClientReceive(c)
    PROVE  LET id == Head(outgoing[c]) IN
           IF id = NoMessage THEN TRUE
           ELSE IF IsDirect(id)
             THEN fetched[c] => \A earlier \in 1 .. (id - 1) :
                      messages[earlier].recipient = UserOf[c]
                        => << UserOf[c], earlier >> \in seen
             ELSE heard[c] < id
<1> DEFINE id == Head(outgoing[c])
<1>a. /\ TypeOK /\ RowsOK /\ DeliveryOK(c) /\ DirectOrder(c) /\ BroadcastOrder(c)
      /\ outgoing[c] # << >> /\ link[c] # "down" /\ outgoing[c] \in Seq(Nat)
  BY ConnectionFields DEF IInv, Ordered, ClientReceive
<1>b. Len(messages) \in Nat
  BY <1>a, LenProperties DEF TypeOK
<1>1. ASSUME id # NoMessage, IsDirect(id), fetched[c],
             NEW earlier \in 1 .. (id - 1), messages[earlier].recipient = UserOf[c]
      PROVE  << UserOf[c], earlier >> \in seen
  <2>1. id \in Mine(c)
    BY <1>a, <1>1, ReceivedIsForUser
  <2>2. Follows(Mine(c), outgoing[c], Displayed(c))
    BY <1>a, <1>1 DEF DirectOrder
  <2>3. \A older \in Mine(c) : older < id => older \in Displayed(c)
    BY <1>a, <2>1, <2>2, FollowsHead
  <2>4. earlier \in Mine(c) /\ earlier < id
    BY <1>1, <1>b, <2>1 DEF Mine, Ids
  <2>5. QED BY <2>3, <2>4 DEF Displayed
<1>2. ASSUME id # NoMessage, ~IsDirect(id) PROVE heard[c] < id
  <2>1. id \in Mine(c) \cup Public
    BY <1>a, <1>2, ReceivedIsForUser
  <2>2. id \notin Mine(c)
    BY <1>a, <1>2, ConnectionFields DEF RowsOK, Mine, IsDirect
  <2>3. id \in Items(outgoing[c])
    BY <1>a, TailItems
  <2>4. QED BY <1>a, <2>1, <2>2, <2>3 DEF BroadcastOrder, BroadcastsIn, Ascending, Below
<1>3. QED BY <1>1, <1>2

(* The backlog, the channel and the socket do not overtake each other: past  *)
(* its query, a session shows a direct message only when all earlier ones    *)
(* were shown, and broadcasts are shown in order and once.                   *)
THEOREM MessagesShownInOrder == Spec => ShownInOrder
<1>1. IInv /\ Ordered /\ [Next]_vars =>
         [\A c \in Connections : ClientReceive(c) =>
             LET id == Head(outgoing[c]) IN
             IF id = NoMessage THEN TRUE
             ELSE IF IsDirect(id)
               THEN fetched[c] => \A earlier \in 1 .. (id - 1) :
                        messages[earlier].recipient = UserOf[c]
                          => << UserOf[c], earlier >> \in seen
               ELSE heard[c] < id]_vars
  BY ShownNext
<1>2. QED
  BY <1>1, Invariant, OrderedInitially, OrderedStep, PTL DEF Spec, ShownInOrder
=============================================================================
