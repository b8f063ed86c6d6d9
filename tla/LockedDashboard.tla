-------------------------- MODULE LockedDashboard --------------------------
(***************************************************************************)
(* Dashboard with the lock of the server's registry, and what comes to an  *)
(* end because of it.  A connection enters and leaves the registry under   *)
(* its write lock (messaging.rs:71, 91).  The console holds the lock for   *)
(* reading while it waits for room in the channel of a client              *)
(* (messaging.rs:161-163): until then nobody connects, and no session      *)
(* ends.  When there is room is the business of Messaging, which finds     *)
(* that there may never be; here the console lets go when it likes, or     *)
(* never.                                                                  *)
(***************************************************************************)
EXTENDS Dashboard

VARIABLE guard      \* the console holds the registry's read lock

lockedVars == << dashboardVars, guard >>

LockedInit == DashboardInit /\ guard = FALSE

\* send_admin_direct_message finds its recipient in the registry.
HoldRegistry ==
    /\ ~guard
    /\ \E u \in Users : pc[u] # "offline"
    /\ guard' = TRUE
    /\ UNCHANGED dashboardVars

\* tx.send returns: the message is in the channel.
LetGo ==
    /\ guard
    /\ guard' = FALSE
    /\ UNCHANGED dashboardVars

(* The steps that take the write lock.                                     *)

\* add_client, whether the user is new or refused with 409.  A client that awaits
\* it does nothing else; here it may as well go on.
AddClient(u) ==
    /\ ~guard
    /\ Reconnect(u) \/ (FirstConnect(u) /\ (socket'[u] \/ client'[u] = "off"))
    /\ UNCHANGED guard

\* remove_client is the last thing a session does: its socket is closed after.
LeaveRegistry(u) ==
    /\ ~guard
    /\ RemoveClient(u)
    /\ UNCHANGED << clientVars, guard >>

(* Those that need no lock of the registry.                                *)

\* The first connection fails for another reason.
ConnectFails(u) ==
    /\ FirstConnect(u)
    /\ ~socket'[u] /\ client'[u] = "running"
    /\ UNCHANGED guard

\* A session saves, or discards the trip it leaves behind.
TripStep(u) ==
    /\ SaveStep(u) \/ DiscardTrip(u)
    /\ UNCHANGED clientVars

Freely(A) == A /\ UNCHANGED guard

LockedNext ==
    \/ \E u \in Users :
          \/ AddClient(u) \/ LeaveRegistry(u) \/ ConnectFails(u)
          \/ Freely(LocalStep(u) \/ ServeRequest(u) \/ Respond(u) \/ TripStep(u) \/ SocketEnds(u))
    \/ HoldRegistry \/ LetGo
    \/ ServerRestart /\ guard' = FALSE

LockedSpec == LockedInit /\ [][LockedNext]_lockedVars

(***************************************************************************)
(* Both programs run on: a session reads, saves and answers, a client that *)
(* is connected reads, its timers and its simulator fire.  Of the steps    *)
(* that share a condition no two are ever possible at once.  Nothing is    *)
(* assumed of the user, nor of when the console lets go.  tokio serves     *)
(* those who wait for a lock in the order in which they came: who waits to *)
(* write gets the lock if it is free again and again, however often the    *)
(* console takes it in between.  This is the strong fairness.              *)
(*                                                                         *)
(* Each end notices that the other is gone (NoticeEnd, NoticeGone).  This  *)
(* is an assumption about TCP: the server sends no pings and has no        *)
(* timeout, so it relies on the end of the stream, or an error, reaching   *)
(* it.  The client is told only when remove_client has returned, since the *)
(* session drops its socket after that.                                    *)
(***************************************************************************)
NoticeEnd(u) == pc[u] = "offline" /\ responses[u] = << >> /\ LoseConnection(u)

NoticeGone(u) == ~socket[u] /\ requests[u] = << >> /\ SocketEnds(u)

FairLockedSpec ==
    /\ LockedSpec
    /\ \A u \in Users :
          /\ WF_lockedVars(Freely(ServeRequest(u) \/ Respond(u) \/ TripStep(u) \/ NoticeGone(u)))
          /\ WF_lockedVars(Freely(ServerText(u) \/ NoticeEnd(u)))
          /\ WF_lockedVars(Freely(EmitPoint(u)))
          /\ WF_lockedVars(Freely(RoutePoint(u) \/ RouteFinished(u)))
          /\ SF_lockedVars(AddClient(u))
          /\ SF_lockedVars(LeaveRegistry(u))
-----------------------------------------------------------------------------
\* The console does not keep the registry for ever: it does when it waits for room
\* in the full channel of a session that waits to leave (ConnectionAnswered).
RegistryReleased == []<>~guard

(* As long as the console does not keep the registry for ever, a client that *)
(* waits for the summary of its trip does not wait for ever.  A save that    *)
(* failed leaves it waiting (runtime.rs:439), until the session has left the *)
(* registry and its socket is closed.                                        *)
CompletionResolved ==
    RegistryReleased => \A u \in Users :
        app[u].trip_status = "AwaitingCompletion" ~> app[u].trip_status # "AwaitingCompletion"

(* As long as the console does not keep the registry for ever, a client that *)
(* lost its connection gets one again, with the token of its login, unless   *)
(* it exits or the server forgot the token: the session that is still in the *)
(* way saves or discards its trip, leaves the registry, and makes room.      *)
Reconnects ==
    RegistryReleased => \A u \in Users :
        client[u] = "running" /\ ~socket[u]
          ~> socket[u] \/ client[u] = "off" \/ u \notin tokens
=============================================================================
