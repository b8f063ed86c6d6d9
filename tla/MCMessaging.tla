---------------------------- MODULE MCMessaging ----------------------------
(***************************************************************************)
(* Model-checking instances of Messaging: ada has two connections, so that *)
(* she may reconnect, or run a second client, before her first session is  *)
(* over; bob has one.                                                      *)
(***************************************************************************)
EXTENDS Messaging, TLC

CONSTANTS ada, bob, first, second, other

MCUserOf == [c \in Connections |-> IF c = other THEN bob ELSE ada]
=============================================================================
