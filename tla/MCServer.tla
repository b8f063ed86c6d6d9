------------------------------ MODULE MCServer ------------------------------
(***************************************************************************)
(* Model-checking instance of Server: two connections of one user.  There  *)
(* is room for two messages towards the server, so that session and client *)
(* do not wait for each other (module Messaging has its channels full).    *)
(***************************************************************************)
EXTENDS Server, TLC

CONSTANTS ada, first, second

MCUserOf == [c \in Connections |-> ada]
=============================================================================
