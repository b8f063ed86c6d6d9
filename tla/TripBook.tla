------------------------------ MODULE TripBook ------------------------------
(***************************************************************************)
(* What the trip service promises, without sessions, replies or database   *)
(* transactions: a trip is begun, extended point by point, and then either *)
(* entered in the book in one step, with the moving and stopped time its   *)
(* points define, or lost as a whole.                                      *)
(***************************************************************************)
EXTENDS TripReference

CONSTANT Users

VARIABLES
    open,   \* the points of each open trip, by user
    book    \* the saved trips, in the order of their ids

bookVars == << open, book >>

Entry(u, points) ==
    [user_id |-> u,
     points |-> points,
     moving_seconds |-> MovingSeconds(points, {}),
     stopped_seconds |-> StoppedSeconds(points, {})]

BookInit ==
    /\ open = << >>
    /\ book = << >>

Begin(u) ==
    /\ u \notin DOMAIN open
    /\ open' = [v \in DOMAIN open \cup {u} |-> IF v = u THEN << >> ELSE open[v]]
    /\ UNCHANGED book

Accept(u, c) ==
    /\ u \in DOMAIN open
    /\ open' = [open EXCEPT ![u] = Append(@, c)]
    /\ UNCHANGED book

Save(u) ==
    /\ u \in DOMAIN open
    /\ book' = Append(book, Entry(u, open[u]))
    /\ open' = [v \in DOMAIN open \ {u} |-> open[v]]

\* One user's connection ends, or the server does and every open trip is lost.
Lose(S) ==
    /\ S # {} /\ S \subseteq DOMAIN open
    /\ open' = [v \in DOMAIN open \ S |-> open[v]]
    /\ UNCHANGED book

BookNext ==
    \/ \E u \in Users : Begin(u) \/ Save(u) \/ \E c \in Coordinates : Accept(u, c)
    \/ \E S \in SUBSET Users : Lose(S)

BookSpec == BookInit /\ [][BookNext]_bookVars
=============================================================================
