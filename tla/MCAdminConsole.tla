--------------------------- MODULE MCAdminConsole ---------------------------
(***************************************************************************)
(* Model-checking instances of AdminConsole: two days, the second one a    *)
(* Monday in the month of the first.                                       *)
(***************************************************************************)
EXTENDS AdminConsole, TLC

MCDays == 0 .. 1

MCMonday == [d \in Days |-> d]

MCFirstOfMonth == [d \in Days |-> 0]

Symmetry == Permutations(Usernames)
=============================================================================
