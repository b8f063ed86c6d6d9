----------------------------- MODULE MCAccounts -----------------------------
(***************************************************************************)
(* Model-checking instance of Accounts: two clients and two passwords, so  *)
(* that both may want the same name, and two names, so that ids and tokens *)
(* could be confused.                                                      *)
(***************************************************************************)
EXTENDS Accounts, TLC

Symmetry == Permutations(Clients) \cup Permutations(Usernames) \cup Permutations(Passwords)
=============================================================================
