------------------------------ MODULE MCAccounts ------------------------------
(***************************************************************************)
(* A small instance of Accounts.                                           *)
(***************************************************************************)
EXTENDS Accounts, TLC

Symmetric == Permutations(Thread) \cup Permutations(Token) \cup Permutations(User)
==============================================================================
