----------------------------- MODULE MCAccounts -----------------------------
(* Accounts for TLC: users and handlers are interchangeable. *)
EXTENDS Accounts, TLC

Symmetry == Permutations(Users) \cup Permutations(Handlers)
=============================================================================
