---------------------------- MODULE MCDealRoom ----------------------------
(* DealRoom for TLC: handlers are interchangeable. *)
EXTENDS DealRoom, TLC

Symmetry == Permutations(Handlers)
=============================================================================
