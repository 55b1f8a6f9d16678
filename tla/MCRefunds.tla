------------------------------- MODULE MCRefunds -------------------------------
(* Refunds on a small instance: two admins at work on one order. *)
EXTENDS Refunds, TLC

Admins == Permutations(Requests)
==============================================================================
