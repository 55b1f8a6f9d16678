------------------------------- MODULE MCOrders -------------------------------
(* Orders on a small instance: what the lines cost. *)
EXTENDS Orders, FiniteSetsExt, TLC

CONSTANTS l1, l2, l3

\* Two or three lines of different value, so that no two parcels cost the same.
Price == (l1 :> 1) @@ (l2 :> 2) @@ (l3 :> 4)

MCValue == [S \in SUBSET Lines |-> MapThenSumSet(LAMBDA l : Price[l], S)]

\* Everything claimed of an order handled by several requests is claimed up to
\* the first commit on a snapshot that is no longer current: follow no further.
UntilOvertaken == ~overtaken

Requesters == Permutations(Requests)
==============================================================================
