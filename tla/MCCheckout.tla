------------------------------ MODULE MCCheckout ------------------------------
(* Checkout on small instances: one product with a variant. *)
EXTENDS Checkout, TLC

CONSTANTS p, v, ann, bob, r1, r2

MCProductOf == v :> p

EachTheirOwn == [r \in Requests |-> IF r = r1 THEN ann ELSE bob]

\* Swapping the customers together with their requests changes nothing.
Swaps == {f \in Permutations(Requests \cup Customers) :
            \A r \in Requests : f[r] \in Requests /\ f[Owner[r]] = Owner[f[r]]}
==============================================================================
