---------------------------- MODULE OrderContract ----------------------------
(***************************************************************************)
(* What an order promises, with no statuses in it: every line's units are  *)
(* held for the customer until they leave the shop or go back on the       *)
(* shelf, never both, and cash is taken for exactly what lands at the      *)
(* customer's door, the order-level charges riding with the first parcel.  *)
(***************************************************************************)
EXTENDS Integers

CONSTANTS Lines, Value, Charges, PayMethod

VARIABLES
  unit,  \* where each line's units are
  cash   \* what was collected at the door

Place == {"held", "out", "landed", "back"}

At(place) == {l \in Lines : unit[l] = place}

Put(S, place) == unit' = [l \in Lines |-> IF l \in S THEN place ELSE unit[l]]

Init == unit = [l \in Lines |-> "held"] /\ cash = 0

\* A parcel leaves, unless the order was given up.
Dispatch(S) ==
  /\ S # {} /\ S \subseteq At("held")
  /\ At("back") = {}
  /\ Put(S, "out")
  /\ UNCHANGED cash

\* A parcel lands and is paid for.
Land(S) ==
  /\ S # {} /\ S \subseteq At("out")
  /\ Put(S, "landed")
  /\ cash' = IF PayMethod = "ONLINE" THEN cash
             ELSE cash + Value[S] + (IF At("landed") = {} THEN Charges ELSE 0)

\* One line of an order that was given up before anything left.
GiveBack(l) ==
  /\ unit[l] = "held"
  /\ At("out") \cup At("landed") = {}
  /\ Put({l}, "back")
  /\ UNCHANGED cash

Next == \/ \E S \in SUBSET Lines : Dispatch(S) \/ Land(S)
        \/ \E l \in Lines : GiveBack(l)

Spec == Init /\ [][Next]_<<unit, cash>>
==============================================================================
