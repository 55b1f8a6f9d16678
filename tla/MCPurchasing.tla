----------------------------- MODULE MCPurchasing -----------------------------
(* Purchasing on a small instance: flour and sugar from two vendors. *)
EXTENDS Purchasing, TLC

CONSTANTS flour, sugar, mill, depot, r1, r2

Entered == [stock |-> 0, cost |-> None, last |-> None, unit |-> "GRAM"]

Line(m, quantity, price) ==
  [material |-> m, quantity |-> quantity, price |-> price]

Paper(vendor, number, date, due, items, tax, discount) ==
  [vendor |-> vendor, number |-> number, date |-> date, due |-> due,
   items |-> items, tax |-> tax, discount |-> discount]

\* One material at two prices; a free sample and, with tax less discount, more.
Keyed == {
  Paper(mill, 1, 1, 40, <<Line(flour, 1, 1), Line(flour, 2, 2)>>, 0, 0),
  Paper(depot, 1, 70, None, <<Line(sugar, 0, 3), Line(flour, 1, 1)>>, 3, 1)}

Rewritten == {{"items"}, {"tax", "discount"}, {"vendor", "number"}, {"date", "due"}}

Recounted == {("stock" :> 1), ("cost" :> 5), ("unit" :> "KILOGRAM")}

Sums == {[vendor |-> mill, amount |-> 3, on |-> 1],
         [vendor |-> depot, amount |-> 1, on |-> 75]}

Corrected == {{"amount"}, {"bill"}, {"vendor", "bill"}}

Swaps == Permutations(Requests)

\* Followed until a claim ends, and for four requests altogether.
Few == ~overtaken /\ made.bills + made.payments + made.edits <= 4
===============================================================================
