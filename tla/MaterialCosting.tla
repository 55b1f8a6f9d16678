---------------------------- MODULE MaterialCosting ----------------------------
(***************************************************************************)
(* The arithmetic of purchases: material-costing.ts, and what the vendor   *)
(* statement and the reports compute on each read from bills and payments. *)
(* Quantities, unit prices and money are whole numbers here, so a line     *)
(* total needs no rounding; an average cost is in ten-thousandths and does.*)
(***************************************************************************)
EXTENDS Integers, Sequences, FiniteSets, Functions

\* What the code keeps as null: a cost or a date nobody entered, no bill.
None == -1

\* Decimal.toDecimalPlaces(4), half up, of a quotient.
Rounded(n, d) == (20000 * n + d) \div (2 * d)

Over(S, amount(_)) == SumFunction([x \in S |-> amount(x)])

\* Purchase lines are records in a set, told apart by their bill and place.
weightedAverageCost(lines) ==
  LET quantity == Over(lines, LAMBDA l : l.quantity)
  IN  CASE lines = {} -> None
        [] lines # {} /\ quantity = 0 ->
             Rounded(Over(lines, LAMBDA l : l.price), Cardinality(lines))
        [] OTHER ->
             Rounded(Over(lines, LAMBDA l : l.quantity * l.price), quantity)

lineTotal(line) == line.quantity * line.price

subtotal(items) == Over(DOMAIN items, LAMBDA i : lineTotal(items[i]))

billTotals(items, tax, discount) == subtotal(items) + tax - discount

-----------------------------------------------------------------------------
(* Bills and payments are functions from their ids to their rows. *)

AmountOf(payments, ids) == Over(ids, LAMBDA p : payments[p].amount)

PaymentsOn(payments, bill) == {p \in DOMAIN payments : payments[p].bill = bill}

paidAmount(payments, bill) == AmountOf(payments, PaymentsOn(payments, bill))

outstandingAmount(bills, payments, bill) ==
  bills[bill].total - paidAmount(payments, bill)

BillsOf(bills, vendor) == {b \in DOMAIN bills : bills[b].vendor = vendor}

PaymentsTo(payments, vendor) ==
  {p \in DOMAIN payments : payments[p].vendor = vendor}

\* One vendor's statement. Entries sort by day, a day's bills before its
\* payments: `balance' is the running balance when a day's bills, or its
\* payments too, have been counted.
ledger(bills, payments, vendor) ==
  LET mine == BillsOf(bills, vendor)
      paid == PaymentsTo(payments, vendor)
      billed(ids) == Over(ids, LAMBDA b : bills[b].total)
      unpaid == {b \in mine : outstandingAmount(bills, payments, b) > 0}
  IN  [totalBilled |-> billed(mine),
       totalPaid   |-> AmountOf(payments, paid),
       outstanding |-> billed(mine) - AmountOf(payments, paid),
       onAccount   |-> AmountOf(payments, {p \in paid : payments[p].bill = None}),
       unpaidBills |-> unpaid,
       balance     |->
         [day \in {bills[b].date : b \in mine} \cup {payments[p].on : p \in paid}
            |-> [bills    |-> billed({b \in mine : bills[b].date <= day})
                              - AmountOf(payments,
                                         {p \in paid : payments[p].on < day}),
                 payments |-> billed({b \in mine : bills[b].date <= day})
                              - AmountOf(payments,
                                         {p \in paid : payments[p].on <= day})]]]

\* The payables report: what it calls `paid' are the payments of the vendor's
\* bills; what was paid on account is shown beside it.
vendorPayables(bills, payments, vendor, today) ==
  LET mine == BillsOf(bills, vendor)
      owed(b) == outstandingAmount(bills, payments, b)
      unpaid == {b \in mine : owed(b) > 0}
      since(b) == today - (IF bills[b].due = None THEN bills[b].date
                           ELSE bills[b].due)
      aged(low, high) ==
        Over({b \in unpaid : since(b) > low /\ since(b) <= high}, owed)
      billed == Over(mine, LAMBDA b : bills[b].total)
      paid == Over(mine, LAMBDA b : paidAmount(payments, b))
  IN  [outstanding |-> billed - paid,
       onAccount   |-> AmountOf(payments,
                                {p \in PaymentsTo(payments, vendor) :
                                   payments[p].bill = None}),
       unpaidBills |-> unpaid,
       current     |-> Over({b \in unpaid : since(b) <= 0}, owed),
       upTo30      |-> aged(0, 30),
       upTo60      |-> aged(30, 60),
       over60      |-> Over({b \in unpaid : since(b) > 60}, owed)]

\* Spend by vendor and by material.
purchaseSummary(bills) ==
  LET lines == UNION {{<<b, i>> : i \in DOMAIN bills[b].items} : b \in DOMAIN bills}
      item(l) == bills[l[1]].items[l[2]]
  IN  [totalSpend |-> Over(DOMAIN bills, LAMBDA b : bills[b].total),
       byVendor   |-> [v \in {bills[b].vendor : b \in DOMAIN bills} |->
                         Over(BillsOf(bills, v), LAMBDA b : bills[b].total)],
       byMaterial |-> [m \in {item(l).material : l \in lines} |->
                         Over({l \in lines : item(l).material = m},
                              LAMBDA l : lineTotal(item(l)))]]

\* What the stock is worth at its average cost, in ten-thousandths.
stockValuation(materials) ==
  LET costed == {m \in DOMAIN materials : materials[m].cost # None}
  IN  [stockValue |-> [m \in costed |-> materials[m].stock * materials[m].cost],
       unvalued   |-> DOMAIN materials \ costed]
================================================================================
