-------------------------------- MODULE Reports --------------------------------
(***************************************************************************)
(* The profit and loss of a period, read while orders and refunds go on.   *)
(* Revenue is recognised on delivery and belongs to the day the order was  *)
(* placed; a completed refund is netted off that same day's revenue, on    *)
(* whatever day it was recorded. Expenses belong to the day they were      *)
(* spent on, which need not be the day they are entered. The orders are    *)
(* read first and the refunds and expenses after, in other queries. The    *)
(* dashboard asks for the same figures over its window. What orders and    *)
(* refunds go through in between is modelled in Orders and Refunds and     *)
(* here only in outline.                                                   *)
(***************************************************************************)
EXTENDS Requests, Functions

CONSTANTS
  Lines,       \* the lines of an order: quantity, price, and cost or NoCost
  Amounts,     \* amounts that are refunded or spent
  NoCost,      \* no cost sheet when the line was sold
  WindowDays,  \* days the dashboard looks back
  Days,        \* bound: days that pass, orders and refunds there are
  MaxExpenses  \* bound: expenses there are

OrderItem == [quantity : Nat, unitPrice : Nat, unitCost : Nat \cup {NoCost}]

ASSUME LinesAssumption == Lines \subseteq Seq(OrderItem)
ASSUME AmountsAssumption == Amounts \subseteq Nat
ASSUME DaysBound == Days \in Nat /\ WindowDays \in Nat
ASSUME ExpensesBound == MaxExpenses \in Nat

VARIABLES
  today,
  sales,    \* the orders placed, with their lines, day and status
  returned, \* the refunds recorded: order, day, amount, completed or not
  expenses, \* the expenses: the day they were spent on and the amount
  report    \* the last profit and loss given out

reportVars == <<today, sales, returned, expenses, report>>

Amount(S, of(_)) == SumFunction([x \in S |-> of(x)])

totalAmount(order) ==
  Amount(DOMAIN order.items,
         LAMBDA i : order.items[i].quantity * order.items[i].unitPrice)

\* Where a period has no first or last day, none is asked for.
InRange(period, day) == period.from <= day /\ day <= period.to

Delivered(period) ==
  {o \in DOMAIN sales :
     sales[o].status = "DELIVERED" /\ InRange(period, sales[o].placed)}

costedItems(o) ==
  {i \in DOMAIN sales[o].items : sales[o].items[i].unitCost # NoCost}

orderCost(o) ==
  Amount(costedItems(o),
         LAMBDA i : sales[o].items[i].quantity * sales[o].items[i].unitCost)

Completed(rows) == {f \in DOMAIN rows : rows[f].completed}

\* Mistake: a refund is netted off the day it was recorded.
refundedThatDay(period) ==
  Amount({f \in Completed(returned) : InRange(period, returned[f].recorded)},
         LAMBDA f : returned[f].amount)

refundsOf(period) ==
  Amount({f \in Completed(returned) :
            returned[f].order \in Delivered(period)},
         LAMBDA f : returned[f].amount)

\* Owed and not sent yet: a balance of now, whatever the period.
pendingRefunds ==
  Amount(DOMAIN returned \ Completed(returned),
         LAMBDA f : returned[f].amount)

expensesOf(period) ==
  Amount({e \in DOMAIN expenses : InRange(period, expenses[e].spentOn)},
         LAMBDA e : expenses[e].amount)

ReportsInit ==
  /\ RequestsInit
  /\ today = 1 /\ sales = <<>> /\ returned = <<>> /\ expenses = <<>>
  /\ report = [asked |-> FALSE]

-----------------------------------------------------------------------------
(* profitAndLoss and getSummary. *)

Periods == [from : 1..Days, to : 1..Days]

\* The dashboard's: from a day back until now.
window == [from |-> today - WindowDays, to |-> today]

ReadOrders(r) ==
  \E period \in Periods \cup {window} :
    LET orders == Delivered(period)
    IN  /\ Begin(r, [step |-> "refunds", period |-> period,
                     orders |-> orders,
                     revenue |-> Amount(orders,
                                        LAMBDA o : totalAmount(sales[o])),
                     cogs |-> Amount(orders, LAMBDA o : orderCost(o)),
                     complete |-> \A o \in orders :
                                    costedItems(o) = DOMAIN sales[o].items])
        /\ UNCHANGED reportVars

ReadRefunds(r) ==
  LET j == job[r]
      net == j.revenue - refundsOf(j.period)
      gross == net - j.cogs
  IN  /\ At(r, "refunds")
      /\ report' = [asked |-> TRUE, period |-> j.period, netRevenue |-> net,
                    grossProfit |-> gross,
                    netProfit |-> gross - expensesOf(j.period),
                    pending |-> pendingRefunds, complete |-> j.complete]
      /\ Settle(r, Delivered(j.period) # j.orders)
      /\ UNCHANGED <<today, sales, returned, expenses>>

-----------------------------------------------------------------------------
(* What goes on meanwhile. *)

Place ==
  \E lines \in Lines :
    /\ Len(sales) < Days
    /\ sales' = Append(sales, [items |-> lines, placed |-> today,
                               status |-> "PENDING"])
    /\ report' = [asked |-> FALSE]
    /\ UNCHANGED <<today, returned, expenses, inFlight>>

Move(from, to) ==
  \E o \in DOMAIN sales :
    /\ sales[o].status = from
    /\ sales' = [sales EXCEPT ![o].status = to]
    /\ report' = [asked |-> FALSE]
    /\ UNCHANGED <<today, returned, expenses, inFlight>>

\* Refunds of an order, pending ones too, stay within its total.
RefundedSoFar(o) ==
  Amount({f \in DOMAIN returned : returned[f].order = o},
         LAMBDA f : returned[f].amount)

Refund ==
  \E o \in DOMAIN sales, amount \in Amounts, completed \in BOOLEAN :
    /\ sales[o].status # "PENDING" /\ Len(returned) < Days
    /\ RefundedSoFar(o) + amount <= totalAmount(sales[o])
    /\ returned' = Append(returned, [order |-> o, amount |-> amount,
                                     recorded |-> today,
                                     completed |-> completed])
    /\ report' = [asked |-> FALSE]
    /\ UNCHANGED <<today, sales, expenses, inFlight>>

Complete ==
  \E f \in DOMAIN returned :
    /\ ~returned[f].completed
    /\ returned' = [returned EXCEPT ![f].completed = TRUE]
    /\ report' = [asked |-> FALSE]
    /\ UNCHANGED <<today, sales, expenses, inFlight>>

\* Entered, or corrected in any of its parts.
SaveExpense ==
  \E e \in 1..MaxExpenses, day \in 1..Days, amount \in Amounts :
    /\ expenses' = Saved(expenses, e, [spentOn |-> day, amount |-> amount])
    /\ report' = [asked |-> FALSE]
    /\ UNCHANGED <<today, sales, returned, inFlight>>

RemoveExpense ==
  \E e \in DOMAIN expenses :
    /\ expenses' = Removed(expenses, e)
    /\ report' = [asked |-> FALSE]
    /\ UNCHANGED <<today, sales, returned, inFlight>>

NextDay ==
  /\ today < Days
  /\ today' = today + 1
  /\ UNCHANGED <<sales, returned, expenses, report, inFlight>>

ReportsNext ==
  \/ \E r \in Requests : ReadOrders(r) \/ ReadRefunds(r)
  \/ Place \/ Move("PENDING", "DELIVERED") \/ Move("DELIVERED", "RETURNED")
  \/ Refund \/ Complete \/ SaveExpense \/ RemoveExpense \/ NextDay

ReportsSpec == ReportsInit /\ [][ReportsNext]_<<reportVars, inFlight>>

-----------------------------------------------------------------------------

ReportsTypeOK ==
  /\ today \in 1..Days \/ today = 1
  /\ \A o \in DOMAIN sales :
       /\ sales[o].items \in Lines /\ sales[o].placed \in 1..today
       /\ sales[o].status \in {"PENDING", "DELIVERED", "RETURNED"}
  /\ \A f \in DOMAIN returned :
       /\ returned[f].order \in DOMAIN sales
       /\ returned[f].amount \in Amounts
       /\ returned[f].recorded \in 1..today
  /\ \A e \in DOMAIN expenses :
       expenses[e].spentOn \in 1..Days /\ expenses[e].amount \in Amounts

\* What one order brought in, counted by itself.
Kept(o) ==
  totalAmount(sales[o])
    - Amount({f \in Completed(returned) : returned[f].order = o},
             LAMBDA f : returned[f].amount)

\* The net revenue of a period is what each of its delivered orders brought in,
\* whatever day a refund was recorded, and so is never negative; when the report
\* says every line has its cost, its gross profit takes all of them off. Days that
\* follow each other add up: what was sold and spent on each makes the net profit,
\* and no refund is both deducted and owed. An order that is delivered or returned
\* between the two queries ends this.
ReportIsTrue ==
  report.asked /\ ~overtaken =>
    LET orders == Delivered(report.period)
        lines == UNION {{<<o, i>> : i \in DOMAIN sales[o].items} : o \in orders}
        line(x) == sales[x[1]].items[x[2]]
        kept(day) == Amount({o \in orders : sales[o].placed = day}, Kept)
        spent(day) == Amount({e \in DOMAIN expenses :
                                expenses[e].spentOn = day},
                             LAMBDA e : expenses[e].amount)
        profit(day) == kept(day) - spent(day)
        cogs == report.netRevenue - report.grossProfit
    IN  /\ report.netRevenue = Amount(orders, Kept)
        /\ report.netRevenue >= 0
        /\ report.complete =>
             cogs = Amount(lines, LAMBDA x : line(x).quantity * line(x).unitCost)
        /\ report.netProfit + cogs
             = Amount(report.period.from .. report.period.to, profit)
        /\ report.pending
             = Amount(DOMAIN returned, LAMBDA f : returned[f].amount)
               - Amount(Completed(returned), LAMBDA f : returned[f].amount)
===============================================================================
