------------------------------ MODULE Purchasing ------------------------------
(***************************************************************************)
(* The back office that buys: vendors, raw materials, purchase bills and   *)
(* the payments made for them, with several requests in flight.            *)
(*                                                                         *)
(* A bill's handler reads and checks first. Its transaction then changes   *)
(* stock and lines, and works out the cost of every material concerned     *)
(* from its purchase history: one query and one update for each. A         *)
(* transaction keeps the rows it has written locked until it ends and sees *)
(* its own writes and whatever others have committed. A payment is checked *)
(* and then written without a transaction.                                 *)
(***************************************************************************)
EXTENDS MaterialCosting

CONSTANTS
  Vendors, Materials,
  Opening,         \* a material as it is first entered
  Papers,          \* the contents of a bill that may be keyed in
  BillEdits,       \* the sets of fields an edit of a bill may give
  MaterialEdits,   \* the edits of a material: the fields given, as a function
  Payments,        \* the payments that may be entered, their bill left open
  PaymentEdits,    \* the sets of fields an edit of a payment may give
  Today,           \* the day of a report
  Requests,        \* the requests that can be in flight at the same time
  Known,           \* the vendors and materials entered before anything else
  MaxBills,        \* bound: bills ever created
  MaxPayments,     \* bound: payments ever created
  MaxEdits         \* bound: edits and deletions ever asked for

ASSUME BillBound == MaxBills \in Nat
ASSUME PaymentBound == MaxPayments \in Nat
ASSUME EditBound == MaxEdits \in Nat

\* Nothing on a form is negative.
PurchaseLine == [material : Materials, quantity : Nat, price : Nat]

ASSUME PapersAssumption ==
  \A paper \in Papers :
    /\ paper.vendor \in Vendors
    /\ paper.items # <<>> /\ paper.items \in Seq(PurchaseLine)
    /\ paper.date \in Int /\ paper.due \in Int
    /\ paper.tax \in Nat /\ paper.discount \in Nat
ASSUME PaymentsAssumption ==
  \A p \in Payments : p.vendor \in Vendors /\ p.amount \in Nat /\ p.on \in Int
ASSUME OpeningAssumption ==
  DOMAIN Opening = {"stock", "cost", "last", "unit"} /\ Opening.stock \in Nat
ASSUME MaterialEditsAssumption ==
  \A edit \in MaterialEdits :
    /\ DOMAIN edit \subseteq {"stock", "cost", "unit"}
    /\ "stock" \in DOMAIN edit => edit.stock \in Nat
ASSUME TodayAssumption == Today \in Int

VARIABLES
  vendors,    \* for each vendor, whether it is entered, and whether gone again
  materials,  \* the materials there are, with stock, cost, last price and unit
  bills,      \* the bills by id
  payments,   \* the payments by id
  made,       \* how many bills, payments and edits there have been
  job,        \* what each request is doing
  counted,    \* history: stock that did not come from a bill, per material
  byHand,     \* history: materials whose cost was last entered by hand
  repriced,   \* history: bills edited under their payments
  overtaken   \* history: a request wrote what it had decided on old readings

vars == <<vendors, materials, bills, payments, made, job, counted, byHand,
          repriced, overtaken>>

Idle == [phase |-> "idle"]

Become(r, what) == job' = [job EXCEPT ![r] = what]

materialIdsOf(items) == {items[i].material : i \in DOMAIN items}

QuantityOf(items, m) ==
  Over({i \in DOMAIN items : items[i].material = m},
       LAMBDA i : items[i].quantity)

\* Everything bought of a material, by the lines of the bills in `view'.
HistoryIn(view, m) ==
  UNION {{[bill |-> b, place |-> i, date |-> view[b].date,
           quantity |-> view[b].items[i].quantity,
           price |-> view[b].items[i].price]
            : i \in {j \in DOMAIN view[b].items :
                       view[b].items[j].material = m}}
          : b \in DOMAIN view}

\* The last of a history ordered by bill date; a day's bills in any order.
LatestPrices(lines) ==
  {l.price : l \in {k \in lines : \A o \in lines : o.date <= k.date}}

Without(f, x) == [y \in DOMAIN f \ {x} |-> f[y]]

With(f, x, row) == [y \in DOMAIN f \cup {x} |-> IF y = x THEN row ELSE f[y]]

Extended(f, g) ==
  [y \in DOMAIN f \cup DOMAIN g |-> IF y \in DOMAIN g THEN g[y] ELSE f[y]]

-----------------------------------------------------------------------------

Init ==
  /\ vendors = [v \in Vendors |-> IF v \in Known THEN "there" ELSE "unborn"]
  /\ materials = [m \in Materials \cap Known |-> Opening]
  /\ bills = <<>>
  /\ payments = <<>>
  /\ made = [bills |-> 0, payments |-> 0, edits |-> 0]
  /\ job = [r \in Requests |-> Idle]
  /\ counted = [m \in DOMAIN materials |-> Opening.stock]
  /\ byHand = DOMAIN materials
  /\ repriced = {}
  /\ overtaken = FALSE

\* One more edit or deletion is asked for.
Edit ==
  /\ made.edits < MaxEdits
  /\ made' = [made EXCEPT !.edits = @ + 1]

-----------------------------------------------------------------------------
(* Purchase bills. *)

Touching == {r \in Requests : job[r].phase \in {"opening", "costing"}}

Open == {r \in Requests : job[r].phase = "costing"}

\* Mistake: an edit adds the new lines and forgets to reverse the old.
addedOnly(r, m) ==
  IF m \notin DOMAIN materials \/ ~job[r].replaces THEN 0
  ELSE QuantityOf(job[r].row.items, m)

\* applyStockDeltas: what a bill job subtracts and adds. A bill's edit that
\* gives no items leaves the stock alone.
applyStockDeltas(r, m) ==
  IF m \notin DOMAIN materials \/ ~job[r].replaces THEN 0
  ELSE QuantityOf(job[r].row.items, m) - QuantityOf(job[r].was, m)

\* The materials whose rows a transaction has written.
Locked(r) == IF r \in Open THEN DOMAIN job[r].costs ELSE {}

\* The bills as the transaction sees them.
Seen(r) ==
  CASE job[r].kind = "remove" -> Without(bills, job[r].id)
    [] job[r].kind # "remove" /\ job[r].replaces ->
         With(bills, job[r].id, job[r].row)
    [] OTHER ->
         [bills EXCEPT ![job[r].id] =
            [job[r].row EXCEPT !.items = bills[job[r].id].items]]

assertVendorExists(v) == vendors[v] = "there"

assertBillNumberAvailable(v, number, except) ==
  \A b \in DOMAIN bills \ {except} :
    ~(bills[b].vendor = v /\ bills[b].number = number)

assertDueDateNotBeforeBillDate(date, due) == due # None => date <= due

assertMaterialsExist(items) == materialIdsOf(items) \subseteq DOMAIN materials

\* Mistake: the tax is left out of the total.
PricedUntaxed(paper) ==
  [vendor |-> paper.vendor, number |-> paper.number, date |-> paper.date,
   due |-> paper.due, items |-> paper.items, tax |-> paper.tax,
   discount |-> paper.discount,
   total |-> subtotal(paper.items) - paper.discount]

\* The row a bill is written as: its content, its total computed.
Priced(paper) ==
  [vendor |-> paper.vendor, number |-> paper.number, date |-> paper.date,
   due |-> paper.due, items |-> paper.items, tax |-> paper.tax,
   discount |-> paper.discount,
   total |-> billTotals(paper.items, paper.tax, paper.discount)]

\* Mistake: only the materials of the new lines have their cost recomputed.
affectedByNew(was, items) == materialIdsOf(items)

affected(was, items) == materialIdsOf(was) \cup materialIdsOf(items)

\* `paid' is what a deletion has counted.
BillJob(kind, id, was, row, replaces, paid) ==
  [phase |-> "opening", kind |-> kind, id |-> id, was |-> was, row |-> row,
   replaces |-> replaces, paid |-> paid,
   todo |-> {}, pending |-> <<>>, costs |-> <<>>]

\* create: the checks, and the lines and totals computed. Its id is taken when
\* the row is inserted; giving it out now changes nothing.
AskCreateBill(r, paper) ==
  /\ job[r].phase = "idle"
  /\ made.bills < MaxBills
  /\ assertVendorExists(paper.vendor)
  /\ assertBillNumberAvailable(paper.vendor, paper.number, None)
  /\ assertMaterialsExist(paper.items)
  /\ assertDueDateNotBeforeBillDate(paper.date, paper.due)
  /\ Become(r, BillJob("create", made.bills + 1, <<>>, Priced(paper), TRUE, {}))
  /\ made' = [made EXCEPT !.bills = @ + 1]
  /\ UNCHANGED <<vendors, materials, bills, payments, counted, byHand,
                 repriced, overtaken>>

\* The row with the fields an edit gives taken from it.
Edited(row, edit, given) ==
  [f \in DOMAIN row |-> IF f \in given THEN edit[f] ELSE row[f]]

\* update: the bill is read with its lines; fields not given, and lines not
\* given, are those that were read.
AskUpdateBill(r, id, paper, given) ==
  LET existing == bills[id]
      next == Edited(existing, paper, given)
  IN  /\ job[r].phase = "idle" /\ Edit
      /\ id \in DOMAIN bills
      /\ next.vendor = existing.vendor \/ assertVendorExists(next.vendor)
      /\ next.number = existing.number
           \/ assertBillNumberAvailable(next.vendor, next.number, id)
      /\ assertDueDateNotBeforeBillDate(next.date, next.due)
      /\ "items" \in given => assertMaterialsExist(next.items)
      /\ Become(r, BillJob("update", id, existing.items, Priced(next),
                           "items" \in given, {}))
      /\ UNCHANGED <<vendors, materials, bills, payments, counted, byHand,
                     repriced, overtaken>>

\* Mistake: payments are not asked about.
AskRemoveBillPaid(r, id) ==
  /\ job[r].phase = "idle" /\ Edit
  /\ id \in DOMAIN bills
  /\ Become(r, BillJob("remove", id, bills[id].items,
                       [bills[id] EXCEPT !.items = <<>>], TRUE,
                       PaymentsOn(payments, id)))
  /\ UNCHANGED <<vendors, materials, bills, payments, counted, byHand,
                 repriced, overtaken>>

\* remove: refused where payments are found.
AskRemoveBill(r, id) ==
  /\ job[r].phase = "idle" /\ Edit
  /\ id \in DOMAIN bills
  /\ PaymentsOn(payments, id) = {}
  /\ Become(r, BillJob("remove", id, bills[id].items,
                       [bills[id] EXCEPT !.items = <<>>], TRUE,
                       PaymentsOn(payments, id)))
  /\ UNCHANGED <<vendors, materials, bills, payments, counted, byHand,
                 repriced, overtaken>>

\* The rows of its lines' materials, which a transaction writes first.
Written(r) ==
  IF job[r].replaces THEN affected(job[r].was, job[r].row.items) ELSE {}

\* The transaction writes the bill, its lines and the stock. It waits for the
\* rows others have written, and for a number another is about to take; it goes
\* through only where the rows it names are there and the number is free.
\* recomputeMaterialCosts then queries the history of each material: of those
\* whose rows it has written, it cannot change any more, and all are read here.
OpenBill(r) ==
  LET row == job[r].row
  IN  /\ job[r].phase = "opening"
      /\ \A q \in Open :
           /\ job[q].id # job[r].id
           /\ <<job[q].row.vendor, job[q].row.number>> # <<row.vendor, row.number>>
           /\ Locked(q) \cap Written(r) = {}
      /\ job[r].kind # "create" => job[r].id \in DOMAIN bills
      /\ job[r].kind # "remove" =>
           /\ assertVendorExists(row.vendor)
           /\ assertBillNumberAvailable(row.vendor, row.number, job[r].id)
      /\ Written(r) \subseteq DOMAIN materials
      /\ Become(r, [job[r] EXCEPT
           !.phase = "costing",
           !.todo = affected(job[r].was, row.items) \ Written(r),
           !.costs = [m \in Written(r) |-> HistoryIn(Seen(r), m)]])
      /\ UNCHANGED <<vendors, materials, bills, payments, made, counted, byHand,
                     repriced, overtaken>>

\* recomputeMaterialCosts for an edit that leaves the lines alone: it queries
\* the history of a material whose row it has not written.
ReadHistory(r) ==
  /\ job[r].phase = "costing" /\ job[r].pending = <<>>
  /\ \E m \in job[r].todo :
       Become(r, [job[r] EXCEPT !.todo = @ \ {m},
                               !.pending = With(<<>>, m, HistoryIn(Seen(r), m))])
  /\ UNCHANGED <<vendors, materials, bills, payments, made, counted, byHand,
                 repriced, overtaken>>

\* And updates the material, once nobody else holds the row.
WriteCost(r) ==
  /\ job[r].phase = "costing" /\ job[r].pending # <<>>
  /\ DOMAIN job[r].pending \subseteq DOMAIN materials
  /\ \A q \in Open \ {r} : DOMAIN job[r].pending \cap Locked(q) = {}
  /\ Become(r, [job[r] EXCEPT !.pending = <<>>,
                              !.costs = Extended(@, job[r].pending)])
  /\ UNCHANGED <<vendors, materials, bills, payments, made, counted, byHand,
                 repriced, overtaken>>

\* Whether what the request decided on is no longer so.
OutOfDate(r) ==
  \/ job[r].kind # "create" /\ job[r].was # bills[job[r].id].items
  \/ job[r].kind = "remove" /\ PaymentsOn(payments, job[r].id) # job[r].paid
  \/ \E m \in DOMAIN job[r].costs :
       job[r].costs[m] # HistoryIn(Seen(r), m)

\* Everything commits. Of a material nothing of which was ever bought, the cost
\* stays; payments of a deleted bill stay too, without it (onDelete: SetNull).
CommitBill(r) ==
  LET id == job[r].id
      costs == job[r].costs
      bought == {m \in DOMAIN costs : costs[m] # {}}
  IN  /\ job[r].phase = "costing"
      /\ job[r].todo = {} /\ job[r].pending = <<>>
      /\ bills' = Seen(r)
      /\ \E last \in [bought -> {p.price : p \in UNION Range(costs)}] :
           /\ \A m \in bought : last[m] \in LatestPrices(costs[m])
           /\ materials' =
                [m \in DOMAIN materials |->
                   [materials[m] EXCEPT
                      !.stock = @ + applyStockDeltas(r, m),
                      !.cost = IF m \in bought
                               THEN weightedAverageCost(costs[m]) ELSE @,
                      !.last = IF m \in bought THEN last[m] ELSE @]]
      /\ byHand' = byHand \ bought
      /\ payments' = IF job[r].kind = "remove"
                     THEN [p \in DOMAIN payments |->
                             IF payments[p].bill = id
                             THEN [payments[p] EXCEPT !.bill = None]
                             ELSE payments[p]]
                     ELSE payments
      /\ repriced' =
           CASE job[r].kind = "remove" -> repriced \ {id}
             [] job[r].kind = "update" /\ PaymentsOn(payments, id) # {}
                  /\ (job[r].row.total < bills[id].total
                        \/ job[r].row.vendor # bills[id].vendor) ->
                  repriced \cup {id}
             [] OTHER -> repriced
      /\ overtaken' = (overtaken \/ OutOfDate(r))
      /\ Become(r, Idle)
      /\ UNCHANGED <<vendors, made, counted>>

-----------------------------------------------------------------------------
(* Vendor payments. *)

\* Mistakes: any vendor may pay any bill; a payment is compared with the bill's
\* total alone.
fitsAnyVendor(bill, vendor, amount, except) ==
  /\ bill \in DOMAIN bills
  /\ amount <= bills[bill].total
       - AmountOf(payments, PaymentsOn(payments, bill) \ {except})

fitsTotal(bill, vendor, amount, except) ==
  /\ bill \in DOMAIN bills
  /\ bills[bill].vendor = vendor
  /\ amount <= bills[bill].total

assertPaymentFitsBill(bill, vendor, amount, except) ==
  /\ bill \in DOMAIN bills
  /\ bills[bill].vendor = vendor
  /\ amount <= bills[bill].total
       - AmountOf(payments, PaymentsOn(payments, bill) \ {except})

\* What that check has read.
Reading(bill, except) ==
  IF bill \notin DOMAIN bills THEN <<>>
  ELSE <<bills[bill].vendor, bills[bill].total,
         AmountOf(payments, PaymentsOn(payments, bill) \ {except})>>

Paying(kind, id, row) ==
  [phase |-> "paying", kind |-> kind, id |-> id, row |-> row,
   seen |-> Reading(row.bill, id)]

AskPayment(r, payment, bill) ==
  LET id == made.payments + 1
      row == [vendor |-> payment.vendor, amount |-> payment.amount,
              on |-> payment.on, bill |-> bill]
  IN  /\ job[r].phase = "idle"
      /\ made.payments < MaxPayments
      /\ assertVendorExists(row.vendor)
      /\ bill = None \/ assertPaymentFitsBill(bill, row.vendor, row.amount, None)
      /\ Become(r, Paying("create", id, row))
      /\ made' = [made EXCEPT !.payments = @ + 1]
      /\ UNCHANGED <<vendors, materials, bills, payments, counted, byHand,
                     repriced, overtaken>>

\* The payment itself does not count against the bill while it is edited.
AskPaymentEdit(r, id, payment, bill, given) ==
  LET edit == [vendor |-> payment.vendor, amount |-> payment.amount,
               on |-> payment.on, bill |-> bill]
      row == Edited(payments[id], edit, given)
  IN  /\ job[r].phase = "idle" /\ Edit
      /\ id \in DOMAIN payments
      /\ row.vendor = payments[id].vendor \/ assertVendorExists(row.vendor)
      /\ row.bill = None
           \/ assertPaymentFitsBill(row.bill, row.vendor, row.amount, id)
      /\ Become(r, Paying("update", id, row))
      /\ UNCHANGED <<vendors, materials, bills, payments, counted, byHand,
                     repriced, overtaken>>

\* One statement; what it refers to has to be there.
WritePayment(r) ==
  LET row == job[r].row
  IN  /\ job[r].phase = "paying"
      /\ job[r].kind = "update" => job[r].id \in DOMAIN payments
      /\ assertVendorExists(row.vendor)
      /\ row.bill \in DOMAIN bills \cup {None}
      /\ \A q \in Open : ~(job[q].kind = "remove" /\ job[q].id = row.bill)
      /\ payments' = With(payments, job[r].id, row)
      /\ overtaken' = (overtaken \/ Reading(row.bill, job[r].id) # job[r].seen)
      /\ Become(r, Idle)
      /\ UNCHANGED <<vendors, materials, bills, made, counted, byHand, repriced>>

RemovePayment(id) ==
  /\ id \in DOMAIN payments /\ Edit
  /\ payments' = Without(payments, id)
  /\ UNCHANGED <<vendors, materials, bills, job, counted, byHand, repriced,
                 overtaken>>

-----------------------------------------------------------------------------
(* Raw materials and vendors. *)

CreateMaterial(m) ==
  /\ m \notin DOMAIN counted
  /\ materials' = With(materials, m, Opening)
  /\ counted' = With(counted, m, Opening.stock)
  /\ byHand' = byHand \cup {m}
  /\ UNCHANGED <<vendors, bills, payments, made, job, repriced, overtaken>>

\* Mistake: the unit may change whatever is in stock.
mayRename(m, edit) == TRUE

\* A unit may change only while nothing is in stock.
mayChangeUnit(m, edit) ==
  "unit" \in DOMAIN edit =>
    edit.unit = materials[m].unit \/ materials[m].stock = 0

AskMaterialEdit(r, m, edit) ==
  /\ job[r].phase = "idle" /\ Edit
  /\ m \in DOMAIN materials
  /\ mayChangeUnit(m, edit)
  /\ Become(r, [phase |-> "stocking", id |-> m, edit |-> edit,
                unit |-> materials[m].unit, stock |-> materials[m].stock])
  /\ UNCHANGED <<vendors, materials, bills, payments, counted, byHand,
                 repriced, overtaken>>

\* Mistake: fields left out of the request are lost.
replacedBy(edit, row) == edit

mergedInto(edit, row) ==
  [f \in DOMAIN row |-> IF f \in DOMAIN edit THEN edit[f] ELSE row[f]]

\* The fields given are written over the row, once nobody else holds it.
WriteMaterial(r) ==
  LET m == job[r].id
      edit == job[r].edit
  IN  /\ job[r].phase = "stocking"
      /\ m \in DOMAIN materials
      /\ \A q \in Open : m \notin Locked(q)
      /\ materials' = [materials EXCEPT ![m] = mergedInto(edit, @)]
      /\ counted' =
           IF "stock" \in DOMAIN edit
           THEN [counted EXCEPT ![m] = edit.stock
                   - Over(HistoryIn(bills, m), LAMBDA l : l.quantity)]
           ELSE counted
      /\ byHand' = IF "cost" \in DOMAIN edit THEN byHand \cup {m} ELSE byHand
      /\ overtaken' = (overtaken \/ ("unit" \in DOMAIN edit
                                     /\ (materials[m].unit # job[r].unit
                                          \/ materials[m].stock # job[r].stock)))
      /\ Become(r, Idle)
      /\ UNCHANGED <<vendors, bills, payments, made, repriced>>

\* Refused by the foreign key where a bill names the material.
RemoveMaterial(m) ==
  /\ m \in DOMAIN materials /\ Edit
  /\ HistoryIn(bills, m) = {}
  /\ \A q \in Open : m \notin Locked(q)
  /\ materials' = Without(materials, m)
  /\ UNCHANGED <<vendors, bills, payments, job, counted, byHand, repriced,
                 overtaken>>

CreateVendor(v) ==
  /\ vendors[v] = "unborn"
  /\ vendors' = [vendors EXCEPT ![v] = "there"]
  /\ UNCHANGED <<materials, bills, payments, made, job, counted, byHand,
                 repriced, overtaken>>

\* Refused where a bill or a payment names the vendor, one being written too.
RemoveVendor(v) ==
  /\ vendors[v] = "there" /\ Edit
  /\ BillsOf(bills, v) = {} /\ PaymentsTo(payments, v) = {}
  /\ \A q \in Open : job[q].row.vendor # v
  /\ vendors' = [vendors EXCEPT ![v] = "gone"]
  /\ UNCHANGED <<materials, bills, payments, job, counted, byHand,
                 repriced, overtaken>>

\* A statement throws, two transactions wait for each other, one takes too long
\* or the process dies: nothing of an unfinished request remains.
Fail(r) ==
  /\ job[r].phase # "idle"
  /\ Become(r, Idle)
  /\ UNCHANGED <<vendors, materials, bills, payments, made, counted, byHand,
                 repriced, overtaken>>

-----------------------------------------------------------------------------

Ask(r) ==
  \/ \E paper \in Papers : AskCreateBill(r, paper)
  \/ \E id \in DOMAIN bills, paper \in Papers, given \in BillEdits :
       AskUpdateBill(r, id, paper, given)
  \/ \E id \in DOMAIN bills : AskRemoveBill(r, id)
  \/ \E payment \in Payments, bill \in DOMAIN bills \cup {None} :
       AskPayment(r, payment, bill)
  \/ \E id \in DOMAIN payments, payment \in Payments,
        bill \in DOMAIN bills \cup {None}, given \in PaymentEdits :
       AskPaymentEdit(r, id, payment, bill, given)
  \/ \E m \in DOMAIN materials, edit \in MaterialEdits :
       AskMaterialEdit(r, m, edit)

Handler(r) ==
  \/ OpenBill(r) \/ ReadHistory(r) \/ WriteCost(r) \/ CommitBill(r)
  \/ WritePayment(r) \/ WriteMaterial(r) \/ Fail(r)

Next ==
  \/ \E r \in Requests : Ask(r) \/ Handler(r)
  \/ \E id \in DOMAIN payments : RemovePayment(id)
  \/ \E m \in Materials : CreateMaterial(m) \/ RemoveMaterial(m)
  \/ \E v \in Vendors : CreateVendor(v) \/ RemoveVendor(v)

Spec == Init /\ [][Next]_vars
-----------------------------------------------------------------------------
(* Properties. *)

Items == UNION {{paper.items, <<>>} : paper \in Papers}

TypeOK ==
  /\ vendors \in [Vendors -> {"unborn", "there", "gone"}]
  /\ DOMAIN materials \subseteq DOMAIN counted
  /\ DOMAIN counted \subseteq Materials
  /\ \A m \in DOMAIN materials : DOMAIN materials[m] = DOMAIN Opening
  /\ made \in [bills : 0 .. MaxBills, payments : 0 .. MaxPayments,
               edits : 0 .. MaxEdits]
  /\ DOMAIN bills \subseteq 1 .. made.bills
  /\ \A b \in DOMAIN bills :
       vendors[bills[b].vendor] = "there" /\ assertMaterialsExist(bills[b].items)
  /\ DOMAIN payments \subseteq 1 .. made.payments
  /\ \A p \in DOMAIN payments :
       /\ vendors[payments[p].vendor] = "there"
       /\ payments[p].bill \in DOMAIN bills \cup {None}
  /\ \A r \in Touching : job[r].was \in Items /\ job[r].row.items \in Items
  /\ overtaken \in BOOLEAN

\* Stock is what was counted plus what the bills brought, through every edit
\* ("full reversal before re-application"), as long as no bill was reversed by
\* lines that had been replaced meanwhile.
StockIsCountPlusBills ==
  ~overtaken =>
    \A m \in DOMAIN materials :
      materials[m].stock
        = counted[m] + Over(HistoryIn(bills, m), LAMBDA l : l.quantity)

\* The reports are functions of the committed rows. They are compared while
\* nothing is in flight, which loses nothing: whatever is in flight may fail.
Quiet == \A r \in Requests : job[r].phase = "idle"

\* Where all stock was bought, its valuation is the money spent on it, but for
\* the rounding of a cost: the sum kept by steps agrees with the recomputed one.
StockIsWorthItsBills ==
  Quiet =>
    \A m \in DOMAIN materials \ byHand :
      LET lines == HistoryIn(bills, m)
          spent == 10000 * Over(lines, LAMBDA l : l.quantity * l.price)
          worth == stockValuation(materials).stockValue[m]
      IN  lines # {} /\ counted[m] = 0 =>
            2 * (worth - spent) <= materials[m].stock
              /\ 2 * (spent - worth) <= materials[m].stock

\* "Recomputed from history [...] always exactly right": cost and last price are
\* those of the bills there are, edited, redated or deleted as they may be.
CostIsHistory ==
  ~overtaken =>
    /\ \A m \in DOMAIN materials :
         LET lines == HistoryIn(bills, m)
         IN  lines # {} =>
               /\ materials[m].last \in LatestPrices(lines)
               /\ m \notin byHand =>
                    materials[m].cost = weightedAverageCost(lines)
    /\ StockIsWorthItsBills

\* No bill's figure disagrees with its own lines, whatever part of it is edited.
TotalIsLines ==
  ~overtaken =>
    \A b \in DOMAIN bills :
      bills[b].total
        = billTotals(bills[b].items, bills[b].tax, bills[b].discount)

\* So what was spent by material is what was billed, by vendor or altogether,
\* less the taxes plus the discounts.
SpendAddsUp ==
  LET spend == purchaseSummary(bills)
      charges == Over(DOMAIN bills, LAMBDA b : bills[b].tax - bills[b].discount)
  IN  /\ TotalIsLines
      /\ ~overtaken /\ Quiet =>
           /\ spend.totalSpend = charges
                + Over(DOMAIN spend.byMaterial, LAMBDA m : spend.byMaterial[m])
           /\ spend.totalSpend
                = Over(DOMAIN spend.byVendor, LAMBDA v : spend.byVendor[v])

\* "Over-payment is blocked rather than tolerated", through edits of payments
\* between bills, until a bill is lowered or given away under its payments.
NoOverpayment ==
  ~overtaken =>
    \A b \in DOMAIN bills \ repriced :
      PaymentsOn(payments, b) # {} => outstandingAmount(bills, payments, b) >= 0

\* A statement says the same whichever way it is added up: its last balance, its
\* totals, and its bills' outstanding amounts less the advances; the payables
\* report ages all that is owed on unpaid bills. That needs every payment to stay with
\* a bill of its own vendor.
StatementAgrees ==
  ~overtaken /\ Quiet /\ repriced = {} =>
    \A v \in Vendors :
      LET statement == ledger(bills, payments, v)
          aging == vendorPayables(bills, payments, v, Today)
          owed == Over(BillsOf(bills, v),
                       LAMBDA b : outstandingAmount(bills, payments, b))
      IN  /\ statement.outstanding = owed - statement.onAccount
          /\ \A day \in DOMAIN statement.balance :
               (\A d \in DOMAIN statement.balance : d <= day) =>
                 statement.balance[day].payments = statement.outstanding
          /\ aging.unpaidBills = statement.unpaidBills
          /\ aging.current + aging.upTo30 + aging.upTo60 + aging.over60
               = Over(statement.unpaidBills,
                      LAMBDA b : outstandingAmount(bills, payments, b))

\* "Refused once payments exist": no bill goes from under its payments, which
\* would turn them into advances.
PaidBillStays ==
  [][~overtaken' =>
       \A b \in DOMAIN bills \ DOMAIN bills' : PaymentsOn(payments, b) = {}]_vars

\* "5000 recorded as GRAM is not 5000 KILOGRAM": what is in stock keeps its
\* unit.
UnitKeepsStock ==
  [][~overtaken' =>
       \A m \in DOMAIN materials \cap DOMAIN materials' :
         materials'[m].unit # materials[m].unit => materials[m].stock = 0]_vars

\* What the payables report owes a vendor is what the statement owes: money
\* paid on account is "already counted inside `paid`".
PayablesAgree ==
  ~overtaken /\ repriced = {} =>
    \A v \in Vendors :
      vendorPayables(bills, payments, v, Today).outstanding
        = ledger(bills, payments, v).outstanding
===============================================================================
