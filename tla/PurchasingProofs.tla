---------------------------- MODULE PurchasingProofs ----------------------------
(***************************************************************************)
(* What holds of purchasing for any vendors, materials and bills, and any  *)
(* number of requests. First, that every reference is to a row that is     *)
(* there, a bill stays while payments are known of it, and stock keeps its *)
(* unit: an argument about the transactions in flight, since what one has  *)
(* written or refers to is locked, so that nobody else takes it away       *)
(* before the commit. Then, that the books are right: stock, costs, spend, *)
(* payments and statements. Those are sums over bills and payments, and    *)
(* the argument is what one commit changes of them.                        *)
(***************************************************************************)
EXTENDS Purchasing, SumTheorems, TLAPS

BillFields ==
  {"vendor", "number", "date", "due", "items", "tax", "discount", "total"}

PaymentFields == {"vendor", "amount", "on", "bill"}

Fields == {"stock", "cost", "last", "unit"}

Counts == [bills : 0 .. MaxBills, payments : 0 .. MaxPayments,
           edits : 0 .. MaxEdits]

RowFits(row) ==
  DOMAIN row = BillFields /\ row.vendor \in Vendors /\ row.items \in Items

PaymentFits(row) == DOMAIN row = PaymentFields /\ row.vendor \in Vendors

MaterialsFit ==
  /\ DOMAIN materials \subseteq DOMAIN counted
  /\ DOMAIN counted \subseteq Materials
  /\ \A m \in DOMAIN materials : DOMAIN materials[m] = Fields

BillsFit ==
  \A b \in DOMAIN bills :
    /\ b \in 1 .. made.bills
    /\ RowFits(bills[b])
    /\ vendors[bills[b].vendor] = "there"
    /\ assertMaterialsExist(bills[b].items)

PaymentsFit ==
  \A p \in DOMAIN payments :
    /\ p \in 1 .. made.payments
    /\ PaymentFits(payments[p])
    /\ vendors[payments[p].vendor] = "there"
    /\ payments[p].bill \in DOMAIN bills \cup {None}

\* What a bill's request has read and means to write.
BillJobFits(j) ==
  /\ DOMAIN j = {"phase", "kind", "id", "was", "row", "replaces", "paid",
                 "todo", "pending", "costs"}
  /\ j.kind \in {"create", "update", "remove"}
  /\ j.id \in 1 .. made.bills
  /\ j.was \in Items /\ RowFits(j.row)
  /\ j.replaces \in BOOLEAN
  /\ j.kind # "update" => j.replaces
  /\ j.kind = "remove" => j.paid = {}

\* What its transaction relies on: the rows it refers to are there, and the
\* materials of its lines are locked.
OpenFits(j) ==
  /\ j.kind # "create" => j.id \in DOMAIN bills
  /\ j.kind # "remove" => vendors[j.row.vendor] = "there"
  /\ j.replaces =>
       /\ affected(j.was, j.row.items) \subseteq DOMAIN j.costs
       /\ affected(j.was, j.row.items) \subseteq DOMAIN materials

PayJobFits(j) == j.id \in 1 .. made.payments /\ PaymentFits(j.row)

StockJobFits(j) ==
  "unit" \in DOMAIN j.edit => j.edit.unit = j.unit \/ j.stock = 0

JobFits(j) ==
  /\ j.phase \in {"idle", "opening", "costing", "paying", "stocking"}
  /\ j.phase \in {"opening", "costing"} => BillJobFits(j)
  /\ j.phase = "costing" => OpenFits(j)
  /\ j.phase = "paying" => PayJobFits(j)
  /\ j.phase = "stocking" => StockJobFits(j)

\* No two transactions write the same bill.
Distinct ==
  \A r, q \in Requests :
    job[r].phase = "costing" /\ job[q].phase = "costing" /\ r # q
      => job[r].id # job[q].id

Inv ==
  /\ vendors \in [Vendors -> {"unborn", "there", "gone"}]
  /\ made \in Counts
  /\ overtaken \in BOOLEAN
  /\ MaterialsFit /\ BillsFit /\ PaymentsFit
  /\ job = [r \in Requests |-> job[r]]
  /\ \A r \in Requests : JobFits(job[r])
  /\ Distinct

\* The invariant says more than the types.
LEMMA InvGivesTypeOK == Inv => TypeOK
<1>. SUFFICES ASSUME Inv PROVE TypeOK
  OBVIOUS
<1>1. \A r \in Touching : job[r].was \in Items /\ job[r].row.items \in Items
  BY DEF Inv, Touching, JobFits, BillJobFits, RowFits
<1>2. \A m \in DOMAIN materials : DOMAIN materials[m] = DOMAIN Opening
  BY OpeningAssumption DEF Inv, MaterialsFit, Fields
<1>3. DOMAIN bills \subseteq 1 .. made.bills
  BY DEF Inv, BillsFit
<1>4. DOMAIN payments \subseteq 1 .. made.payments
  BY DEF Inv, PaymentsFit
<1>5. \A b \in DOMAIN bills :
        /\ vendors[bills[b].vendor] = "there"
        /\ assertMaterialsExist(bills[b].items)
  BY DEF Inv, BillsFit
<1>6. \A p \in DOMAIN payments :
        /\ vendors[payments[p].vendor] = "there"
        /\ payments[p].bill \in DOMAIN bills \cup {None}
  BY DEF Inv, PaymentsFit
<1>. QED
  BY <1>1, <1>2, <1>3, <1>4, <1>5, <1>6 DEF Inv, TypeOK, MaterialsFit, Counts

\* The invariant holds before there is any bill or payment.
LEMMA InitInv == Init => Inv
<1>. SUFFICES ASSUME Init PROVE Inv
  OBVIOUS
<1>1. vendors \in [Vendors -> {"unborn", "there", "gone"}]
  BY DEF Init
<1>2. made \in Counts /\ overtaken \in BOOLEAN
  <2>1. 0 \in 0 .. MaxBills /\ 0 \in 0 .. MaxPayments /\ 0 \in 0 .. MaxEdits
    BY BillBound, PaymentBound, EditBound
  <2>2. made = [bills |-> 0, payments |-> 0, edits |-> 0]
    BY DEF Init
  <2>3. made \in Counts
    BY <2>1, <2>2, Zenon DEF Counts
  <2>4. overtaken = FALSE
    BY DEF Init
  <2>. QED
    BY <2>3, <2>4
<1>3. MaterialsFit
  BY OpeningAssumption DEF Init, MaterialsFit, Fields
<1>4. BillsFit /\ PaymentsFit
  BY DEF Init, BillsFit, PaymentsFit
<1>5. job = [r \in Requests |-> job[r]]
  BY DEF Init
<1>6. \A r \in Requests : job[r].phase = "idle"
  BY DEF Init, Idle
<1>7. (\A r \in Requests : JobFits(job[r])) /\ Distinct
  BY <1>6 DEF JobFits, Distinct
<1>. QED
  BY <1>1, <1>2, <1>3, <1>4, <1>5, <1>7 DEF Inv

-----------------------------------------------------------------------------
(* Requests that change no rows. *)

\* What a request does next is all that Become changes.
LEMMA Becoming ==
  ASSUME Inv, NEW r \in Requests, NEW what, Become(r, what)
  PROVE  /\ job' = [q \in Requests |-> job'[q]]
         /\ job'[r] = what
         /\ \A q \in Requests \ {r} : job'[q] = job[q]
BY DEF Inv, Become

\* One more edit counts no bill and no payment.
LEMMA Counting ==
  ASSUME Inv, Edit
  PROVE  /\ made' \in Counts
         /\ made'.bills = made.bills /\ made'.payments = made.payments
BY EditBound DEF Inv, Edit, Counts

\* A request that goes on as it should leaves everything in order.
LEMMA GoingOn ==
  ASSUME Inv, NEW r \in Requests, NEW what, Become(r, what),
         UNCHANGED <<vendors, materials, bills, payments, counted>>,
         overtaken' \in BOOLEAN,
         made' \in Counts,
         made.bills <= made'.bills, made.payments <= made'.payments,
         JobFits(job[r])',
         what.phase = "costing" =>
           \A q \in Open \ {r} : job[q].id # what.id
  PROVE  Inv'
<1>1. /\ job' = [q \in Requests |-> job'[q]]
      /\ job'[r] = what
      /\ \A q \in Requests \ {r} : job'[q] = job[q]
  BY Becoming
<1>2. /\ made.bills \in Nat /\ made'.bills \in Nat
      /\ made.payments \in Nat /\ made'.payments \in Nat
  BY BillBound, PaymentBound DEF Inv, Counts
<1>3. /\ 1 .. made.bills \subseteq 1 .. made'.bills
      /\ 1 .. made.payments \subseteq 1 .. made'.payments
  BY <1>2
<1>4. MaterialsFit'
  BY DEF Inv, MaterialsFit
<1>5. BillsFit'
  BY <1>3 DEF Inv, BillsFit, RowFits, assertMaterialsExist, materialIdsOf
<1>6. PaymentsFit'
  BY <1>3 DEF Inv, PaymentsFit, PaymentFits
<1>7. \A q \in Requests : JobFits(job[q])'
  <2>. SUFFICES ASSUME NEW q \in Requests, q # r PROVE JobFits(job[q])'
    OBVIOUS
  <2>1. job'[q] = job[q] /\ JobFits(job[q])
    BY <1>1 DEF Inv
  <2>. QED
    BY <1>3, <2>1 DEF JobFits, BillJobFits, RowFits, OpenFits, PayJobFits,
      PaymentFits, StockJobFits, affected, materialIdsOf
<1>8. Distinct'
  BY <1>1 DEF Inv, Distinct, Open
<1>. QED
  BY <1>1, <1>4, <1>5, <1>6, <1>7, <1>8 DEF Inv
\* Its form was checked when it was asked for.
LEMMA AskCreateStep ==
  ASSUME Inv, NEW r \in Requests, NEW paper \in Papers, AskCreateBill(r, paper)
  PROVE  Inv'
<1>. PICK what : what = BillJob("create", made.bills + 1, <<>>, Priced(paper),
                                TRUE, {})
  OBVIOUS
<1>1. Become(r, what)
  BY DEF AskCreateBill
<1>2. /\ made' \in Counts
      /\ made'.bills = made.bills + 1 /\ made'.payments = made.payments
      /\ made.bills \in Nat /\ made.payments \in Nat
  <2>1. made \in Counts /\ made.bills \in 0 .. MaxBills /\ made.bills < MaxBills
    BY DEF Inv, Counts, AskCreateBill
  <2>2. made.bills + 1 \in 0 .. MaxBills
    BY <2>1, BillBound
  <2>3. made' = [made EXCEPT !.bills = made.bills + 1]
    BY DEF AskCreateBill
  <2>. QED
    BY <2>1, <2>2, <2>3, BillBound, PaymentBound DEF Counts
<1>3. what.phase = "opening" /\ BillJobFits(what)'
  <2>1. <<>> \in Items /\ paper.items \in Items /\ paper.vendor \in Vendors
    BY PapersAssumption DEF Items
  <2>2. RowFits(Priced(paper))
    BY <2>1 DEF RowFits, Priced, BillFields
  <2>3. /\ what.id = made.bills + 1 /\ what.was = <<>> /\ what.kind = "create"
        /\ what.row = Priced(paper) /\ what.replaces = TRUE
        /\ what.phase = "opening"
        /\ DOMAIN what = {"phase", "kind", "id", "was", "row", "replaces", "paid",
                          "todo", "pending", "costs"}
    BY DEF BillJob
  <2>4. what.id \in 1 .. made'.bills
    <3>1. made.bills + 1 \in 1 .. (made.bills + 1)
      BY <1>2
    <3>. QED
      BY <1>2, <2>3, <3>1
  <2>. QED
    BY <2>1, <2>2, <2>3, <2>4 DEF BillJobFits, RowFits
<1>4. JobFits(job[r])'
  BY <1>1, <1>3, Becoming DEF JobFits
<1>5. /\ UNCHANGED <<vendors, materials, bills, payments, counted>>
      /\ overtaken' \in BOOLEAN
  BY DEF Inv, AskCreateBill
<1>6. made.bills <= made'.bills /\ made.payments <= made'.payments
  BY <1>2
<1>. QED
  BY <1>1, <1>2, <1>3, <1>4, <1>5, <1>6, GoingOn

\* An edit starts from the bill as it is.
LEMMA AskUpdateStep ==
  ASSUME Inv, NEW r \in Requests, NEW id \in DOMAIN bills,
         NEW paper \in Papers, NEW given \in BillEdits,
         AskUpdateBill(r, id, paper, given)
  PROVE  Inv'
<1>. PICK next : next = Edited(bills[id], paper, given)
  OBVIOUS
<1>. PICK what : what = BillJob("update", id, bills[id].items, Priced(next),
                                "items" \in given, {})
  OBVIOUS
<1>1. Become(r, what) /\ Edit
  BY DEF AskUpdateBill
<1>2. /\ made' \in Counts
      /\ made'.bills = made.bills /\ made'.payments = made.payments
      /\ made.bills \in Nat /\ made.payments \in Nat
  BY <1>1, Counting, BillBound, PaymentBound DEF Inv, Counts
<1>3. what.phase = "opening" /\ BillJobFits(what)'
  <2>1. RowFits(bills[id]) /\ id \in 1 .. made.bills
    BY DEF Inv, BillsFit
  <2>2. /\ paper.items \in Items /\ paper.vendor \in Vendors
    BY PapersAssumption DEF Items
  <2>3. next.items \in Items /\ next.vendor \in Vendors
    BY <2>1, <2>2 DEF Edited, RowFits, BillFields
  <2>4. RowFits(Priced(next))
    BY <2>3 DEF RowFits, Priced, BillFields
  <2>5. /\ what.id = id /\ what.was = bills[id].items /\ what.kind = "update"
        /\ what.row = Priced(next) /\ what.replaces \in BOOLEAN
        /\ what.phase = "opening"
        /\ DOMAIN what = {"phase", "kind", "id", "was", "row", "replaces", "paid",
                          "todo", "pending", "costs"}
    BY DEF BillJob
  <2>. QED
    BY <1>2, <2>1, <2>4, <2>5 DEF BillJobFits, RowFits
<1>4. JobFits(job[r])'
  BY <1>1, <1>3, Becoming DEF JobFits
<1>5. /\ UNCHANGED <<vendors, materials, bills, payments, counted>>
      /\ overtaken' \in BOOLEAN
  BY DEF Inv, AskUpdateBill
<1>6. made.bills <= made'.bills /\ made.payments <= made'.payments
  BY <1>2
<1>. QED
  BY <1>1, <1>2, <1>3, <1>4, <1>5, <1>6, GoingOn

\* A deletion has found no payment.
LEMMA AskRemoveStep ==
  ASSUME Inv, NEW r \in Requests, NEW id \in DOMAIN bills, AskRemoveBill(r, id)
  PROVE  Inv'
<1>. PICK what : what = BillJob("remove", id, bills[id].items,
                                [bills[id] EXCEPT !.items = <<>>], TRUE,
                                PaymentsOn(payments, id))
  OBVIOUS
<1>1. Become(r, what) /\ Edit /\ PaymentsOn(payments, id) = {}
  BY DEF AskRemoveBill
<1>2. /\ made' \in Counts
      /\ made'.bills = made.bills /\ made'.payments = made.payments
      /\ made.bills \in Nat /\ made.payments \in Nat
  BY <1>1, Counting, BillBound, PaymentBound DEF Inv, Counts
<1>3. what.phase = "opening" /\ BillJobFits(what)'
  <2>1. RowFits(bills[id]) /\ id \in 1 .. made.bills
    BY DEF Inv, BillsFit
  <2>2. <<>> \in Items
    BY <2>1 DEF RowFits, Items
  <2>3. RowFits([bills[id] EXCEPT !.items = <<>>])
    BY <2>1, <2>2 DEF RowFits, BillFields
  <2>4. /\ what.id = id /\ what.was = bills[id].items /\ what.kind = "remove"
        /\ what.row = [bills[id] EXCEPT !.items = <<>>]
        /\ what.replaces = TRUE /\ what.paid = PaymentsOn(payments, id)
        /\ what.phase = "opening"
        /\ DOMAIN what = {"phase", "kind", "id", "was", "row", "replaces", "paid",
                          "todo", "pending", "costs"}
    BY DEF BillJob
  <2>5. what.paid = {}
    BY <1>1, <2>4
  <2>. QED
    BY <1>2, <2>1, <2>3, <2>4, <2>5 DEF BillJobFits, RowFits
<1>4. JobFits(job[r])'
  BY <1>1, <1>3, Becoming DEF JobFits
<1>5. /\ UNCHANGED <<vendors, materials, bills, payments, counted>>
      /\ overtaken' \in BOOLEAN
  BY DEF Inv, AskRemoveBill
<1>6. made.bills <= made'.bills /\ made.payments <= made'.payments
  BY <1>2
<1>. QED
  BY <1>1, <1>2, <1>3, <1>4, <1>5, <1>6, GoingOn

\* What is given up is as if it had not been asked for.
LEMMA FailStep ==
  ASSUME Inv, NEW r \in Requests, Fail(r)
  PROVE  Inv'
<1>1. Become(r, Idle) /\ Idle.phase = "idle"
  BY DEF Fail, Idle
<1>2. JobFits(job[r])'
  BY <1>1, Becoming DEF JobFits
<1>3. /\ made' = made /\ made \in Counts
      /\ made.bills \in Nat /\ made.payments \in Nat
  BY BillBound, PaymentBound DEF Fail, Inv, Counts
<1>. QED
  BY <1>1, <1>2, <1>3, GoingOn DEF Inv, Fail
-----------------------------------------------------------------------------
(* A bill's transaction, up to its commit. *)

\* It opens only where nobody writes the same bill, and where what it refers to
\* is there; the materials of its lines are locked from then on.
LEMMA OpenStep ==
  ASSUME Inv, NEW r \in Requests, OpenBill(r)
  PROVE  Inv'
<1>. PICK what : what = [job[r] EXCEPT
       !.phase = "costing",
       !.todo = affected(job[r].was, job[r].row.items) \ Written(r),
       !.costs = [m \in Written(r) |-> HistoryIn(Seen(r), m)]]
  OBVIOUS
<1>1. Become(r, what) /\ job[r].phase = "opening"
  BY DEF OpenBill
<1>2. BillJobFits(job[r])
  BY <1>1 DEF Inv, JobFits
<1>3. /\ what.phase = "costing" /\ DOMAIN what = DOMAIN job[r]
      /\ what.kind = job[r].kind /\ what.id = job[r].id
      /\ what.was = job[r].was /\ what.row = job[r].row
      /\ what.replaces = job[r].replaces /\ what.paid = job[r].paid
      /\ DOMAIN what.costs = Written(r)
  BY <1>2 DEF BillJobFits
<1>4. BillJobFits(what)'
  BY <1>2, <1>3 DEF BillJobFits, RowFits, OpenBill
<1>5. OpenFits(what)'
  <2>1. what.replaces =>
          /\ affected(what.was, what.row.items) \subseteq DOMAIN what.costs
          /\ affected(what.was, what.row.items) \subseteq DOMAIN materials
    BY <1>3 DEF OpenBill, Written
  <2>2. what.kind # "create" => what.id \in DOMAIN bills
    BY <1>3 DEF OpenBill
  <2>3. what.kind # "remove" => vendors[what.row.vendor] = "there"
    BY <1>3 DEF OpenBill, assertVendorExists
  <2>4. UNCHANGED <<vendors, materials, bills>>
    BY DEF OpenBill
  <2>. QED
    BY <2>1, <2>2, <2>3, <2>4 DEF OpenFits, affected, materialIdsOf
<1>6. JobFits(job[r])'
  BY <1>1, <1>3, <1>4, <1>5, Becoming DEF JobFits
<1>7. \A q \in Open \ {r} : job[q].id # what.id
  BY <1>3 DEF OpenBill
<1>8. /\ made' = made /\ made \in Counts
      /\ made.bills <= made'.bills /\ made.payments <= made'.payments
  BY BillBound, PaymentBound DEF OpenBill, Inv, Counts
<1>9. /\ UNCHANGED <<vendors, materials, bills, payments, counted>>
      /\ overtaken' \in BOOLEAN
  BY DEF Inv, OpenBill
<1>. QED
  BY <1>1, <1>6, <1>7, <1>8, <1>9, GoingOn

\* Reading a history or writing a cost changes what is read and locked only.
LEMMA CostingStep ==
  ASSUME Inv, NEW r \in Requests, ReadHistory(r) \/ WriteCost(r)
  PROVE  Inv'
<1>1. PICK what :
        /\ Become(r, what) /\ what.phase = "costing"
        /\ DOMAIN what = DOMAIN job[r]
        /\ what.kind = job[r].kind /\ what.id = job[r].id
        /\ what.was = job[r].was /\ what.row = job[r].row
        /\ what.replaces = job[r].replaces /\ what.paid = job[r].paid
        /\ DOMAIN job[r].costs \subseteq DOMAIN what.costs
        /\ job[r].phase = "costing"
  <2>1. ASSUME job[r].phase = "costing"
        PROVE  DOMAIN job[r] = {"phase", "kind", "id", "was", "row", "replaces",
                                "paid", "todo", "pending", "costs"}
    BY <2>1 DEF Inv, JobFits, BillJobFits
  <2>2. CASE ReadHistory(r)
    <3>1. PICK m \in job[r].todo :
            Become(r, [job[r] EXCEPT !.todo = @ \ {m},
                          !.pending = With(<<>>, m, HistoryIn(Seen(r), m))])
      BY <2>2 DEF ReadHistory
    <3>2. PICK what :
            what = [job[r] EXCEPT !.todo = @ \ {m},
                      !.pending = With(<<>>, m, HistoryIn(Seen(r), m))]
      OBVIOUS
    <3>. QED
      BY <2>1, <2>2, <3>1, <3>2 DEF ReadHistory
  <2>3. CASE WriteCost(r)
    <3>1. PICK what : what = [job[r] EXCEPT !.pending = <<>>,
                                !.costs = Extended(@, job[r].pending)]
      OBVIOUS
    <3>2. DOMAIN job[r].costs \subseteq DOMAIN Extended(job[r].costs, job[r].pending)
      BY DEF Extended
    <3>. QED
      BY <2>1, <2>3, <3>1, <3>2 DEF WriteCost
  <2>. QED
    BY <2>2, <2>3
<1>2. BillJobFits(job[r]) /\ OpenFits(job[r])
  BY <1>1 DEF Inv, JobFits
<1>3. /\ UNCHANGED <<vendors, materials, bills, payments, counted, made>>
      /\ overtaken' \in BOOLEAN
  BY DEF Inv, ReadHistory, WriteCost
<1>4. BillJobFits(what)'
  BY <1>1, <1>2, <1>3 DEF BillJobFits, RowFits
<1>5. OpenFits(what)'
  BY <1>1, <1>2, <1>3 DEF OpenFits, affected, materialIdsOf
<1>6. JobFits(job[r])'
  BY <1>1, <1>4, <1>5, Becoming DEF JobFits
<1>7. \A q \in Open \ {r} : job[q].id # what.id
  BY <1>1 DEF Inv, Distinct, Open
<1>8. /\ made' = made /\ made \in Counts
      /\ made.bills <= made'.bills /\ made.payments <= made'.payments
  BY <1>3, BillBound, PaymentBound DEF Inv, Counts
<1>. QED
  BY <1>1, <1>3, <1>6, <1>7, <1>8, GoingOn

-----------------------------------------------------------------------------
(* Payments, before they are written. *)

\* A payment begins with a row that fits its type.
LEMMA AskPaymentStep ==
  ASSUME Inv, NEW r \in Requests, NEW payment \in Payments,
         NEW bill \in DOMAIN bills \cup {None}, AskPayment(r, payment, bill)
  PROVE  Inv'
<1>. PICK row : row = [vendor |-> payment.vendor, amount |-> payment.amount,
                       on |-> payment.on, bill |-> bill]
  OBVIOUS
<1>. PICK what : what = Paying("create", made.payments + 1, row)
  OBVIOUS
<1>1. Become(r, what)
  BY DEF AskPayment
<1>2. /\ made' \in Counts
      /\ made'.payments = made.payments + 1 /\ made'.bills = made.bills
      /\ made.bills \in Nat /\ made.payments \in Nat
  <2>1. /\ made \in Counts /\ made.payments \in 0 .. MaxPayments
        /\ made.payments < MaxPayments
    BY DEF Inv, Counts, AskPayment
  <2>2. made.payments + 1 \in 0 .. MaxPayments
    BY <2>1, PaymentBound
  <2>3. made' = [made EXCEPT !.payments = made.payments + 1]
    BY DEF AskPayment
  <2>. QED
    BY <2>1, <2>2, <2>3, BillBound, PaymentBound DEF Counts
<1>3. what.phase = "paying" /\ PayJobFits(what)'
  <2>1. /\ what.phase = "paying" /\ what.id = made.payments + 1
        /\ what.row = row
    BY DEF Paying
  <2>2. PaymentFits(row)
    BY PaymentsAssumption DEF PaymentFits, PaymentFields
  <2>3. made.payments + 1 \in 1 .. (made.payments + 1)
    BY <1>2
  <2>. QED
    BY <1>2, <2>1, <2>2, <2>3 DEF PayJobFits, PaymentFits
<1>4. JobFits(job[r])'
  BY <1>1, <1>3, Becoming DEF JobFits
<1>5. /\ UNCHANGED <<vendors, materials, bills, payments, counted>>
      /\ overtaken' \in BOOLEAN
  BY DEF Inv, AskPayment
<1>6. made.bills <= made'.bills /\ made.payments <= made'.payments
  BY <1>2
<1>. QED
  BY <1>1, <1>2, <1>3, <1>4, <1>5, <1>6, GoingOn

\* So does an edit of a payment.
LEMMA AskPaymentEditStep ==
  ASSUME Inv, NEW r \in Requests, NEW id \in DOMAIN payments,
         NEW payment \in Payments, NEW bill \in DOMAIN bills \cup {None},
         NEW given \in PaymentEdits,
         AskPaymentEdit(r, id, payment, bill, given)
  PROVE  Inv'
<1>. PICK edit : edit = [vendor |-> payment.vendor, amount |-> payment.amount,
                         on |-> payment.on, bill |-> bill]
  OBVIOUS
<1>. PICK row : row = Edited(payments[id], edit, given)
  OBVIOUS
<1>. PICK what : what = Paying("update", id, row)
  OBVIOUS
<1>1. Become(r, what) /\ Edit
  BY DEF AskPaymentEdit
<1>2. /\ made' \in Counts
      /\ made'.bills = made.bills /\ made'.payments = made.payments
      /\ made.bills \in Nat /\ made.payments \in Nat
  BY <1>1, Counting, BillBound, PaymentBound DEF Inv, Counts
<1>3. what.phase = "paying" /\ PayJobFits(what)'
  <2>1. what.phase = "paying" /\ what.id = id /\ what.row = row
    BY DEF Paying
  <2>2. PaymentFits(payments[id]) /\ id \in 1 .. made.payments
    BY DEF Inv, PaymentsFit
  <2>3. edit.vendor \in Vendors
    BY PaymentsAssumption
  <2>4. PaymentFits(row)
    BY <2>2, <2>3 DEF PaymentFits, PaymentFields, Edited
  <2>. QED
    BY <1>2, <2>1, <2>2, <2>4 DEF PayJobFits, PaymentFits
<1>4. JobFits(job[r])'
  BY <1>1, <1>3, Becoming DEF JobFits
<1>5. /\ UNCHANGED <<vendors, materials, bills, payments, counted>>
      /\ overtaken' \in BOOLEAN
  BY DEF Inv, AskPaymentEdit
<1>6. made.bills <= made'.bills /\ made.payments <= made'.payments
  BY <1>2
<1>. QED
  BY <1>1, <1>2, <1>3, <1>4, <1>5, <1>6, GoingOn

\* What the edit of a material was allowed on is what was read.
LEMMA AskMaterialStep ==
  ASSUME Inv, NEW r \in Requests, NEW m \in DOMAIN materials,
         NEW edit \in MaterialEdits, AskMaterialEdit(r, m, edit)
  PROVE  Inv'
<1>. PICK what : what = [phase |-> "stocking", id |-> m, edit |-> edit,
                         unit |-> materials[m].unit,
                         stock |-> materials[m].stock]
  OBVIOUS
<1>1. Become(r, what) /\ Edit
  BY DEF AskMaterialEdit
<1>2. /\ made' \in Counts
      /\ made'.bills = made.bills /\ made'.payments = made.payments
      /\ made.bills \in Nat /\ made.payments \in Nat
  BY <1>1, Counting, BillBound, PaymentBound DEF Inv, Counts
<1>3. what.phase = "stocking" /\ StockJobFits(what)'
  BY DEF StockJobFits, AskMaterialEdit, mayChangeUnit
<1>4. JobFits(job[r])'
  BY <1>1, <1>3, Becoming DEF JobFits
<1>5. /\ UNCHANGED <<vendors, materials, bills, payments, counted>>
      /\ overtaken' \in BOOLEAN
  BY DEF Inv, AskMaterialEdit
<1>6. made.bills <= made'.bills /\ made.payments <= made'.payments
  BY <1>2
<1>. QED
  BY <1>1, <1>2, <1>3, <1>4, <1>5, <1>6, GoingOn
-----------------------------------------------------------------------------
(* Writes. *)

\* Who is not at it keeps fitting, if what its transaction relies on stays.
LEMMA StillFits ==
  ASSUME Inv, NEW q \in Requests, job'[q] = job[q], made' = made,
         job[q].phase = "costing" => OpenFits(job[q])'
  PROVE  JobFits(job[q])'
<1>1. JobFits(job[q])
  BY DEF Inv
<1>. QED
  BY <1>1 DEF JobFits, BillJobFits, RowFits, PayJobFits, PaymentFits,
    StockJobFits

\* Without a bill, a payment of it is one on account.
Detached(ps, bs) ==
  /\ DOMAIN ps = DOMAIN payments
  /\ \A p \in DOMAIN payments :
       /\ DOMAIN ps[p] = DOMAIN payments[p]
       /\ ps[p].vendor = payments[p].vendor
       /\ ps[p].bill \in bs \cup {None}

\* What a transaction commits refers to rows it has kept locked.
LEMMA CommitStep ==
  ASSUME Inv, NEW r \in Requests, CommitBill(r)
  PROVE  Inv'
<1>1. /\ Become(r, Idle) /\ job[r].phase = "costing" /\ bills' = Seen(r)
      /\ UNCHANGED <<vendors, made, counted>>
  BY DEF CommitBill
<1>2. BillJobFits(job[r]) /\ OpenFits(job[r])
  BY <1>1 DEF Inv, JobFits
<1>3. /\ DOMAIN materials' = DOMAIN materials
      /\ \A m \in DOMAIN materials : DOMAIN materials'[m] = DOMAIN materials[m]
  <2>. DEFINE costs == job[r].costs
              bought == {m \in DOMAIN costs : costs[m] # {}}
  <2>1. PICK newest \in [bought -> {p.price : p \in UNION Range(costs)}] :
          materials' =
            [m \in DOMAIN materials |->
               [materials[m] EXCEPT
                  !.stock = @ + applyStockDeltas(r, m),
                  !.cost = IF m \in bought
                           THEN weightedAverageCost(costs[m]) ELSE @,
                  !.last = IF m \in bought THEN newest[m] ELSE @]]
    BY DEF CommitBill
  <2>. HIDE DEF costs, bought
  <2>2. DOMAIN materials' = DOMAIN materials
    BY <2>1
  <2>3. ASSUME NEW m \in DOMAIN materials
        PROVE  DOMAIN materials'[m] = DOMAIN materials[m]
    BY <2>1
  <2>. QED
    BY <2>2, <2>3
<1>4. MaterialsFit'
  BY <1>1, <1>3 DEF Inv, MaterialsFit
<1>5. BillsFit'
  <2>. SUFFICES ASSUME NEW b \in DOMAIN bills'
                PROVE  /\ b \in 1 .. made'.bills
                       /\ RowFits(bills'[b])
                       /\ vendors'[bills'[b].vendor] = "there"
                       /\ materialIdsOf(bills'[b].items) \subseteq DOMAIN materials'
    BY DEF BillsFit, assertMaterialsExist, RowFits, materialIdsOf
  <2>1. ASSUME b \in DOMAIN bills, bills'[b] = bills[b]
        PROVE  /\ b \in 1 .. made'.bills
               /\ RowFits(bills'[b])
               /\ vendors'[bills'[b].vendor] = "there"
               /\ materialIdsOf(bills'[b].items) \subseteq DOMAIN materials'
    BY <1>1, <1>3, <2>1 DEF Inv, BillsFit, assertMaterialsExist
  <2>2. CASE job[r].kind = "remove"
    BY <1>1, <2>1, <2>2 DEF Seen, Without
  <2>3. CASE job[r].kind # "remove" /\ job[r].replaces
    <3>1. bills' = With(bills, job[r].id, job[r].row)
      BY <1>1, <2>3 DEF Seen
    <3>2. b # job[r].id => b \in DOMAIN bills /\ bills'[b] = bills[b]
      BY <3>1 DEF With
    <3>3. b = job[r].id => bills'[b] = job[r].row
      BY <3>1 DEF With
    <3>4. /\ vendors'[job[r].row.vendor] = "there"
          /\ materialIdsOf(job[r].row.items) \subseteq DOMAIN materials'
      BY <1>1, <1>2, <1>3, <2>3 DEF OpenFits, affected
    <3>. QED
      BY <1>1, <1>2, <2>1, <3>2, <3>3, <3>4 DEF BillJobFits
  <2>4. CASE job[r].kind # "remove" /\ ~job[r].replaces
    <3>1. bills' = [bills EXCEPT ![job[r].id] =
                      [job[r].row EXCEPT !.items = bills[job[r].id].items]]
      BY <1>1, <2>4 DEF Seen
    <3>2. job[r].id \in DOMAIN bills /\ DOMAIN bills' = DOMAIN bills
      BY <1>2, <2>4, <3>1 DEF OpenFits, BillJobFits
    <3>3. b # job[r].id => bills'[b] = bills[b]
      BY <3>1, <3>2
    <3>4. b = job[r].id =>
            bills'[b] = [job[r].row EXCEPT !.items = bills[job[r].id].items]
      BY <3>1, <3>2
    <3>5. /\ RowFits(job[r].row) /\ RowFits(bills[job[r].id])
          /\ job[r].id \in 1 .. made.bills
          /\ materialIdsOf(bills[job[r].id].items) \subseteq DOMAIN materials
          /\ vendors[job[r].row.vendor] = "there"
      BY <1>2, <2>4, <3>2
        DEF BillJobFits, OpenFits, Inv, BillsFit, assertMaterialsExist
    <3>6. PICK row : row = [job[r].row EXCEPT !.items = bills[job[r].id].items]
      OBVIOUS
    <3>7. /\ RowFits(row) /\ row.vendor = job[r].row.vendor
          /\ row.items = bills[job[r].id].items
      BY <3>5, <3>6 DEF RowFits, BillFields
    <3>. QED
      BY <1>1, <1>3, <2>1, <3>2, <3>3, <3>4, <3>5, <3>6, <3>7
  <2>. QED
    BY <1>2, <2>2, <2>3, <2>4 DEF BillJobFits
<1>6. \A x \in DOMAIN bills :
        \/ job[r].kind = "remove" /\ x = job[r].id
        \/ x \in DOMAIN bills'
  BY <1>1, <1>2 DEF Seen, Without, With, BillJobFits
<1>7. Detached(payments', DOMAIN bills')
  <2>1. CASE job[r].kind = "remove"
    <3>1. payments' = [p \in DOMAIN payments |->
                         IF payments[p].bill = job[r].id
                         THEN [payments[p] EXCEPT !.bill = None]
                         ELSE payments[p]]
      BY <2>1 DEF CommitBill
    <3>2. \A p \in DOMAIN payments : DOMAIN payments[p] = PaymentFields
      BY DEF Inv, PaymentsFit, PaymentFits
    <3>3. \A p \in DOMAIN payments :
            payments[p].bill = job[r].id \/ payments[p].bill = None
              \/ payments[p].bill \in DOMAIN bills'
      BY <1>6 DEF Inv, PaymentsFit
    <3>. QED
      BY <3>1, <3>2, <3>3 DEF Detached, PaymentFields
  <2>2. CASE job[r].kind # "remove"
    BY <1>6, <2>2 DEF CommitBill, Detached, Inv, PaymentsFit
  <2>. QED
    BY <2>1, <2>2
<1>8. PaymentsFit'
  BY <1>1, <1>7 DEF Inv, PaymentsFit, Detached, PaymentFits
<1>9. /\ job' = [q \in Requests |-> job'[q]]
      /\ job'[r] = Idle
      /\ \A q \in Requests \ {r} : job'[q] = job[q]
  BY <1>1, Becoming
<1>10. \A q \in Requests : JobFits(job[q])'
  <2>1. JobFits(job[r])'
    BY <1>9 DEF Idle, JobFits
  <2>2. ASSUME NEW q \in Requests \ {r}
        PROVE  JobFits(job[q])'
    <3>1. ASSUME job[q].phase = "costing" PROVE OpenFits(job[q])'
      <4>1. OpenFits(job[q]) /\ job[q].id # job[r].id
        BY <1>1, <3>1 DEF Inv, JobFits, Distinct
      <4>2. job'[q] = job[q]
        BY <1>9
      <4>. QED
        BY <1>1, <1>3, <1>6, <4>1, <4>2 DEF OpenFits, affected, materialIdsOf
    <3>. QED
      BY <1>1, <1>9, <3>1, StillFits
  <2>. QED
    BY <2>1, <2>2
<1>11. Distinct' /\ overtaken' \in BOOLEAN
  <2>1. Idle.phase = "idle"
    BY DEF Idle
  <2>2. Distinct'
    BY <1>9, <2>1 DEF Inv, Distinct
  <2>3. overtaken' = (overtaken \/ OutOfDate(r))
    BY DEF CommitBill
  <2>. QED
    BY <2>2, <2>3 DEF Inv
<1>. QED
  BY <1>1, <1>4, <1>5, <1>8, <1>9, <1>10, <1>11 DEF Inv
\* The vendor and the bill a payment names are there when it is written.
LEMMA WritePaymentStep ==
  ASSUME Inv, NEW r \in Requests, WritePayment(r)
  PROVE  Inv'
<1>1. /\ Become(r, Idle) /\ job[r].phase = "paying"
      /\ UNCHANGED <<vendors, materials, bills, made, counted>>
      /\ payments' = With(payments, job[r].id, job[r].row)
      /\ vendors[job[r].row.vendor] = "there"
      /\ job[r].row.bill \in DOMAIN bills \cup {None}
  BY DEF WritePayment, assertVendorExists
<1>2. PayJobFits(job[r])
  BY <1>1 DEF Inv, JobFits
<1>3. /\ job' = [q \in Requests |-> job'[q]]
      /\ job'[r] = Idle
      /\ \A q \in Requests \ {r} : job'[q] = job[q]
  BY <1>1, Becoming
<1>4. MaterialsFit' /\ BillsFit'
  BY <1>1 DEF Inv, MaterialsFit, BillsFit, RowFits, assertMaterialsExist,
    materialIdsOf
<1>5. PaymentsFit'
  BY <1>1, <1>2 DEF Inv, PaymentsFit, PaymentFits, PayJobFits, With
<1>6. ASSUME NEW q \in Requests PROVE JobFits(job[q])'
  <2>1. CASE q = r
    BY <1>3, <2>1 DEF Idle, JobFits
  <2>2. CASE q # r
    <3>1. job[q].phase = "costing" => OpenFits(job[q])
      BY DEF Inv, JobFits
    <3>2. job[q].phase = "costing" => OpenFits(job[q])'
      BY <1>1, <1>3, <2>2, <3>1 DEF OpenFits, affected, materialIdsOf
    <3>. QED
      BY <1>1, <1>3, <2>2, <3>2, StillFits
  <2>. QED
    BY <2>1, <2>2
<1>7. Distinct'
  BY <1>3 DEF Inv, Distinct, Idle
<1>8. overtaken' \in BOOLEAN
  <2>1. overtaken' = (overtaken \/ Reading(job[r].row.bill, job[r].id)
                                     # job[r].seen)
    BY DEF WritePayment
  <2>. QED
    BY <2>1 DEF Inv
<1>. QED
  BY <1>1, <1>3, <1>4, <1>5, <1>6, <1>7, <1>8 DEF Inv

\* The fields written are some of those there were.
LEMMA WriteMaterialStep ==
  ASSUME Inv, NEW r \in Requests, WriteMaterial(r)
  PROVE  Inv'
<1>1. /\ Become(r, Idle) /\ job[r].phase = "stocking"
      /\ UNCHANGED <<vendors, payments, bills, made>>
      /\ materials' = [materials EXCEPT ![job[r].id] =
                         mergedInto(job[r].edit, materials[job[r].id])]
      /\ job[r].id \in DOMAIN materials
      /\ DOMAIN counted' = DOMAIN counted
  BY DEF WriteMaterial
<1>2. /\ job' = [q \in Requests |-> job'[q]]
      /\ job'[r] = Idle
      /\ \A q \in Requests \ {r} : job'[q] = job[q]
  BY <1>1, Becoming
<1>3. DOMAIN materials' = DOMAIN materials /\ MaterialsFit'
  BY <1>1 DEF Inv, MaterialsFit, mergedInto
<1>4. BillsFit' /\ PaymentsFit'
  BY <1>1, <1>3 DEF Inv, PaymentsFit, PaymentFits, BillsFit, RowFits,
    assertMaterialsExist, materialIdsOf
<1>5. ASSUME NEW q \in Requests PROVE JobFits(job[q])'
  <2>1. CASE q = r
    BY <1>2, <2>1 DEF Idle, JobFits
  <2>2. CASE q # r
    <3>1. job[q].phase = "costing" => OpenFits(job[q])
      BY DEF Inv, JobFits
    <3>2. job[q].phase = "costing" => OpenFits(job[q])'
      BY <1>1, <1>2, <1>3, <2>2, <3>1 DEF OpenFits, affected, materialIdsOf
    <3>. QED
      BY <1>1, <1>2, <2>2, <3>2, StillFits
  <2>. QED
    BY <2>1, <2>2
<1>6. Distinct'
  BY <1>2 DEF Inv, Distinct, Idle
<1>7. overtaken' \in BOOLEAN
  <2>1. overtaken' = (overtaken \/ ("unit" \in DOMAIN job[r].edit
          /\ (materials[job[r].id].unit # job[r].unit
               \/ materials[job[r].id].stock # job[r].stock)))
    BY DEF WriteMaterial
  <2>. QED
    BY <2>1 DEF Inv
<1>. QED
  BY <1>1, <1>2, <1>3, <1>4, <1>5, <1>6, <1>7 DEF Inv

\* Single statements leave every request as it was.
LEMMA StatementStep ==
  ASSUME Inv, UNCHANGED <<job, overtaken>>,
         vendors' \in [Vendors -> {"unborn", "there", "gone"}],
         made' \in Counts,
         made'.bills = made.bills /\ made'.payments = made.payments,
         MaterialsFit', BillsFit', PaymentsFit',
         \A q \in Open :
           /\ job[q].kind # "create" => job[q].id \in DOMAIN bills'
           /\ job[q].kind # "remove" => vendors'[job[q].row.vendor] = "there"
           /\ DOMAIN materials \cap DOMAIN job[q].costs \subseteq DOMAIN materials'
  PROVE  Inv'
<1>1. ASSUME NEW q \in Requests PROVE JobFits(job[q])'
  <2>1. JobFits(job[q])
    BY DEF Inv
  <2>2. job[q].phase = "costing" => OpenFits(job[q])'
    BY <2>1 DEF JobFits, OpenFits, affected, materialIdsOf, Open
  <2>. QED
    BY <2>1, <2>2 DEF JobFits, BillJobFits, RowFits, PayJobFits, PaymentFits,
      StockJobFits
<1>2. Distinct'
  BY DEF Inv, Distinct
<1>. QED
  BY <1>1, <1>2 DEF Inv

\* With one payment fewer nothing refers to a row that is not there.
LEMMA RemovePaymentStep ==
  ASSUME Inv, NEW id \in DOMAIN payments, RemovePayment(id)
  PROVE  Inv'
<1>1. /\ UNCHANGED <<vendors, materials, bills, job, counted, overtaken>>
      /\ payments' = Without(payments, id) /\ Edit
  BY DEF RemovePayment
<1>2. MaterialsFit' /\ BillsFit'
  BY <1>1, Counting DEF Inv, MaterialsFit, BillsFit, RowFits,
    assertMaterialsExist, materialIdsOf
<1>3. PaymentsFit'
  BY <1>1, Counting DEF Inv, PaymentsFit, PaymentFits, Without
<1>4. \A q \in Open : OpenFits(job[q])
  BY DEF Open, Inv, JobFits
<1>. QED
  BY <1>1, <1>2, <1>3, <1>4, Counting, StatementStep DEF Inv, OpenFits

\* A new material is referred to by nothing.
LEMMA CreateMaterialStep ==
  ASSUME Inv, NEW m \in Materials, CreateMaterial(m)
  PROVE  Inv'
<1>1. /\ UNCHANGED <<vendors, bills, payments, made, job, overtaken>>
      /\ materials' = With(materials, m, Opening)
      /\ counted' = With(counted, m, Opening.stock)
  BY DEF CreateMaterial
<1>2. DOMAIN materials \subseteq DOMAIN materials' /\ MaterialsFit'
  BY <1>1, OpeningAssumption DEF Inv, MaterialsFit, With, Fields
<1>3. BillsFit' /\ PaymentsFit'
  BY <1>1, <1>2 DEF Inv, BillsFit, RowFits, assertMaterialsExist,
    materialIdsOf, PaymentsFit, PaymentFits
<1>4. \A q \in Open : OpenFits(job[q])
  BY DEF Open, Inv, JobFits
<1>. QED
  BY <1>1, <1>2, <1>3, <1>4, StatementStep DEF Inv, OpenFits

\* Neither a bill nor a transaction names the material.
LEMMA RemoveMaterialStep ==
  ASSUME Inv, NEW m \in Materials, RemoveMaterial(m)
  PROVE  Inv'
<1>1. /\ UNCHANGED <<vendors, bills, payments, job, counted, overtaken>>
      /\ materials' = Without(materials, m) /\ Edit
      /\ HistoryIn(bills, m) = {}
      /\ \A q \in Open : m \notin DOMAIN job[q].costs
  BY DEF RemoveMaterial, Locked
<1>2. MaterialsFit' /\ DOMAIN materials' = DOMAIN materials \ {m}
  BY <1>1 DEF Inv, MaterialsFit, Without
<1>3. \A b \in DOMAIN bills : m \notin materialIdsOf(bills[b].items)
  <2>. SUFFICES ASSUME NEW b \in DOMAIN bills, NEW i \in DOMAIN bills[b].items,
                       bills[b].items[i].material = m
                PROVE  FALSE
    BY DEF materialIdsOf
  <2>. DEFINE place == {j \in DOMAIN bills[b].items :
                          bills[b].items[j].material = m}
              line == [bill |-> b, place |-> i, date |-> bills[b].date,
                       quantity |-> bills[b].items[i].quantity,
                       price |-> bills[b].items[i].price]
  <2>1. line \in {[bill |-> b, place |-> k, date |-> bills[b].date,
                   quantity |-> bills[b].items[k].quantity,
                   price |-> bills[b].items[k].price] : k \in place}
    OBVIOUS
  <2>2. line \in HistoryIn(bills, m)
    BY <2>1, Zenon DEF HistoryIn
  <2>. HIDE DEF line, place
  <2>. QED
    BY <1>1, <2>2
<1>4. BillsFit'
  BY <1>1, <1>2, <1>3, Counting DEF Inv, BillsFit, RowFits,
    assertMaterialsExist, materialIdsOf
<1>5. PaymentsFit'
  BY <1>1, Counting DEF Inv, PaymentsFit, PaymentFits
<1>6. \A q \in Open : OpenFits(job[q])
  BY DEF Open, Inv, JobFits
<1>. QED
  BY <1>1, <1>2, <1>4, <1>5, <1>6, Counting, StatementStep DEF Inv, OpenFits

\* So is a new vendor.
LEMMA CreateVendorStep ==
  ASSUME Inv, NEW v \in Vendors, CreateVendor(v)
  PROVE  Inv'
<1>1. /\ UNCHANGED <<materials, bills, payments, made, job, counted, overtaken>>
      /\ vendors' = [vendors EXCEPT ![v] = "there"]
  BY DEF CreateVendor
<1>2. /\ vendors' \in [Vendors -> {"unborn", "there", "gone"}]
      /\ \A w \in Vendors : vendors[w] = "there" => vendors'[w] = "there"
  BY <1>1 DEF Inv
<1>3. MaterialsFit'
  BY <1>1 DEF Inv, MaterialsFit
<1>4. BillsFit'
  BY <1>1, <1>2 DEF Inv, BillsFit, RowFits, assertMaterialsExist, materialIdsOf
<1>5. PaymentsFit'
  BY <1>1, <1>2 DEF Inv, PaymentsFit, PaymentFits
<1>6. \A q \in Open : OpenFits(job[q]) /\ job[q].row.vendor \in Vendors
  BY DEF Open, Inv, JobFits, BillJobFits, RowFits
<1>. QED
  BY <1>1, <1>2, <1>3, <1>4, <1>5, <1>6, StatementStep DEF Inv, OpenFits

\* Neither a bill, a payment nor a transaction names the vendor.
LEMMA RemoveVendorStep ==
  ASSUME Inv, NEW v \in Vendors, RemoveVendor(v)
  PROVE  Inv'
<1>1. /\ UNCHANGED <<materials, bills, payments, job, counted, overtaken>>
      /\ vendors' = [vendors EXCEPT ![v] = "gone"] /\ Edit
      /\ \A b \in DOMAIN bills : bills[b].vendor # v
      /\ \A p \in DOMAIN payments : payments[p].vendor # v
      /\ \A q \in Open : job[q].row.vendor # v
  BY DEF RemoveVendor, BillsOf, PaymentsTo
<1>2. /\ vendors' \in [Vendors -> {"unborn", "there", "gone"}]
      /\ \A w \in Vendors \ {v} : vendors'[w] = vendors[w]
  BY <1>1 DEF Inv
<1>3. MaterialsFit'
  BY <1>1 DEF Inv, MaterialsFit
<1>4. BillsFit'
  BY <1>1, <1>2, Counting
    DEF Inv, BillsFit, RowFits, assertMaterialsExist, materialIdsOf
<1>5. PaymentsFit'
  BY <1>1, <1>2, Counting DEF Inv, PaymentsFit, PaymentFits
<1>6. \A q \in Open : OpenFits(job[q]) /\ job[q].row.vendor \in Vendors
  BY DEF Open, Inv, JobFits, BillJobFits, RowFits
<1>. QED
  BY <1>1, <1>2, <1>3, <1>4, <1>5, <1>6, Counting, StatementStep
    DEF Inv, OpenFits
-----------------------------------------------------------------------------

\* Every step of purchasing preserves the invariant.
LEMMA NextInv == Inv /\ [Next]_vars => Inv'
<1>. SUFFICES ASSUME Inv, [Next]_vars PROVE Inv'
  OBVIOUS
<1>1. CASE UNCHANGED vars
  BY <1>1 DEF vars, Inv, MaterialsFit, BillsFit, RowFits, assertMaterialsExist,
    materialIdsOf, PaymentsFit, PaymentFits, JobFits, BillJobFits, OpenFits,
    PayJobFits, StockJobFits, affected, Distinct
<1>2. ASSUME NEW r \in Requests, Ask(r) PROVE Inv'
  BY <1>2, AskCreateStep, AskUpdateStep, AskRemoveStep, AskPaymentStep,
    AskPaymentEditStep, AskMaterialStep DEF Ask
<1>3. ASSUME NEW r \in Requests, Handler(r) PROVE Inv'
  BY <1>3, OpenStep, CostingStep, CommitStep, WritePaymentStep,
    WriteMaterialStep, FailStep DEF Handler
<1>. QED
  BY <1>1, <1>2, <1>3, RemovePaymentStep, CreateMaterialStep,
    RemoveMaterialStep, CreateVendorStep, RemoveVendorStep DEF Next

\* The invariant holds in every behaviour.
LEMMA InvHolds == Spec => []Inv
<1>. QED
  BY InitInv, NextInv, PTL DEF Spec

\* Every reference is to a row that is there, through every interleaving of
\* edits, deletions and transactions: a bill's vendor and materials, a payment's
\* vendor and bill.
THEOREM TypeCorrect == Spec => []TypeOK
<1>. QED
  BY InvHolds, InvGivesTypeOK, PTL

Untouched ==
  UNCHANGED <<vendors, materials, bills, payments, counted, byHand, repriced,
              overtaken>>

\* Asking changes no rows.
LEMMA AskChangesNothing ==
  ASSUME NEW r \in Requests, Ask(r)
  PROVE  Untouched
<1>1. ASSUME NEW paper \in Papers, AskCreateBill(r, paper)
      PROVE  Untouched
  BY <1>1 DEF AskCreateBill, Untouched
<1>2. ASSUME NEW id \in DOMAIN bills, NEW paper \in Papers,
             NEW given \in BillEdits, AskUpdateBill(r, id, paper, given)
      PROVE  Untouched
  BY <1>2 DEF AskUpdateBill, Untouched
<1>3. ASSUME NEW id \in DOMAIN bills, AskRemoveBill(r, id)
      PROVE  Untouched
  BY <1>3 DEF AskRemoveBill, Untouched
<1>4. ASSUME NEW payment \in Payments, NEW bill \in DOMAIN bills \cup {None},
             AskPayment(r, payment, bill)
      PROVE  Untouched
  BY <1>4 DEF AskPayment, Untouched
<1>5. ASSUME NEW id \in DOMAIN payments, NEW payment \in Payments,
             NEW bill \in DOMAIN bills \cup {None}, NEW given \in PaymentEdits,
             AskPaymentEdit(r, id, payment, bill, given)
      PROVE  Untouched
  BY <1>5 DEF AskPaymentEdit, Untouched
<1>6. ASSUME NEW m \in DOMAIN materials, NEW edit \in MaterialEdits,
             AskMaterialEdit(r, m, edit)
      PROVE  Untouched
  BY <1>6 DEF AskMaterialEdit, Untouched
<1>. QED
  BY <1>1, <1>2, <1>3, <1>4, <1>5, <1>6 DEF Ask

\* A bill goes only by its own deletion, and unless that was overtaken, only while
\* there is no payment of it.
LEMMA PaidStep ==
  ASSUME Inv, [Next]_vars, ~overtaken', NEW b \in DOMAIN bills,
         b \notin DOMAIN bills'
  PROVE  PaymentsOn(payments, b) = {}
<1>1. PICK r \in Requests : CommitBill(r)
  <2>1. ASSUME NEW r \in Requests, Ask(r) PROVE bills' = bills
    BY <2>1, AskChangesNothing DEF Untouched
  <2>2. ASSUME NEW r \in Requests, Handler(r), ~CommitBill(r)
        PROVE  bills' = bills
    BY <2>2 DEF Handler, OpenBill, ReadHistory, WriteCost, WritePayment,
      WriteMaterial, Fail
  <2>3. ASSUME \/ \E id \in DOMAIN payments : RemovePayment(id)
               \/ \E m \in Materials : CreateMaterial(m) \/ RemoveMaterial(m)
               \/ \E v \in Vendors : CreateVendor(v) \/ RemoveVendor(v)
        PROVE  bills' = bills
    BY <2>3 DEF RemovePayment, CreateMaterial, RemoveMaterial, CreateVendor,
      RemoveVendor
  <2>. QED
    BY <2>1, <2>2, <2>3 DEF Next, vars
<1>2. /\ bills' = Seen(r) /\ job[r].phase = "costing"
      /\ overtaken' = (overtaken \/ OutOfDate(r))
  BY <1>1 DEF CommitBill
<1>3. BillJobFits(job[r])
  BY <1>2 DEF Inv, JobFits
<1>4. job[r].kind = "remove" /\ b = job[r].id
  BY <1>2, <1>3 DEF Seen, With, Without, BillJobFits
<1>5. PaymentsOn(payments, b) = job[r].paid
  BY <1>2, <1>4 DEF OutOfDate
<1>. QED
  BY <1>3, <1>4, <1>5 DEF BillJobFits

\* "Refused once payments exist", for any number of requests in flight: until one
\* acted on what was no longer so, no bill goes from under its payments.
THEOREM PaidBillsStay == Spec => PaidBillStays
<1>1. Inv /\ [Next]_vars =>
        [~overtaken' => \A b \in DOMAIN bills \ DOMAIN bills' :
                          PaymentsOn(payments, b) = {}]_vars
  BY PaidStep
<1>. QED
  BY <1>1, InvHolds, PTL DEF Spec, PaidBillStays

\* Only an edit that names the unit changes it, and unless that was overtaken, it
\* had found nothing in stock.
LEMMA UnitStep ==
  ASSUME Inv, [Next]_vars, ~overtaken',
         NEW m \in DOMAIN materials \cap DOMAIN materials',
         materials'[m].unit # materials[m].unit
  PROVE  materials[m].stock = 0
<1>1. ASSUME NEW r \in Requests, CommitBill(r)
      PROVE  materials'[m].unit = materials[m].unit
  <2>. DEFINE costs == job[r].costs
              bought == {n \in DOMAIN costs : costs[n] # {}}
  <2>1. PICK newest \in [bought -> {p.price : p \in UNION Range(costs)}] :
          materials' =
            [n \in DOMAIN materials |->
               [materials[n] EXCEPT
                  !.stock = @ + applyStockDeltas(r, n),
                  !.cost = IF n \in bought
                           THEN weightedAverageCost(costs[n]) ELSE @,
                  !.last = IF n \in bought THEN newest[n] ELSE @]]
    BY <1>1 DEF CommitBill
  <2>. HIDE DEF costs, bought
  <2>2. "unit" \in DOMAIN materials[m]
    BY DEF Inv, MaterialsFit, Fields
  <2>. QED
    BY <2>1, <2>2
<1>2. ASSUME NEW n \in Materials, CreateMaterial(n)
      PROVE  materials'[m].unit = materials[m].unit
  BY <1>2 DEF CreateMaterial, With, Inv, MaterialsFit
<1>3. ASSUME NEW n \in Materials, RemoveMaterial(n)
      PROVE  materials'[m].unit = materials[m].unit
  BY <1>3 DEF RemoveMaterial, Without
<1>4. PICK r \in Requests : WriteMaterial(r)
  <2>1. ASSUME NEW r \in Requests, Ask(r) PROVE materials' = materials
    BY <2>1, AskChangesNothing DEF Untouched
  <2>2. ASSUME NEW r \in Requests, Handler(r), ~CommitBill(r), ~WriteMaterial(r)
        PROVE  materials' = materials
    BY <2>2 DEF Handler, OpenBill, ReadHistory, WriteCost, WritePayment, Fail
  <2>3. ASSUME \/ \E id \in DOMAIN payments : RemovePayment(id)
               \/ \E v \in Vendors : CreateVendor(v) \/ RemoveVendor(v)
        PROVE  materials' = materials
    BY <2>3 DEF RemovePayment, CreateVendor, RemoveVendor
  <2>. QED
    BY <1>1, <1>2, <1>3, <2>1, <2>2, <2>3 DEF Next, vars
<1>5. /\ materials' = [materials EXCEPT ![job[r].id] =
                         mergedInto(job[r].edit, materials[job[r].id])]
      /\ job[r].phase = "stocking"
      /\ ~("unit" \in DOMAIN job[r].edit
             /\ (materials[job[r].id].unit # job[r].unit
                  \/ materials[job[r].id].stock # job[r].stock))
  BY <1>4 DEF WriteMaterial
<1>6. StockJobFits(job[r])
  BY <1>5 DEF Inv, JobFits
<1>7. m = job[r].id
  BY <1>5
<1>8. "unit" \in DOMAIN materials[m]
  BY DEF Inv, MaterialsFit, Fields
<1>9. "unit" \in DOMAIN job[r].edit /\ job[r].edit.unit # materials[m].unit
  BY <1>5, <1>7, <1>8 DEF mergedInto
<1>. QED
  BY <1>5, <1>6, <1>7, <1>9 DEF StockJobFits

\* "5000 recorded as GRAM is not 5000 KILOGRAM", for any edits and bills at once:
\* what is in stock keeps its unit, until the material changed under an edit.
THEOREM UnitsKeepStock == Spec => UnitKeepsStock
<1>1. Inv /\ [Next]_vars =>
        [~overtaken' => \A m \in DOMAIN materials \cap DOMAIN materials' :
                          materials'[m].unit # materials[m].unit =>
                            materials[m].stock = 0]_vars
  BY UnitStep
<1>. QED
  BY <1>1, InvHolds, PTL DEF Spec, UnitKeepsStock

-----------------------------------------------------------------------------
(* The books: what was keyed in are figures, and what is computed of them is *)
(* a sum over the lines of the bills.                                        *)

\* Forms are filled in with figures.
LEMMA ItemsAre ==
  ASSUME NEW items \in Items
  PROVE  /\ IsFiniteSet(DOMAIN items)
         /\ \A i \in DOMAIN items :
              /\ items[i].quantity \in Nat /\ items[i].price \in Nat
              /\ items[i].material \in Materials
<1>1. items \in Seq(PurchaseLine)
  <2>1. <<>> \in Seq(PurchaseLine)
    OBVIOUS
  <2>2. PICK paper \in Papers : items \in {paper.items, <<>>}
    BY DEF Items
  <2>. QED
    BY <2>1, <2>2, PapersAssumption
<1>2. Len(items) \in Nat /\ DOMAIN items = 1 .. Len(items)
  BY <1>1
<1>3. IsFiniteSet(DOMAIN items)
  BY <1>2, FS_Interval
<1>4. \A i \in DOMAIN items : items[i] \in PurchaseLine
  BY <1>1, <1>2
<1>. QED
  BY <1>3, <1>4 DEF PurchaseLine

\* What a bill brings of a material is a whole number, zero if it has no line
\* of it.
LEMMA QuantityIs ==
  ASSUME NEW items \in Items, NEW m
  PROVE  /\ QuantityOf(items, m) \in Nat
         /\ m \notin materialIdsOf(items) => QuantityOf(items, m) = 0
         /\ items = <<>> => QuantityOf(items, m) = 0
<1>. DEFINE places == {i \in DOMAIN items : items[i].material = m}
            q == [i \in places |-> items[i].quantity]
<1>1. IsFiniteSet(places) /\ \A i \in places : q[i] \in Nat
  BY ItemsAre, FS_Subset
<1>2. QuantityOf(items, m) = SumFunctionOnSet(q, places)
  BY DEF QuantityOf, Over, SumFunction
<1>3. m \notin materialIdsOf(items) \/ items = <<>> => places = {}
  BY DEF materialIdsOf
<1>. HIDE DEF places, q
<1>. QED
  BY <1>1, <1>2, <1>3, SumCovers, SumOfNone

\* Bills whose lines were keyed in.
ViewFits(view) ==
  IsFiniteSet(DOMAIN view) /\ \A b \in DOMAIN view : view[b].items \in Items

BoughtIn(view, m) == Over(HistoryIn(view, m), LAMBDA l : l.quantity)

\* A history is a finite set of lines, and there is one where a bill names the
\* material.
LEMMA HistoryIs ==
  ASSUME NEW view, ViewFits(view), NEW m
  PROVE  /\ IsFiniteSet(HistoryIn(view, m))
         /\ \A l \in HistoryIn(view, m) : l.quantity \in Nat /\ l.price \in Nat
         /\ HistoryIn(view, m) = {} <=>
              \A b \in DOMAIN view : m \notin materialIdsOf(view[b].items)
         /\ BoughtIn(view, m)
              = SumFunctionOnSet([b \in DOMAIN view |-> QuantityOf(view[b].items, m)],
                                 DOMAIN view)
<1>. DEFINE places(b) == {j \in DOMAIN view[b].items :
                            view[b].items[j].material = m}
            entry(b, i) == [bill |-> b, place |-> i, date |-> view[b].date,
                            quantity |-> view[b].items[i].quantity,
                            price |-> view[b].items[i].price]
            Part(b) == {entry(b, i) : i \in places(b)}
            part == [b \in DOMAIN view |-> Part(b)]
            All == HistoryIn(view, m)
            f == [l \in All |-> l.quantity]
            g == [b \in DOMAIN view |-> QuantityOf(view[b].items, m)]
<1>1. All = UNION {Part(b) : b \in DOMAIN view}
  BY DEF HistoryIn
<1>2. \A x : x \in All <=> \E b \in DOMAIN view : x \in part[b]
  <2>. HIDE DEF Part, All
  <2>. QED
    BY <1>1
<1>3. ASSUME NEW b \in DOMAIN view
      PROVE  /\ \A l \in part[b] : l.bill = b /\ l \in All
             /\ \A l \in part[b] : l.quantity \in Nat /\ l.price \in Nat
             /\ part[b] = {} <=> m \notin materialIdsOf(view[b].items)
             /\ IsFiniteSet(part[b])
             /\ g[b] = SumFunctionOnSet(f, part[b])
  <2>. DEFINE S == places(b)
              e == [i \in S |-> entry(b, i)]
              h == [i \in S |-> view[b].items[i].quantity]
  <2>1. view[b].items \in Items
    BY DEF ViewFits
  <2>2. IsFiniteSet(S)
    BY <2>1, ItemsAre, FS_Subset
  <2>3. \A i \in S : view[b].items[i].quantity \in Nat
                     /\ view[b].items[i].price \in Nat
    BY <2>1, ItemsAre
  <2>4. \A i \in S : e[i] \in Part(b) /\ e[i].place = i /\ h[i] = e[i].quantity
    OBVIOUS
  <2>5. \A l \in Part(b) : \E i \in S : l = e[i]
    OBVIOUS
  <2>6. \A i \in S : e[i].quantity \in Nat /\ e[i].price \in Nat /\ e[i].bill = b
    BY <2>3
  <2>7. S = {} <=> m \notin materialIdsOf(view[b].items)
    BY DEF materialIdsOf
  <2>8. g[b] = SumFunctionOnSet(h, S)
    BY DEF QuantityOf, Over, SumFunction
  <2>9. part[b] = Part(b) /\ Part(b) \subseteq All
    <3>. HIDE DEF Part, All
    <3>. QED
      BY <1>2
  <2>. HIDE DEF S, e, h, Part, part, All, g
  <2>10. \A i \in S : f[e[i]] = e[i].quantity
    BY <2>4, <2>9
  <2>. HIDE DEF f
  <2>11. Part(b) = {e[i] : i \in S}
    BY <2>4, <2>5
  <2>12. SumFunctionOnSet(f, {e[i] : i \in S}) = SumFunctionOnSet(h, S)
    <3>1. \A i, j \in S : e[i] = e[j] => i = j
      BY <2>4
    <3>2. \A i \in S : f[e[i]] \in Int /\ h[i] = f[e[i]]
      BY <2>4, <2>6, <2>10
    <3>. QED
      BY <2>2, <3>1, <3>2, SumImage
  <2>13. IsFiniteSet({e[i] : i \in S})
    BY <2>2, ImageIsFinite
  <2>14. Part(b) = {} <=> S = {}
    BY <2>4, <2>5
  <2>15. \A l \in Part(b) : l.bill = b /\ l.quantity \in Nat /\ l.price \in Nat
    BY <2>5, <2>6
  <2>. QED
    BY <2>7, <2>8, <2>9, <2>11, <2>12, <2>13, <2>14, <2>15
<1>. HIDE DEF places, entry, Part, part, All, g, f
<1>4. \A b \in DOMAIN view : \A x \in part[b] : f[x] \in Int
  BY <1>3 DEF f
<1>5. \A b, c \in DOMAIN view : b # c => part[b] \cap part[c] = {}
  BY <1>3
<1>6. \A l \in All : l.quantity \in Nat /\ l.price \in Nat
  BY <1>2, <1>3
<1>7. All = {} <=> \A b \in DOMAIN view : m \notin materialIdsOf(view[b].items)
  BY <1>2, <1>3
<1>8. BoughtIn(view, m) = SumFunctionOnSet(f, All)
  BY DEF BoughtIn, Over, SumFunction, All, f
<1>9. IsFiniteSet(DOMAIN view)
  BY DEF ViewFits
<1>10. /\ \A b \in DOMAIN view : IsFiniteSet(part[b])
       /\ \A b \in DOMAIN view : g[b] = SumFunctionOnSet(f, part[b])
  BY <1>3
<1>11. IsFiniteSet(All) /\ SumFunctionOnSet(f, All) = SumFunctionOnSet(g, DOMAIN view)
  <2>. DEFINE K == DOMAIN view
  <2>1. /\ IsFiniteSet(K) /\ \A k \in K : IsFiniteSet(part[k])
        /\ \A k, j \in K : k # j => part[k] \cap part[j] = {}
        /\ \A k \in K : \A x \in part[k] : f[x] \in Int
        /\ \A k \in K : g[k] = SumFunctionOnSet(f, part[k])
        /\ \A x : x \in All <=> \E k \in K : x \in part[k]
    BY <1>2, <1>4, <1>5, <1>9, <1>10
  <2>. HIDE DEF K
  <2>2. IsFiniteSet(All) /\ SumFunctionOnSet(f, All) = SumFunctionOnSet(g, K)
    BY <2>1, SumUnion, SMTT(60)
  <2>. QED
    BY <2>2 DEF K
<1>. QED
  <2>1. /\ IsFiniteSet(HistoryIn(view, m))
        /\ \A l \in HistoryIn(view, m) : l.quantity \in Nat /\ l.price \in Nat
    BY <1>6, <1>11 DEF All
  <2>2. HistoryIn(view, m) = {} <=>
          \A b \in DOMAIN view : m \notin materialIdsOf(view[b].items)
    BY <1>7 DEF All
  <2>3. BoughtIn(view, m) = SumFunctionOnSet(g, DOMAIN view)
    BY <1>8, <1>11
  <2>. QED
    BY <2>1, <2>2, <2>3, Zenon DEF g

\* What one bill brings; nothing, if it is not there.
FromBill(view, b, m) ==
  IF b \in DOMAIN view THEN QuantityOf(view[b].items, m) ELSE 0

\* Where one bill is written, what was bought changes by what that bill brings.
LEMMA BoughtChange ==
  ASSUME NEW v, ViewFits(v), NEW w, ViewFits(w), NEW b,
         DOMAIN w \ {b} = DOMAIN v \ {b},
         \A c \in DOMAIN v \ {b} : w[c].items = v[c].items,
         NEW m
  PROVE  /\ BoughtIn(v, m) \in Int /\ BoughtIn(w, m) \in Int
         /\ FromBill(v, b, m) \in Int /\ FromBill(w, b, m) \in Int
         /\ BoughtIn(w, m) - FromBill(w, b, m) = BoughtIn(v, m) - FromBill(v, b, m)
<1>. DEFINE q(x) == [c \in DOMAIN x |-> QuantityOf(x[c].items, m)]
            Rest == DOMAIN v \ {b}
<1>1. ASSUME NEW x, ViewFits(x), DOMAIN x \ {b} = Rest
      PROVE  /\ BoughtIn(x, m) \in Int /\ FromBill(x, b, m) \in Int
             /\ SumFunctionOnSet(q(x), Rest) \in Int
             /\ IsFiniteSet(Rest)
             /\ \A c \in DOMAIN x : q(x)[c] \in Int
             /\ BoughtIn(x, m) = SumFunctionOnSet(q(x), Rest) + FromBill(x, b, m)
  <2>1. IsFiniteSet(DOMAIN x)
    BY <1>1 DEF ViewFits
  <2>2. \A c \in DOMAIN x : q(x)[c] \in Int
    BY <1>1, QuantityIs DEF ViewFits
  <2>3. BoughtIn(x, m) = SumFunctionOnSet(q(x), DOMAIN x)
    BY <1>1, HistoryIs
  <2>4. IsFiniteSet(Rest) /\ Rest \subseteq DOMAIN x
    BY <1>1, <2>1, FS_Subset
  <2>5. b \in DOMAIN x => FromBill(x, b, m) = q(x)[b]
    BY DEF FromBill
  <2>6. b \notin DOMAIN x => FromBill(x, b, m) = 0 /\ Rest = DOMAIN x
    BY <1>1 DEF FromBill
  <2>. HIDE DEF q, Rest
  <2>7. SumFunctionOnSet(q(x), Rest) \in Int
    BY <2>2, <2>4, SumIsInt
  <2>8. CASE b \in DOMAIN x
    <3>1. SumFunctionOnSet(q(x), DOMAIN x)
            = SumFunctionOnSet(q(x), DOMAIN x \ {b}) + q(x)[b]
      BY <2>1, <2>2, <2>8, SumRemove
    <3>2. SumFunctionOnSet(q(x), DOMAIN x \ {b}) = SumFunctionOnSet(q(x), Rest)
      BY <1>1
    <3>3. q(x)[b] \in Int /\ FromBill(x, b, m) = q(x)[b]
      BY <2>2, <2>5, <2>8
    <3>4. BoughtIn(x, m) = SumFunctionOnSet(q(x), Rest) + FromBill(x, b, m)
      BY <2>3, <3>1, <3>2, <3>3
    <3>5. BoughtIn(x, m) \in Int
      BY <2>7, <3>3, <3>4
    <3>. QED
      BY <2>2, <2>4, <2>7, <3>3, <3>4, <3>5
  <2>9. CASE b \notin DOMAIN x
    BY <2>2, <2>3, <2>4, <2>6, <2>7, <2>9
  <2>. QED
    BY <2>8, <2>9
<1>2. \A c \in Rest : q(w)[c] = q(v)[c]
  OBVIOUS
<1>3. Rest \subseteq DOMAIN v /\ DOMAIN w \ {b} = Rest /\ DOMAIN v \ {b} = Rest
  OBVIOUS
<1>. HIDE DEF q, Rest
<1>4. SumFunctionOnSet(q(w), Rest) = SumFunctionOnSet(q(v), Rest)
  <2>1. \A c \in Rest : q(v)[c] \in Int /\ q(w)[c] = q(v)[c]
    BY <1>1, <1>2, <1>3
  <2>2. IsFiniteSet(Rest)
    BY <1>1, <1>3
  <2>. QED
    BY <2>1, <2>2, SumSame
<1>5. /\ BoughtIn(v, m) \in Int /\ FromBill(v, b, m) \in Int
      /\ SumFunctionOnSet(q(v), Rest) \in Int
      /\ BoughtIn(v, m) = SumFunctionOnSet(q(v), Rest) + FromBill(v, b, m)
  BY <1>1, <1>3
<1>6. /\ BoughtIn(w, m) \in Int /\ FromBill(w, b, m) \in Int
      /\ BoughtIn(w, m) = SumFunctionOnSet(q(w), Rest) + FromBill(w, b, m)
  BY <1>1, <1>3
<1>. QED
  BY <1>4, <1>5, <1>6

\* The bills there are.
LEMMA BillsAreView == Inv => ViewFits(bills)
<1>. SUFFICES ASSUME Inv PROVE ViewFits(bills)
  OBVIOUS
<1>1. made.bills \in Nat /\ DOMAIN bills \subseteq 1 .. made.bills
  BY BillBound DEF Inv, BillsFit, Counts
<1>2. IsFiniteSet(DOMAIN bills)
  <2>1. IsFiniteSet(1 .. made.bills)
    BY <1>1, FS_Interval
  <2>. QED
    BY <1>1, <2>1, FS_Subset
<1>. QED
  BY <1>2 DEF Inv, BillsFit, RowFits, ViewFits

\* And as one transaction sees them.
LEMMA SeenIs ==
  ASSUME Inv, NEW r \in Requests, job[r].phase = "costing"
  PROVE  LET id == job[r].id
             row == job[r].row
         IN  /\ ViewFits(Seen(r))
             /\ DOMAIN Seen(r) \ {id} = DOMAIN bills \ {id}
             /\ \A b \in DOMAIN bills \ {id} : Seen(r)[b] = bills[b]
             /\ id \in DOMAIN Seen(r) <=> job[r].kind # "remove"
             /\ job[r].kind # "remove" =>
                  /\ Seen(r)[id].vendor = row.vendor
                  /\ Seen(r)[id].date = row.date /\ Seen(r)[id].due = row.due
                  /\ Seen(r)[id].tax = row.tax
                  /\ Seen(r)[id].discount = row.discount
                  /\ Seen(r)[id].total = row.total
                  /\ Seen(r)[id].items = IF job[r].replaces THEN row.items
                                         ELSE bills[id].items
<1>. DEFINE id == job[r].id
            row == job[r].row
            with == [row EXCEPT !.items = bills[id].items]
<1>1. /\ BillJobFits(job[r]) /\ OpenFits(job[r])
  BY DEF Inv, JobFits
<1>2. ViewFits(bills)
  BY BillsAreView
<1>3. CASE job[r].kind = "remove"
  <2>1. Seen(r) = Without(bills, id)
    BY <1>3 DEF Seen
  <2>2. /\ DOMAIN Seen(r) = DOMAIN bills \ {id}
        /\ \A b \in DOMAIN bills \ {id} : Seen(r)[b] = bills[b]
    BY <2>1 DEF Without
  <2>3. IsFiniteSet(DOMAIN Seen(r))
    BY <1>2, <2>2, FS_Subset DEF ViewFits
  <2>. QED
    BY <1>2, <1>3, <2>2, <2>3 DEF ViewFits
<1>4. CASE job[r].kind # "remove" /\ job[r].replaces
  <2>1. Seen(r) = With(bills, id, row)
    BY <1>4 DEF Seen
  <2>2. /\ DOMAIN Seen(r) = DOMAIN bills \cup {id}
        /\ \A b \in DOMAIN bills \ {id} : Seen(r)[b] = bills[b]
        /\ Seen(r)[id] = row
    BY <2>1 DEF With
  <2>3. IsFiniteSet(DOMAIN Seen(r))
    BY <1>2, <2>2, FS_AddElement DEF ViewFits
  <2>4. row.items \in Items
    BY <1>1 DEF BillJobFits, RowFits
  <2>. QED
    BY <1>2, <1>4, <2>2, <2>3, <2>4 DEF ViewFits
<1>5. CASE job[r].kind # "remove" /\ ~job[r].replaces
  <2>1. Seen(r) = [bills EXCEPT ![id] = with]
    BY <1>5 DEF Seen
  <2>2. id \in DOMAIN bills /\ DOMAIN row = BillFields
    BY <1>1, <1>5 DEF BillJobFits, OpenFits, RowFits
  <2>3. /\ with.vendor = row.vendor /\ with.date = row.date
        /\ with.due = row.due /\ with.tax = row.tax
        /\ with.discount = row.discount /\ with.total = row.total
        /\ with.items = bills[id].items
    BY <2>2 DEF BillFields
  <2>. HIDE DEF with
  <2>4. /\ DOMAIN Seen(r) = DOMAIN bills
        /\ \A b \in DOMAIN bills \ {id} : Seen(r)[b] = bills[b]
        /\ Seen(r)[id] = with
    BY <2>1, <2>2
  <2>5. ViewFits(Seen(r))
    <3>1. \A b \in DOMAIN bills : Seen(r)[b].items = bills[b].items
      BY <2>3, <2>4
    <3>. QED
      BY <1>2, <2>4, <3>1 DEF ViewFits
  <2>. QED
    BY <1>5, <2>2, <2>3, <2>4, <2>5
<1>. QED
  BY <1>1, <1>3, <1>4, <1>5 DEF BillJobFits

-----------------------------------------------------------------------------
(* What is decided: figures, and what the requests have worked out. *)

FiguresFit(row) ==
  /\ row.date \in Int /\ row.due \in Int
  /\ row.tax \in Int /\ row.discount \in Int /\ row.total \in Int

SumFits(row) == row.amount \in Nat /\ row.on \in Int

\* Every row is made of figures.
FiguresInv ==
  /\ \A b \in DOMAIN bills : FiguresFit(bills[b])
  /\ \A p \in DOMAIN payments : SumFits(payments[p])
  /\ \A m \in DOMAIN materials : materials[m].stock \in Int
  /\ \A m \in DOMAIN counted : counted[m] \in Int

\* What a bill's request has worked out from what it read.
BillDecided(j) ==
  /\ FiguresFit(j.row)
  /\ j.kind = "create" => j.was = <<>>
  /\ j.kind = "remove" => j.row.items = <<>>
  /\ j.kind # "remove" =>
       j.row.total = billTotals(j.row.items, j.row.tax, j.row.discount)
  /\ ~j.replaces => j.row.items = j.was
  /\ j.phase = "costing" =>
       affected(j.was, j.row.items)
         \subseteq DOMAIN j.costs \cup j.todo \cup DOMAIN j.pending

\* And a payment's: the bill it read is its vendor's and has room for it.
PayDecided(j) ==
  /\ SumFits(j.row)
  /\ j.row.bill # None =>
       /\ j.row.vendor = j.seen[1]
       /\ j.row.amount <= j.seen[2] - j.seen[3]

JobDecided(j) ==
  /\ j.phase \in {"opening", "costing"} => BillDecided(j)
  /\ j.phase = "paying" => PayDecided(j)
  /\ j.phase = "stocking" => j.edit \in MaterialEdits

\* The id of a bill being created is nobody else's.
FreshIds ==
  \A r \in Touching :
    job[r].kind = "create" =>
      /\ job[r].id \notin DOMAIN bills
      /\ \A q \in Touching \ {r} : job[q].id # job[r].id

DecidedInv == FreshIds /\ \A r \in Requests : JobDecided(job[r])

\* A bill's lines come to a whole number.
LEMMA SubtotalIs == ASSUME NEW items \in Items PROVE subtotal(items) \in Nat
<1>. DEFINE f == [i \in DOMAIN items |-> lineTotal(items[i])]
<1>1. IsFiniteSet(DOMAIN items)
  BY ItemsAre
<1>2. \A i \in DOMAIN items : f[i] \in Nat
  <2>. SUFFICES ASSUME NEW i \in DOMAIN items PROVE lineTotal(items[i]) \in Nat
    OBVIOUS
  <2>1. items[i].quantity \in Nat /\ items[i].price \in Nat
    BY ItemsAre
  <2>. QED
    BY <2>1 DEF lineTotal
<1>3. subtotal(items) = SumFunctionOnSet(f, DOMAIN items)
  BY DEF subtotal, Over, SumFunction
<1>. HIDE DEF f
<1>. QED
  BY <1>1, <1>2, <1>3, SumCovers

\* What a request decides next holds of it alone.
LEMMA Deciding ==
  ASSUME Inv, DecidedInv, NEW r \in Requests, NEW what, Become(r, what),
         bills' = bills, JobDecided(what),
         what.phase \in {"opening", "costing"} =>
           /\ what.kind = "create" => what.id \notin DOMAIN bills
           /\ \A q \in Touching \ {r} :
                what.kind = "create" \/ job[q].kind = "create" =>
                  job[q].id # what.id
  PROVE  DecidedInv'
<1>1. /\ job'[r] = what
      /\ \A q \in Requests \ {r} : job'[q] = job[q]
  BY Becoming
<1>2. \A q \in Requests : JobDecided(job[q])'
  <2>. SUFFICES ASSUME NEW q \in Requests PROVE JobDecided(job[q])'
    OBVIOUS
  <2>1. JobDecided(job[q])
    BY DEF DecidedInv
  <2>. QED
    BY <1>1, <2>1
<1>3. FreshIds'
  <2>. SUFFICES ASSUME NEW q \in Touching', job'[q].kind = "create"
                PROVE  /\ job'[q].id \notin DOMAIN bills
                       /\ \A p \in Touching' \ {q} : job'[p].id # job'[q].id
    BY DEF FreshIds
  <2>0. job'[q].id \notin DOMAIN bills
    BY <1>1 DEF DecidedInv, FreshIds, Touching
  <2>. SUFFICES ASSUME NEW p \in Touching', q # p
                PROVE  job'[p].id # job'[q].id
    BY <2>0
  <2>1. q \in Requests /\ p \in Requests
    BY DEF Touching
  <2>2. q # r => q \in Touching \ {r} /\ job'[q] = job[q]
    BY <1>1, <2>1 DEF Touching
  <2>3. p # r => p \in Touching \ {r} /\ job'[p] = job[p]
    BY <1>1, <2>1 DEF Touching
  <2>4. q = r => what.phase \in {"opening", "costing"} /\ job'[q] = what
    BY <1>1, <2>1 DEF Touching
  <2>5. p = r => what.phase \in {"opening", "costing"} /\ job'[p] = what
    BY <1>1, <2>1 DEF Touching
  <2>6. q # r /\ p # r => job[p].id # job[q].id
    BY <2>2, <2>3 DEF DecidedInv, FreshIds
  <2>. QED
    BY <2>2, <2>3, <2>4, <2>5, <2>6
<1>. QED
  BY <1>2, <1>3 DEF DecidedInv

\* A bill that is asked for is priced by its lines.
LEMMA PricedIs ==
  ASSUME NEW paper, paper.items \in Items, paper.date \in Int, paper.due \in Int,
         paper.tax \in Int, paper.discount \in Int
  PROVE  LET row == Priced(paper)
         IN  /\ FiguresFit(row) /\ row.items = paper.items
             /\ row.total = billTotals(row.items, row.tax, row.discount)
BY SubtotalIs DEF Priced, FiguresFit, billTotals

LEMMA PapersAre ==
  ASSUME NEW paper \in Papers
  PROVE  /\ paper.items \in Items /\ paper.date \in Int /\ paper.due \in Int
         /\ paper.tax \in Int /\ paper.discount \in Int
BY PapersAssumption DEF Items

\* Nobody has an id yet that is given out now, nor that of a bill to be created.
LEMMA IdsAre ==
  ASSUME Inv, DecidedInv
  PROVE  /\ made.bills + 1 \notin DOMAIN bills
         /\ \A q \in Touching : job[q].id # made.bills + 1
         /\ \A q \in Touching : job[q].kind = "create" => job[q].id \notin DOMAIN bills
<1>1. made.bills \in Nat
  BY BillBound DEF Inv, Counts
<1>2. \A b \in DOMAIN bills : b \in 1 .. made.bills
  BY DEF Inv, BillsFit
<1>3. \A q \in Touching : job[q].id \in 1 .. made.bills
  BY DEF Inv, JobFits, BillJobFits, Touching
<1>. QED
  BY <1>1, <1>2, <1>3 DEF DecidedInv, FreshIds

LEMMA AskBillDecided ==
  ASSUME Inv, FiguresInv, DecidedInv, NEW r \in Requests,
         \/ \E paper \in Papers : AskCreateBill(r, paper)
         \/ \E id \in DOMAIN bills, paper \in Papers, given \in BillEdits :
              AskUpdateBill(r, id, paper, given)
         \/ \E id \in DOMAIN bills : AskRemoveBill(r, id)
  PROVE  DecidedInv'
<1>1. ASSUME NEW paper \in Papers, AskCreateBill(r, paper)
      PROVE  DecidedInv'
  <2>. PICK what : what = BillJob("create", made.bills + 1, <<>>, Priced(paper),
                                  TRUE, {})
    OBVIOUS
  <2>1. Become(r, what) /\ bills' = bills
    BY <1>1 DEF AskCreateBill
  <2>2. /\ what.phase = "opening" /\ what.kind = "create" /\ what.was = <<>>
        /\ what.id = made.bills + 1 /\ what.row = Priced(paper)
        /\ what.replaces = TRUE
    BY DEF BillJob
  <2>3. JobDecided(what)
    BY <2>2, PapersAre, PricedIs, IdsAre DEF JobDecided, BillDecided
  <2>. QED
    BY <2>1, <2>2, <2>3, IdsAre, Deciding
<1>2. ASSUME NEW id \in DOMAIN bills, NEW paper \in Papers, NEW given \in BillEdits,
             AskUpdateBill(r, id, paper, given)
      PROVE  DecidedInv'
  <2>. PICK next : next = Edited(bills[id], paper, given)
    OBVIOUS
  <2>. PICK what : what = BillJob("update", id, bills[id].items, Priced(next),
                                  "items" \in given, {})
    OBVIOUS
  <2>1. Become(r, what) /\ bills' = bills
    BY <1>2 DEF AskUpdateBill
  <2>2. /\ what.phase = "opening" /\ what.kind = "update" /\ what.id = id
        /\ what.was = bills[id].items /\ what.row = Priced(next)
        /\ what.replaces = ("items" \in given)
    BY DEF BillJob
  <2>3. /\ next.items \in Items /\ next.date \in Int /\ next.due \in Int
        /\ next.tax \in Int /\ next.discount \in Int
        /\ "items" \notin given => next.items = bills[id].items
    <3>1. FiguresFit(bills[id]) /\ RowFits(bills[id])
      BY DEF FiguresInv, Inv, BillsFit
    <3>2. \A f \in BillFields :
            next[f] = IF f \in given THEN paper[f] ELSE bills[id][f]
      BY <3>1 DEF Edited, RowFits
    <3>3. /\ next.items = (IF "items" \in given THEN paper.items ELSE bills[id].items)
          /\ next.date = (IF "date" \in given THEN paper.date ELSE bills[id].date)
          /\ next.due = (IF "due" \in given THEN paper.due ELSE bills[id].due)
          /\ next.tax = (IF "tax" \in given THEN paper.tax ELSE bills[id].tax)
          /\ next.discount = (IF "discount" \in given THEN paper.discount
                              ELSE bills[id].discount)
      BY <3>2 DEF BillFields
    <3>. QED
      BY <3>1, <3>3, PapersAre DEF FiguresFit, RowFits
  <2>4. JobDecided(what)
    <3>1. /\ FiguresFit(what.row) /\ what.row.items = next.items
          /\ what.row.total
               = billTotals(what.row.items, what.row.tax, what.row.discount)
      BY <2>2, <2>3, PricedIs
    <3>2. ~what.replaces => what.row.items = what.was
      BY <2>2, <2>3, <3>1
    <3>. QED
      BY <2>2, <3>1, <3>2 DEF JobDecided, BillDecided
  <2>. QED
    BY <2>1, <2>2, <2>4, IdsAre, Deciding
<1>3. ASSUME NEW id \in DOMAIN bills, AskRemoveBill(r, id)
      PROVE  DecidedInv'
  <2>row. PICK row : row = [bills[id] EXCEPT !.items = <<>>]
    OBVIOUS
  <2>what. PICK what : what = BillJob("remove", id, bills[id].items, row, TRUE,
                                  PaymentsOn(payments, id))
    OBVIOUS
  <2>1. Become(r, what) /\ bills' = bills
    BY <1>3, <2>row, <2>what DEF AskRemoveBill
  <2>2. /\ what.phase = "opening" /\ what.kind = "remove" /\ what.id = id
        /\ what.row = row /\ what.replaces = TRUE
    BY <2>what DEF BillJob
  <2>3. FiguresFit(row) /\ row.items = <<>>
    <3>1. FiguresFit(bills[id]) /\ RowFits(bills[id])
      BY DEF FiguresInv, Inv, BillsFit
    <3>2. /\ row.items = <<>> /\ row.date = bills[id].date
          /\ row.due = bills[id].due /\ row.tax = bills[id].tax
          /\ row.discount = bills[id].discount /\ row.total = bills[id].total
      BY <2>row, <3>1 DEF RowFits, BillFields
    <3>. QED
      BY <3>1, <3>2 DEF FiguresFit
  <2>4. JobDecided(what)
    BY <2>2, <2>3 DEF JobDecided, BillDecided
  <2>5. /\ what.kind = "create" => what.id \notin DOMAIN bills
        /\ \A q \in Touching \ {r} :
             what.kind = "create" \/ job[q].kind = "create" =>
               job[q].id # what.id
    BY <2>2, IdsAre
  <2>. QED
    BY <2>1, <2>2, <2>4, <2>5, Deciding
<1>. QED
  BY <1>1, <1>2, <1>3

\* A payment is asked for where it fits; a material is edited as on the form.
LEMMA AskOtherDecided ==
  ASSUME Inv, FiguresInv, DecidedInv, NEW r \in Requests,
         \/ \E payment \in Payments, bill \in DOMAIN bills \cup {None} :
              AskPayment(r, payment, bill)
         \/ \E id \in DOMAIN payments, payment \in Payments,
               bill \in DOMAIN bills \cup {None}, given \in PaymentEdits :
              AskPaymentEdit(r, id, payment, bill, given)
         \/ \E m \in DOMAIN materials, edit \in MaterialEdits :
              AskMaterialEdit(r, m, edit)
  PROVE  DecidedInv'
<1>1. ASSUME NEW payment \in Payments, NEW bill \in DOMAIN bills \cup {None},
             AskPayment(r, payment, bill)
      PROVE  DecidedInv'
  <2>row. PICK row : row = [vendor |-> payment.vendor, amount |-> payment.amount,
                            on |-> payment.on, bill |-> bill]
    OBVIOUS
  <2>id. PICK id : id = made.payments + 1
    OBVIOUS
  <2>what. PICK what : what = Paying("create", id, row)
    OBVIOUS
  <2>1. Become(r, what) /\ bills' = bills
    BY <1>1, <2>row, <2>id, <2>what DEF AskPayment
  <2>2. /\ what.phase = "paying" /\ what.row = row
        /\ what.seen = Reading(bill, id)
    BY <2>row, <2>what DEF Paying
  <2>3. SumFits(row) /\ row.bill = bill /\ row.vendor = payment.vendor
    BY <2>row, PaymentsAssumption DEF SumFits
  <2>4. bill # None => assertPaymentFitsBill(bill, row.vendor, row.amount, None)
    BY <1>1, <2>row DEF AskPayment
  <2>5. PaymentsOn(payments, bill) \ {None} = PaymentsOn(payments, bill) \ {id}
    <3>1. made.payments \in Nat
      BY PaymentBound DEF Inv, Counts
    <3>2. \A p \in DOMAIN payments : p \in 1 .. made.payments
      BY DEF Inv, PaymentsFit
    <3>. QED
      BY <2>id, <3>1, <3>2 DEF PaymentsOn, None
  <2>6. ASSUME bill # None
        PROVE  /\ what.seen = <<bills[bill].vendor, bills[bill].total,
                      AmountOf(payments, PaymentsOn(payments, bill) \ {id})>>
               /\ row.vendor = bills[bill].vendor
               /\ row.amount <= bills[bill].total
                    - AmountOf(payments, PaymentsOn(payments, bill) \ {id})
    BY <2>2, <2>4, <2>5, <2>6 DEF assertPaymentFitsBill, Reading
  <2>7. JobDecided(what)
    BY <2>2, <2>3, <2>6 DEF JobDecided, PayDecided
  <2>. QED
    BY <2>1, <2>2, <2>7, Deciding
<1>2. ASSUME NEW id \in DOMAIN payments, NEW payment \in Payments,
             NEW bill \in DOMAIN bills \cup {None}, NEW given \in PaymentEdits,
             AskPaymentEdit(r, id, payment, bill, given)
      PROVE  DecidedInv'
  <2>edit. PICK edit : edit = [vendor |-> payment.vendor, amount |-> payment.amount,
                               on |-> payment.on, bill |-> bill]
    OBVIOUS
  <2>row. PICK row : row = Edited(payments[id], edit, given)
    OBVIOUS
  <2>what. PICK what : what = Paying("update", id, row)
    OBVIOUS
  <2>1. Become(r, what) /\ bills' = bills
    BY <1>2, <2>edit, <2>row, <2>what DEF AskPaymentEdit
  <2>2. /\ what.phase = "paying" /\ what.row = row
        /\ what.seen = Reading(row.bill, id)
    BY <2>what DEF Paying
  <2>3. SumFits(row)
    <3>1. SumFits(payments[id]) /\ DOMAIN payments[id] = PaymentFields
      BY DEF FiguresInv, Inv, PaymentsFit, PaymentFits
    <3>2. SumFits(edit)
      BY <2>edit, PaymentsAssumption DEF SumFits
    <3>3. /\ row.amount = (IF "amount" \in given THEN edit.amount
                          ELSE payments[id].amount)
          /\ row.on = (IF "on" \in given THEN edit.on ELSE payments[id].on)
      BY <2>row, <3>1 DEF Edited, PaymentFields
    <3>. QED
      BY <3>1, <3>2, <3>3 DEF SumFits
  <2>4. row.bill # None => assertPaymentFitsBill(row.bill, row.vendor, row.amount, id)
    BY <1>2, <2>edit, <2>row DEF AskPaymentEdit
  <2>5. ASSUME row.bill # None
        PROVE  /\ what.seen = <<bills[row.bill].vendor, bills[row.bill].total,
                      AmountOf(payments, PaymentsOn(payments, row.bill) \ {id})>>
               /\ row.vendor = bills[row.bill].vendor
               /\ row.amount <= bills[row.bill].total
                    - AmountOf(payments, PaymentsOn(payments, row.bill) \ {id})
    BY <2>2, <2>4, <2>5 DEF assertPaymentFitsBill, Reading
  <2>6. JobDecided(what)
    BY <2>2, <2>3, <2>5 DEF JobDecided, PayDecided
  <2>. QED
    BY <2>1, <2>2, <2>6, Deciding
<1>3. ASSUME NEW m \in DOMAIN materials, NEW edit \in MaterialEdits,
             AskMaterialEdit(r, m, edit)
      PROVE  DecidedInv'
  <2>what. PICK what : what = [phase |-> "stocking", id |-> m, edit |-> edit,
                               unit |-> materials[m].unit,
                               stock |-> materials[m].stock]
    OBVIOUS
  <2>1. Become(r, what) /\ bills' = bills
    BY <1>3, <2>what DEF AskMaterialEdit
  <2>2. what.phase = "stocking" /\ what.edit = edit
    BY <2>what
  <2>. QED
    BY <2>1, <2>2, Deciding DEF JobDecided
<1>. QED
  BY <1>1, <1>2, <1>3

\* A transaction goes on with what was decided, and works through the materials.
LEMMA GoOnDecided ==
  ASSUME Inv, DecidedInv, NEW r \in Requests,
         OpenBill(r) \/ ReadHistory(r) \/ WriteCost(r)
  PROVE  DecidedInv'
<1>1. PICK what :
        /\ Become(r, what) /\ what.phase = "costing"
        /\ job[r].phase \in {"opening", "costing"}
        /\ what.kind = job[r].kind /\ what.id = job[r].id
        /\ what.was = job[r].was /\ what.row = job[r].row
        /\ what.replaces = job[r].replaces
        /\ affected(what.was, what.row.items)
             \subseteq DOMAIN what.costs \cup what.todo \cup DOMAIN what.pending
  <2>1. ASSUME job[r].phase \in {"opening", "costing"}
        PROVE  /\ DOMAIN job[r] = {"phase", "kind", "id", "was", "row", "replaces",
                                   "paid", "todo", "pending", "costs"}
               /\ job[r].phase = "costing" =>
                    affected(job[r].was, job[r].row.items)
                      \subseteq DOMAIN job[r].costs \cup job[r].todo
                                  \cup DOMAIN job[r].pending
    BY <2>1 DEF Inv, JobFits, BillJobFits, DecidedInv, JobDecided, BillDecided
  <2>2. CASE OpenBill(r)
    <3>1. PICK what : what = [job[r] EXCEPT
            !.phase = "costing",
            !.todo = affected(job[r].was, job[r].row.items) \ Written(r),
            !.costs = [m \in Written(r) |-> HistoryIn(Seen(r), m)]]
      OBVIOUS
    <3>2. Become(r, what) /\ job[r].phase = "opening"
      BY <2>2, <3>1 DEF OpenBill
    <3>3. /\ what.phase = "costing"
          /\ what.kind = job[r].kind /\ what.id = job[r].id
          /\ what.was = job[r].was /\ what.row = job[r].row
          /\ what.replaces = job[r].replaces
          /\ what.todo = affected(job[r].was, job[r].row.items) \ Written(r)
          /\ DOMAIN what.costs = Written(r)
      BY <2>1, <3>1, <3>2
    <3>. QED
      BY <3>2, <3>3
  <2>3. CASE ReadHistory(r)
    <3>1. PICK m \in job[r].todo :
            Become(r, [job[r] EXCEPT !.todo = @ \ {m},
                          !.pending = With(<<>>, m, HistoryIn(Seen(r), m))])
      BY <2>3 DEF ReadHistory
    <3>2. PICK what :
            what = [job[r] EXCEPT !.todo = @ \ {m},
                      !.pending = With(<<>>, m, HistoryIn(Seen(r), m))]
      OBVIOUS
    <3>3. job[r].phase = "costing" /\ job[r].pending = <<>>
      BY <2>3 DEF ReadHistory
    <3>4. m \in DOMAIN With(<<>>, m, HistoryIn(Seen(r), m))
      BY DEF With
    <3>5. /\ what.phase = "costing"
          /\ what.kind = job[r].kind /\ what.id = job[r].id
          /\ what.was = job[r].was /\ what.row = job[r].row
          /\ what.replaces = job[r].replaces
          /\ what.todo = job[r].todo \ {m} /\ what.costs = job[r].costs
          /\ m \in DOMAIN what.pending
      BY <2>1, <3>2, <3>3, <3>4
    <3>6. Become(r, what)
      BY <3>1, <3>2
    <3>7. affected(what.was, what.row.items)
            \subseteq DOMAIN what.costs \cup what.todo \cup DOMAIN what.pending
      BY <2>1, <3>3, <3>5
    <3>. QED
      BY <3>3, <3>5, <3>6, <3>7
  <2>4. CASE WriteCost(r)
    <3>1. PICK what : what = [job[r] EXCEPT !.pending = <<>>,
                                !.costs = Extended(@, job[r].pending)]
      OBVIOUS
    <3>2. DOMAIN Extended(job[r].costs, job[r].pending)
            = DOMAIN job[r].costs \cup DOMAIN job[r].pending
      BY DEF Extended
    <3>3. Become(r, what) /\ job[r].phase = "costing"
      BY <2>4, <3>1 DEF WriteCost
    <3>4. /\ what.phase = "costing"
          /\ what.kind = job[r].kind /\ what.id = job[r].id
          /\ what.was = job[r].was /\ what.row = job[r].row
          /\ what.replaces = job[r].replaces
          /\ what.todo = job[r].todo
          /\ DOMAIN what.costs = DOMAIN job[r].costs \cup DOMAIN job[r].pending
      BY <2>1, <3>1, <3>2, <3>3
    <3>. QED
      BY <2>1, <3>3, <3>4
  <2>. QED
    BY <2>2, <2>3, <2>4
<1>2. BillDecided(job[r]) /\ r \in Touching
  BY <1>1 DEF DecidedInv, JobDecided, Touching
<1>3. JobDecided(what)
  BY <1>1, <1>2 DEF JobDecided, BillDecided
<1>4. bills' = bills
  BY DEF OpenBill, ReadHistory, WriteCost
<1>5. /\ what.kind = "create" => what.id \notin DOMAIN bills
      /\ \A q \in Touching \ {r} :
           what.kind = "create" \/ job[q].kind = "create" =>
             job[q].id # what.id
  BY <1>1, <1>2 DEF DecidedInv, FreshIds
<1>. QED
  BY <1>1, <1>3, <1>4, <1>5, Deciding

\* A bill created is none that is still to be created.
LEMMA CommitDecided ==
  ASSUME Inv, DecidedInv, NEW r \in Requests, CommitBill(r)
  PROVE  DecidedInv'
<1>1. Become(r, Idle) /\ bills' = Seen(r) /\ job[r].phase = "costing"
  BY DEF CommitBill
<1>2. /\ job'[r] = Idle
      /\ \A q \in Requests \ {r} : job'[q] = job[q]
  BY <1>1, Becoming
<1>3. \A q \in Requests : JobDecided(job[q])'
  <2>1. JobDecided(Idle)
    BY DEF JobDecided, Idle
  <2>. QED
    BY <1>2, <2>1 DEF DecidedInv
<1>4. \A q \in Touching' : q \in Touching \ {r} /\ job'[q] = job[q]
  BY <1>2 DEF Touching, Idle
<1>5. DOMAIN bills' \subseteq DOMAIN bills \cup {job[r].id}
  BY <1>1, SeenIs
<1>6. r \in Touching
  BY <1>1 DEF Touching
<1>7. ASSUME NEW q \in Touching', job'[q].kind = "create"
      PROVE  job'[q].id \notin DOMAIN bills'
             /\ \A p \in Touching' \ {q} : job'[p].id # job'[q].id
  <2>1. q \in Touching \ {r} /\ job[q].kind = "create" /\ job'[q] = job[q]
    BY <1>4, <1>7
  <2>2. job[q].id \notin DOMAIN bills /\ job[r].id # job[q].id
    BY <1>6, <2>1 DEF DecidedInv, FreshIds
  <2>3. \A p \in Touching' \ {q} : job'[p].id # job'[q].id
    BY <1>4, <2>1 DEF DecidedInv, FreshIds
  <2>. QED
    BY <1>5, <2>1, <2>2, <2>3
<1>. QED
  BY <1>3, <1>7 DEF DecidedInv, FreshIds

\* Every step of purchasing keeps to what was decided.
LEMMA NextDecided == Inv /\ FiguresInv /\ DecidedInv /\ [Next]_vars => DecidedInv'
<1>. SUFFICES ASSUME Inv, FiguresInv, DecidedInv, [Next]_vars PROVE DecidedInv'
  OBVIOUS
<1>1. ASSUME UNCHANGED <<job, bills>> PROVE DecidedInv'
  BY <1>1 DEF DecidedInv, FreshIds, Touching
<1>2. ASSUME NEW r \in Requests, Ask(r) PROVE DecidedInv'
  <2>1. \/ \E paper \in Papers : AskCreateBill(r, paper)
        \/ \E id \in DOMAIN bills, paper \in Papers, given \in BillEdits :
             AskUpdateBill(r, id, paper, given)
        \/ \E id \in DOMAIN bills : AskRemoveBill(r, id)
        \/ \E payment \in Payments, bill \in DOMAIN bills \cup {None} :
             AskPayment(r, payment, bill)
        \/ \E id \in DOMAIN payments, payment \in Payments,
              bill \in DOMAIN bills \cup {None}, given \in PaymentEdits :
             AskPaymentEdit(r, id, payment, bill, given)
        \/ \E m \in DOMAIN materials, edit \in MaterialEdits :
             AskMaterialEdit(r, m, edit)
    BY <1>2 DEF Ask
  <2>. QED
    BY <2>1, AskBillDecided, AskOtherDecided, Zenon
<1>3. ASSUME NEW r \in Requests, Handler(r) PROVE DecidedInv'
  <2>1. ASSUME WritePayment(r) \/ WriteMaterial(r) \/ Fail(r) PROVE DecidedInv'
    <3>1. Become(r, Idle) /\ bills' = bills
      BY <2>1 DEF WritePayment, WriteMaterial, Fail
    <3>2. JobDecided(Idle) /\ Idle.phase = "idle"
      BY DEF JobDecided, Idle
    <3>. QED
      BY <3>1, <3>2, Deciding
  <2>. QED
    BY <1>3, <2>1, GoOnDecided, CommitDecided DEF Handler
<1>4. ASSUME \/ \E id \in DOMAIN payments : RemovePayment(id)
             \/ \E m \in Materials : CreateMaterial(m) \/ RemoveMaterial(m)
             \/ \E v \in Vendors : CreateVendor(v) \/ RemoveVendor(v)
      PROVE  UNCHANGED <<job, bills>>
  BY <1>4 DEF RemovePayment, CreateMaterial, RemoveMaterial, CreateVendor,
    RemoveVendor
<1>. QED
  BY <1>1, <1>2, <1>3, <1>4 DEF Next, vars

-----------------------------------------------------------------------------
(* Stock and costs. *)

\* What writes the books.
LEMMA StepsAre ==
  ASSUME [Next]_vars
  PROVE  \/ UNCHANGED <<materials, bills, payments, counted, byHand, repriced,
                        overtaken>>
         \/ \E r \in Requests :
              CommitBill(r) \/ WritePayment(r) \/ WriteMaterial(r)
         \/ \E id \in DOMAIN payments : RemovePayment(id)
         \/ \E m \in Materials : CreateMaterial(m) \/ RemoveMaterial(m)
<1>. DEFINE Kept == UNCHANGED <<materials, bills, payments, counted, byHand, repriced,
                                overtaken>>
<1>1. ASSUME NEW r \in Requests, Ask(r) PROVE Kept
  BY <1>1, AskChangesNothing DEF Untouched
<1>2. ASSUME NEW r \in Requests, OpenBill(r) \/ ReadHistory(r) \/ WriteCost(r)
                                   \/ Fail(r)
      PROVE  Kept
  BY <1>2 DEF OpenBill, ReadHistory, WriteCost, Fail
<1>3. ASSUME NEW v \in Vendors, CreateVendor(v) \/ RemoveVendor(v) PROVE Kept
  BY <1>3 DEF CreateVendor, RemoveVendor
<1>4. CASE UNCHANGED vars
  BY <1>4 DEF vars
<1>. HIDE DEF Kept
<1>5. ASSUME NEW r \in Requests, Handler(r)
      PROVE  Kept \/ CommitBill(r) \/ WritePayment(r) \/ WriteMaterial(r)
  BY <1>2, <1>5 DEF Handler
<1>6. CASE Next
  <2>1. CASE \E r \in Requests : Ask(r) \/ Handler(r)
    <3>1. PICK r \in Requests : Ask(r) \/ Handler(r)
      BY <2>1
    <3>2. Kept \/ CommitBill(r) \/ WritePayment(r) \/ WriteMaterial(r)
      BY <1>1, <1>5, <3>1
    <3>. QED
      BY <3>2 DEF Kept
  <2>2. CASE \E v \in Vendors : CreateVendor(v) \/ RemoveVendor(v)
    BY <1>3, <2>2 DEF Kept
  <2>. QED
    BY <1>6, <2>1, <2>2 DEF Next
<1>. QED
  BY <1>4, <1>6 DEF Kept

\* What a commit writes.
LEMMA CommitIs ==
  ASSUME Inv, NEW r \in Requests, CommitBill(r)
  PROVE  LET costs == job[r].costs
             bought == {m \in DOMAIN costs : costs[m] # {}}
         IN  /\ job[r].phase = "costing"
             /\ job[r].todo = {} /\ job[r].pending = <<>>
             /\ bills' = Seen(r) /\ counted' = counted
             /\ byHand' = byHand \ bought
             /\ overtaken' = (overtaken \/ OutOfDate(r))
             /\ DOMAIN materials' = DOMAIN materials
             /\ \A m \in DOMAIN materials :
                  materials'[m].stock = materials[m].stock + applyStockDeltas(r, m)
             /\ \A m \in DOMAIN materials :
                  m \in bought =>
                    /\ materials'[m].cost = weightedAverageCost(costs[m])
                    /\ materials'[m].last \in LatestPrices(costs[m])
             /\ \A m \in DOMAIN materials :
                  m \notin bought =>
                    /\ materials'[m].cost = materials[m].cost
                    /\ materials'[m].last = materials[m].last
<1>. DEFINE costs == job[r].costs
            bought == {m \in DOMAIN costs : costs[m] # {}}
<1>1. /\ job[r].phase = "costing"
      /\ job[r].todo = {} /\ job[r].pending = <<>>
      /\ bills' = Seen(r) /\ counted' = counted
      /\ byHand' = byHand \ bought
      /\ overtaken' = (overtaken \/ OutOfDate(r))
  BY DEF CommitBill
<1>2. PICK newest \in [bought -> {p.price : p \in UNION Range(costs)}] :
        /\ \A m \in bought : newest[m] \in LatestPrices(costs[m])
        /\ materials' =
             [m \in DOMAIN materials |->
               [materials[m] EXCEPT
                  !.stock = @ + applyStockDeltas(r, m),
                  !.cost = IF m \in bought
                           THEN weightedAverageCost(costs[m]) ELSE @,
                  !.last = IF m \in bought THEN newest[m] ELSE @]]
  BY DEF CommitBill
<1>. HIDE DEF costs, bought
<1>3. DOMAIN materials' = DOMAIN materials
  BY <1>2
<1>4. ASSUME NEW m \in DOMAIN materials
      PROVE  /\ materials'[m].stock = materials[m].stock + applyStockDeltas(r, m)
             /\ materials'[m].cost = IF m \in bought THEN weightedAverageCost(costs[m])
                                     ELSE materials[m].cost
             /\ materials'[m].last = IF m \in bought THEN newest[m]
                                     ELSE materials[m].last
  <2>1. DOMAIN materials[m] = Fields
    BY DEF Inv, MaterialsFit
  <2>. QED
    BY <1>2, <2>1 DEF Fields
<1>5. \A m \in DOMAIN materials :
        m \in bought =>
          /\ materials'[m].cost = weightedAverageCost(costs[m])
          /\ materials'[m].last \in LatestPrices(costs[m])
  BY <1>2, <1>4
<1>6. \A m \in DOMAIN materials :
        m \notin bought =>
          /\ materials'[m].cost = materials[m].cost
          /\ materials'[m].last = materials[m].last
  BY <1>4
<1>7. \A m \in DOMAIN materials :
        materials'[m].stock = materials[m].stock + applyStockDeltas(r, m)
  BY <1>4
<1>. QED
  BY <1>1, <1>3, <1>5, <1>6, <1>7 DEF costs, bought

\* What a commit does to the payments: those of a bill that goes are kept.
LEMMA CommitPays ==
  ASSUME Inv, NEW r \in Requests, CommitBill(r)
  PROVE  /\ DOMAIN payments' = DOMAIN payments
         /\ \A p \in DOMAIN payments :
              /\ payments'[p].vendor = payments[p].vendor
              /\ payments'[p].amount = payments[p].amount
              /\ payments'[p].on = payments[p].on
              /\ payments'[p].bill =
                   IF job[r].kind = "remove" /\ payments[p].bill = job[r].id
                   THEN None ELSE payments[p].bill
<1>1. CASE job[r].kind = "remove"
  <2>1. payments' = [p \in DOMAIN payments |->
                       IF payments[p].bill = job[r].id
                       THEN [payments[p] EXCEPT !.bill = None]
                       ELSE payments[p]]
    BY <1>1 DEF CommitBill
  <2>2. \A p \in DOMAIN payments : DOMAIN payments[p] = PaymentFields
    BY DEF Inv, PaymentsFit, PaymentFits
  <2>. QED
    BY <1>1, <2>1, <2>2 DEF PaymentFields
<1>2. CASE job[r].kind # "remove"
  BY <1>2 DEF CommitBill
<1>. QED
  BY <1>1, <1>2

LEMMA DeltaIs ==
  ASSUME Inv, NEW r \in Requests, job[r].phase = "costing", NEW m
  PROVE  applyStockDeltas(r, m) \in Int
<1>1. job[r].was \in Items /\ job[r].row.items \in Items
  BY DEF Inv, JobFits, BillJobFits, RowFits
<1>. QED
  BY <1>1, QuantityIs DEF applyStockDeltas

\* What is written is figures again.
LEMMA NextFigures == Inv /\ FiguresInv /\ DecidedInv /\ [Next]_vars => FiguresInv'
<1>. SUFFICES ASSUME Inv, FiguresInv, DecidedInv, [Next]_vars PROVE FiguresInv'
  OBVIOUS
<1>1. ASSUME UNCHANGED <<materials, bills, payments, counted>> PROVE FiguresInv'
  BY <1>1 DEF FiguresInv
<1>2. ASSUME NEW r \in Requests, CommitBill(r) PROVE FiguresInv'
  <2>1. /\ bills' = Seen(r) /\ counted' = counted /\ job[r].phase = "costing"
        /\ DOMAIN materials' = DOMAIN materials
        /\ \A m \in DOMAIN materials :
             materials'[m].stock = materials[m].stock + applyStockDeltas(r, m)
    BY <1>2, CommitIs
  <2>2. \A m \in DOMAIN materials' : materials'[m].stock \in Int
    BY <2>1, DeltaIs DEF FiguresInv
  <2>3. \A p \in DOMAIN payments' : SumFits(payments'[p])
    BY <1>2, CommitPays DEF FiguresInv, SumFits
  <2>4. FiguresFit(job[r].row)
    BY <2>1 DEF DecidedInv, JobDecided, BillDecided
  <2>5. ASSUME NEW b \in DOMAIN bills' PROVE FiguresFit(bills'[b])
    <3>1. CASE b = job[r].id
      BY <2>1, <2>4, <2>5, <3>1, SeenIs DEF FiguresFit
    <3>2. CASE b # job[r].id
      BY <2>1, <2>5, <3>2, SeenIs DEF FiguresInv
    <3>. QED
      BY <3>1, <3>2
  <2>. QED
    BY <2>1, <2>2, <2>3, <2>5 DEF FiguresInv
<1>3. ASSUME NEW r \in Requests, WritePayment(r) PROVE FiguresInv'
  <2>1. /\ payments' = With(payments, job[r].id, job[r].row)
        /\ job[r].phase = "paying" /\ UNCHANGED <<materials, bills, counted>>
    BY <1>3 DEF WritePayment
  <2>2. SumFits(job[r].row)
    BY <2>1 DEF DecidedInv, JobDecided, PayDecided
  <2>. QED
    BY <2>1, <2>2 DEF FiguresInv, With
<1>4. ASSUME NEW r \in Requests, WriteMaterial(r) PROVE FiguresInv'
  <2>. DEFINE m == job[r].id
              edit == job[r].edit
  <2>1. /\ m \in DOMAIN materials /\ job[r].phase = "stocking"
        /\ materials' = [materials EXCEPT ![m] = mergedInto(edit, materials[m])]
        /\ counted' =
             IF "stock" \in DOMAIN edit
             THEN [counted EXCEPT ![m] = edit.stock - BoughtIn(bills, m)]
             ELSE counted
        /\ UNCHANGED <<bills, payments>>
    BY <1>4 DEF WriteMaterial, BoughtIn
  <2>2. edit \in MaterialEdits
    BY <2>1 DEF DecidedInv, JobDecided
  <2>3. "stock" \in DOMAIN edit => edit.stock \in Int
    BY <2>2, MaterialEditsAssumption
  <2>4. DOMAIN materials[m] = Fields
    BY <2>1 DEF Inv, MaterialsFit
  <2>5. BoughtIn(bills, m) \in Int
    BY BillsAreView, BoughtChange
  <2>. HIDE DEF m, edit
  <2>6. mergedInto(edit, materials[m]).stock \in Int
    BY <2>1, <2>3, <2>4 DEF mergedInto, Fields, FiguresInv
  <2>7. \A n \in DOMAIN materials' : materials'[n].stock \in Int
    BY <2>1, <2>6 DEF FiguresInv
  <2>8. \A n \in DOMAIN counted' : counted'[n] \in Int
    BY <2>1, <2>3, <2>5 DEF FiguresInv
  <2>. QED
    BY <2>1, <2>7, <2>8 DEF FiguresInv
<1>5. ASSUME NEW id \in DOMAIN payments, RemovePayment(id) PROVE FiguresInv'
  BY <1>5 DEF RemovePayment, Without, FiguresInv
<1>6. ASSUME NEW m \in Materials, CreateMaterial(m) \/ RemoveMaterial(m)
      PROVE  FiguresInv'
  <2>1. CASE CreateMaterial(m)
    BY <2>1, OpeningAssumption DEF CreateMaterial, With, FiguresInv
  <2>2. CASE RemoveMaterial(m)
    BY <2>2 DEF RemoveMaterial, Without, FiguresInv
  <2>. QED
    BY <1>6, <2>1, <2>2
<1>. QED
  BY <1>1, <1>2, <1>3, <1>4, <1>5, <1>6, StepsAre

\* Stock and what was bought keep step.
StockInv ==
  \A m \in DOMAIN materials : materials[m].stock = counted[m] + BoughtIn(bills, m)

\* An edit or a deletion takes back just what the bill brought, and what it brings
\* then is added.
LEMMA CommitStock ==
  ASSUME Inv, FiguresInv, DecidedInv, StockInv, NEW r \in Requests,
         CommitBill(r), ~OutOfDate(r)
  PROVE  StockInv'
<1>. DEFINE id == job[r].id
            row == job[r].row
            was == job[r].was
<1>1. /\ bills' = Seen(r) /\ counted' = counted /\ job[r].phase = "costing"
      /\ DOMAIN materials' = DOMAIN materials
      /\ \A m \in DOMAIN materials :
           materials'[m].stock = materials[m].stock + applyStockDeltas(r, m)
  BY CommitIs
<1>2. BillJobFits(job[r]) /\ OpenFits(job[r]) /\ BillDecided(job[r])
  BY <1>1 DEF Inv, JobFits, DecidedInv, JobDecided
<1>3. was \in Items /\ row.items \in Items
  BY <1>2 DEF BillJobFits, RowFits
<1>4. job[r].kind = "create" => id \notin DOMAIN bills
  BY <1>1 DEF DecidedInv, FreshIds, Touching
<1>5. job[r].kind # "create" => id \in DOMAIN bills /\ was = bills[id].items
  BY <1>2 DEF OpenFits, OutOfDate
<1>6. ASSUME NEW m \in DOMAIN materials
      PROVE  FromBill(Seen(r), id, m) - FromBill(bills, id, m)
               = applyStockDeltas(r, m)
  <2>1. FromBill(bills, id, m) = QuantityOf(was, m)
    BY <1>2, <1>4, <1>5, QuantityIs, <1>3 DEF FromBill, BillDecided
  <2>2. FromBill(Seen(r), id, m)
          = IF job[r].replaces THEN QuantityOf(row.items, m) ELSE QuantityOf(was, m)
    <3>1. CASE job[r].kind = "remove"
      BY <1>1, <1>2, <1>3, <3>1, SeenIs, QuantityIs
        DEF FromBill, BillJobFits, BillDecided
    <3>2. CASE job[r].kind # "remove"
      BY <1>1, <1>2, <1>5, <3>2, SeenIs DEF FromBill, BillJobFits
    <3>. QED
      BY <3>1, <3>2
  <2>3. QuantityOf(was, m) \in Int /\ QuantityOf(row.items, m) \in Int
    BY <1>3, QuantityIs
  <2>. QED
    BY <1>2, <2>1, <2>2, <2>3 DEF applyStockDeltas, BillJobFits
<1>7. ASSUME NEW m \in DOMAIN materials
      PROVE  materials'[m].stock = counted'[m] + BoughtIn(Seen(r), m)
  <2>1. /\ ViewFits(bills) /\ ViewFits(Seen(r))
        /\ DOMAIN Seen(r) \ {id} = DOMAIN bills \ {id}
        /\ \A b \in DOMAIN bills \ {id} : Seen(r)[b].items = bills[b].items
    BY <1>1, BillsAreView, SeenIs
  <2>2. /\ BoughtIn(bills, m) \in Int /\ BoughtIn(Seen(r), m) \in Int
        /\ FromBill(bills, id, m) \in Int /\ FromBill(Seen(r), id, m) \in Int
        /\ BoughtIn(Seen(r), m) - FromBill(Seen(r), id, m)
             = BoughtIn(bills, m) - FromBill(bills, id, m)
    BY <2>1, BoughtChange
  <2>3. m \in DOMAIN counted /\ counted[m] \in Int
    BY DEF Inv, MaterialsFit, FiguresInv
  <2>. QED
    BY <1>1, <1>6, <2>2, <2>3 DEF StockInv
<1>. QED
  BY <1>1, <1>7 DEF StockInv

\* A material that nothing was bought of has what was counted.
LEMMA NewMaterial ==
  ASSUME Inv, NEW m \in Materials, CreateMaterial(m)
  PROVE  HistoryIn(bills, m) = {} /\ BoughtIn(bills, m) = 0
<1>1. m \notin DOMAIN materials
  BY DEF CreateMaterial, Inv, MaterialsFit
<1>2. \A b \in DOMAIN bills : m \notin materialIdsOf(bills[b].items)
  BY <1>1 DEF Inv, BillsFit, assertMaterialsExist
<1>3. HistoryIn(bills, m) = {}
  BY <1>2, BillsAreView, HistoryIs
<1>4. BoughtIn(bills, m)
        = SumFunctionOnSet([l \in HistoryIn(bills, m) |-> l.quantity], {})
  BY <1>3 DEF BoughtIn, Over, SumFunction
<1>. QED
  BY <1>3, <1>4, SumOfNone

\* So does every step that was not overtaken.
LEMMA NextStock ==
  Inv /\ FiguresInv /\ DecidedInv /\ StockIsCountPlusBills /\ [Next]_vars
    => StockIsCountPlusBills'
<1>. SUFFICES ASSUME Inv, FiguresInv, DecidedInv, StockIsCountPlusBills,
                     [Next]_vars
              PROVE  StockIsCountPlusBills'
  OBVIOUS
<1>1. ~overtaken => StockInv
  BY DEF StockIsCountPlusBills, StockInv, BoughtIn
<1>2. StockIsCountPlusBills' <=> (~overtaken' => StockInv')
  BY DEF StockIsCountPlusBills, StockInv, BoughtIn
<1>. SUFFICES ASSUME ~overtaken' PROVE StockInv'
  BY <1>2
<1>3. ASSUME NEW r \in Requests, CommitBill(r) PROVE StockInv'
  <2>1. ~overtaken /\ ~OutOfDate(r)
    BY <1>3, CommitIs
  <2>. QED
    BY <1>1, <1>3, <2>1, CommitStock
<1>4. ASSUME NEW r \in Requests, WriteMaterial(r) PROVE StockInv'
  <2>. DEFINE m == job[r].id
              edit == job[r].edit
  <2>1. /\ m \in DOMAIN materials /\ ~overtaken
        /\ materials' = [materials EXCEPT ![m] = mergedInto(edit, materials[m])]
        /\ counted' =
             IF "stock" \in DOMAIN edit
             THEN [counted EXCEPT ![m] = edit.stock - BoughtIn(bills, m)]
             ELSE counted
        /\ bills' = bills /\ job[r].phase = "stocking"
    BY <1>4 DEF WriteMaterial, BoughtIn
  <2>2. "stock" \in DOMAIN edit => edit.stock \in Int
    BY <2>1, MaterialEditsAssumption DEF DecidedInv, JobDecided
  <2>3. DOMAIN materials[m] = Fields /\ m \in DOMAIN counted
    BY <2>1 DEF Inv, MaterialsFit
  <2>4. BoughtIn(bills, m) \in Int
    BY BillsAreView, BoughtChange
  <2>0. \A n \in DOMAIN materials :
          materials[n].stock = counted[n] + BoughtIn(bills, n)
    BY <1>1, <2>1 DEF StockInv
  <2>. HIDE DEF m, edit
  <2>5. mergedInto(edit, materials[m]).stock
          = IF "stock" \in DOMAIN edit THEN edit.stock ELSE materials[m].stock
    BY <2>3 DEF mergedInto, Fields
  <2>6. materials'[m].stock = counted'[m] + BoughtIn(bills, m)
    BY <2>0, <2>1, <2>2, <2>3, <2>4, <2>5
  <2>7. ASSUME NEW n \in DOMAIN materials \ {m}
        PROVE  materials'[n].stock = counted'[n] + BoughtIn(bills, n)
    BY <2>0, <2>1
  <2>. QED
    BY <2>1, <2>6, <2>7 DEF StockInv
<1>5. ASSUME NEW m \in Materials, CreateMaterial(m) PROVE StockInv'
  <2>1. /\ materials' = With(materials, m, Opening)
        /\ counted' = With(counted, m, Opening.stock)
        /\ bills' = bills /\ ~overtaken
    BY <1>5 DEF CreateMaterial
  <2>2. BoughtIn(bills, m) = 0 /\ DOMAIN materials \subseteq DOMAIN counted
    BY <1>5, NewMaterial DEF Inv, MaterialsFit
  <2>3. \A n \in DOMAIN materials :
          materials[n].stock = counted[n] + BoughtIn(bills, n)
    BY <1>1, <2>1 DEF StockInv
  <2>4. ASSUME NEW n \in DOMAIN materials'
        PROVE  materials'[n].stock = counted'[n] + BoughtIn(bills, n)
    <3>1. CASE n = m
      <4>1. materials'[n] = Opening /\ counted'[n] = Opening.stock
        BY <2>1, <3>1 DEF With
      <4>. QED
        BY <2>2, <3>1, <4>1, OpeningAssumption
    <3>2. CASE n # m
      <4>1. /\ n \in DOMAIN materials /\ materials'[n] = materials[n]
            /\ counted'[n] = counted[n]
        BY <2>1, <2>2, <2>4, <3>2 DEF With
      <4>. QED
        BY <2>3, <4>1
    <3>. QED
      BY <3>1, <3>2
  <2>5. bills' = bills
    BY <2>1
  <2>. QED
    BY <2>4, <2>5 DEF StockInv
<1>6. ASSUME bills' = bills, counted' = counted, ~overtaken,
             DOMAIN materials' \subseteq DOMAIN materials,
             \A m \in DOMAIN materials' : materials'[m] = materials[m]
      PROVE  StockInv'
  <2>1. \A m \in DOMAIN materials :
          materials[m].stock = counted[m] + BoughtIn(bills, m)
    BY <1>1, <1>6 DEF StockInv
  <2>. QED
    BY <1>6, <2>1 DEF StockInv
<1>7. ASSUME NEW r \in Requests, WritePayment(r) PROVE StockInv'
  BY <1>6, <1>7 DEF WritePayment
<1>8. ASSUME NEW id \in DOMAIN payments, RemovePayment(id) PROVE StockInv'
  BY <1>6, <1>8 DEF RemovePayment
<1>9. ASSUME NEW m \in Materials, RemoveMaterial(m) PROVE StockInv'
  BY <1>6, <1>9 DEF RemoveMaterial, Without
<1>10. ASSUME UNCHANGED <<materials, bills, counted, overtaken>> PROVE StockInv'
  BY <1>6, <1>10
<1>. QED
  BY <1>3, <1>4, <1>5, <1>7, <1>8, <1>9, <1>10, StepsAre

\* The cost and the last price of a material that was bought are its history's.
CostsFit ==
  \A m \in DOMAIN materials :
    HistoryIn(bills, m) # {} =>
      /\ materials[m].last \in LatestPrices(HistoryIn(bills, m))
      /\ m \notin byHand =>
           materials[m].cost = weightedAverageCost(HistoryIn(bills, m))

CostsInv == ~overtaken => CostsFit

\* A bill without a line of a material is no part of its history.
LEMMA HistoryElsewhere ==
  ASSUME NEW v, NEW w, NEW b, DOMAIN w \ {b} = DOMAIN v \ {b},
         \A c \in DOMAIN v \ {b} : w[c] = v[c],
         NEW m,
         b \in DOMAIN v => m \notin materialIdsOf(v[b].items),
         b \in DOMAIN w => m \notin materialIdsOf(w[b].items)
  PROVE  HistoryIn(w, m) = HistoryIn(v, m)
<1>. DEFINE places(x, c) == {j \in DOMAIN x[c].items : x[c].items[j].material = m}
            entry(x, c, i) == [bill |-> c, place |-> i, date |-> x[c].date,
                               quantity |-> x[c].items[i].quantity,
                               price |-> x[c].items[i].price]
            Part(x, c) == {entry(x, c, i) : i \in places(x, c)}
<1>1. ASSUME NEW x PROVE HistoryIn(x, m) = UNION {Part(x, c) : c \in DOMAIN x}
  BY DEF HistoryIn
<1>2. ASSUME NEW x, b \in DOMAIN x => m \notin materialIdsOf(x[b].items)
      PROVE  \A l : l \in HistoryIn(x, m) <=>
                      \E c \in DOMAIN x \ {b} : l \in Part(x, c)
  <2>1. b \in DOMAIN x => Part(x, b) = {}
    BY <1>2 DEF materialIdsOf
  <2>2. HistoryIn(x, m) = UNION {Part(x, c) : c \in DOMAIN x}
    BY <1>1
  <2>. HIDE DEF Part
  <2>. QED
    BY <2>1, <2>2
<1>3. \A c \in DOMAIN v \ {b} : Part(w, c) = Part(v, c)
  OBVIOUS
<1>4. \A l : l \in HistoryIn(v, m) <=> \E c \in DOMAIN v \ {b} : l \in Part(v, c)
  BY <1>2
<1>5. \A l : l \in HistoryIn(w, m) <=> \E c \in DOMAIN w \ {b} : l \in Part(w, c)
  BY <1>2
<1>. HIDE DEF Part
<1>6. \A l : l \in HistoryIn(w, m) <=> l \in HistoryIn(v, m)
  BY <1>3, <1>4, <1>5
<1>. QED
  BY <1>6

\* A transaction leaves out no material whose history changes.
LEMMA CommitCosts ==
  ASSUME Inv, DecidedInv, CostsFit, NEW r \in Requests,
         CommitBill(r), ~OutOfDate(r)
  PROVE  CostsFit'
<1>. DEFINE id == job[r].id
            costs == job[r].costs
            bought == {m \in DOMAIN costs : costs[m] # {}}
<1>1. /\ bills' = Seen(r) /\ job[r].phase = "costing"
      /\ job[r].todo = {} /\ job[r].pending = <<>>
      /\ byHand' = byHand \ bought
      /\ DOMAIN materials' = DOMAIN materials
      /\ \A m \in DOMAIN materials :
           m \in bought =>
             /\ materials'[m].cost = weightedAverageCost(costs[m])
             /\ materials'[m].last \in LatestPrices(costs[m])
      /\ \A m \in DOMAIN materials :
           m \notin bought =>
             /\ materials'[m].cost = materials[m].cost
             /\ materials'[m].last = materials[m].last
  BY CommitIs
<1>2. BillJobFits(job[r]) /\ OpenFits(job[r]) /\ BillDecided(job[r])
  BY <1>1 DEF Inv, JobFits, DecidedInv, JobDecided
<1>3. job[r].kind = "create" => id \notin DOMAIN bills
  BY <1>1 DEF DecidedInv, FreshIds, Touching
<1>4. job[r].kind # "create" => id \in DOMAIN bills /\ job[r].was = bills[id].items
  BY <1>2 DEF OpenFits, OutOfDate
<1>5. \A m \in DOMAIN costs : costs[m] = HistoryIn(Seen(r), m)
  BY DEF OutOfDate
<1>6. affected(job[r].was, job[r].row.items) \subseteq DOMAIN costs
  BY <1>1, <1>2 DEF BillDecided
<1>7. ASSUME NEW m \in DOMAIN materials, m \notin DOMAIN costs
      PROVE  HistoryIn(Seen(r), m) = HistoryIn(bills, m)
  <2>1. m \notin materialIdsOf(job[r].was) /\ m \notin materialIdsOf(job[r].row.items)
    BY <1>6, <1>7 DEF affected
  <2>2. id \in DOMAIN bills => m \notin materialIdsOf(bills[id].items)
    BY <1>3, <1>4, <2>1
  <2>3. id \in DOMAIN Seen(r) => m \notin materialIdsOf(Seen(r)[id].items)
    <3>. SUFFICES ASSUME id \in DOMAIN Seen(r)
                  PROVE  m \notin materialIdsOf(Seen(r)[id].items)
      OBVIOUS
    <3>1. Seen(r)[id].items = IF job[r].replaces THEN job[r].row.items
                              ELSE bills[id].items
      BY <1>1, SeenIs
    <3>2. ~job[r].replaces => id \in DOMAIN bills
      BY <1>2, <1>4 DEF BillJobFits
    <3>. QED
      BY <2>1, <2>2, <3>1, <3>2
  <2>4. /\ DOMAIN Seen(r) \ {id} = DOMAIN bills \ {id}
        /\ \A b \in DOMAIN bills \ {id} : Seen(r)[b] = bills[b]
    BY <1>1, SeenIs
  <2>. HIDE DEF id
  <2>. QED
    BY <2>2, <2>3, <2>4, HistoryElsewhere
<1>. HIDE DEF id, costs
<1>8. ASSUME NEW m \in DOMAIN materials, HistoryIn(Seen(r), m) # {}
      PROVE  /\ materials'[m].last \in LatestPrices(HistoryIn(Seen(r), m))
             /\ m \notin byHand' =>
                  materials'[m].cost = weightedAverageCost(HistoryIn(Seen(r), m))
  <2>1. CASE m \in DOMAIN costs
    BY <1>1, <1>5, <1>8, <2>1
  <2>2. CASE m \notin DOMAIN costs
    <3>1. /\ materials'[m].cost = materials[m].cost
          /\ materials'[m].last = materials[m].last
          /\ m \notin byHand' => m \notin byHand
      BY <1>1, <2>2
    <3>. QED
      BY <1>7, <1>8, <2>2, <3>1 DEF CostsFit
  <2>. QED
    BY <2>1, <2>2
<1>. QED
  BY <1>1, <1>8 DEF CostsFit

LEMMA NextCosts ==
  Inv /\ DecidedInv /\ CostsInv /\ [Next]_vars => CostsInv'
<1>. SUFFICES ASSUME Inv, DecidedInv, CostsInv, [Next]_vars, ~overtaken'
              PROVE  CostsFit'
  BY DEF CostsInv
<1>1. ASSUME NEW r \in Requests, CommitBill(r) PROVE CostsFit'
  <2>1. ~overtaken /\ ~OutOfDate(r)
    BY <1>1, CommitIs
  <2>. QED
    BY <1>1, <2>1, CommitCosts DEF CostsInv
<1>2. ASSUME bills' = bills, ~overtaken,
             \A m \in DOMAIN materials' :
               HistoryIn(bills, m) # {} =>
                 /\ m \in DOMAIN materials
                 /\ materials'[m].last = materials[m].last
                 /\ m \notin byHand' =>
                      m \notin byHand /\ materials'[m].cost = materials[m].cost
      PROVE  CostsFit'
  BY <1>2 DEF CostsInv, CostsFit
<1>3. ASSUME NEW r \in Requests, WriteMaterial(r) PROVE CostsFit'
  <2>. DEFINE m == job[r].id
              edit == job[r].edit
  <2>1. /\ m \in DOMAIN materials /\ ~overtaken /\ job[r].phase = "stocking"
        /\ materials' = [materials EXCEPT ![m] = mergedInto(edit, materials[m])]
        /\ byHand' = IF "cost" \in DOMAIN edit THEN byHand \cup {m} ELSE byHand
        /\ bills' = bills
    BY <1>3 DEF WriteMaterial
  <2>2. "last" \notin DOMAIN edit
    BY <2>1, MaterialEditsAssumption DEF DecidedInv, JobDecided
  <2>3. DOMAIN materials[m] = Fields
    BY <2>1 DEF Inv, MaterialsFit
  <2>. HIDE DEF m, edit
  <2>4. /\ mergedInto(edit, materials[m]).last = materials[m].last
        /\ "cost" \notin DOMAIN edit =>
             mergedInto(edit, materials[m]).cost = materials[m].cost
    BY <2>2, <2>3 DEF mergedInto, Fields
  <2>5. \A n \in DOMAIN materials' :
          /\ n \in DOMAIN materials
          /\ materials'[n].last = materials[n].last
          /\ n \notin byHand' =>
               n \notin byHand /\ materials'[n].cost = materials[n].cost
    BY <2>1, <2>4
  <2>. QED
    BY <1>2, <2>1, <2>5
<1>4. ASSUME NEW m \in Materials, CreateMaterial(m) PROVE CostsFit'
  <2>1. /\ materials' = With(materials, m, Opening)
        /\ byHand' = byHand \cup {m}
        /\ bills' = bills /\ ~overtaken
    BY <1>4 DEF CreateMaterial
  <2>2. HistoryIn(bills, m) = {}
    BY <1>4, NewMaterial
  <2>3. \A n \in DOMAIN materials' :
          n # m => n \in DOMAIN materials /\ materials'[n] = materials[n]
    BY <2>1 DEF With
  <2>4. /\ bills' = bills /\ ~overtaken
        /\ byHand' = byHand \cup {m}
    BY <2>1
  <2>. QED
    BY <1>2, <2>2, <2>3, <2>4
<1>5. ASSUME NEW m \in Materials, RemoveMaterial(m) PROVE CostsFit'
  BY <1>2, <1>5 DEF RemoveMaterial, Without
<1>6. ASSUME UNCHANGED <<materials, bills, byHand, overtaken>> PROVE CostsFit'
  BY <1>2, <1>6
<1>7. ASSUME NEW r \in Requests, WritePayment(r) PROVE CostsFit'
  BY <1>2, <1>7 DEF WritePayment
<1>8. ASSUME NEW id \in DOMAIN payments, RemovePayment(id) PROVE CostsFit'
  BY <1>2, <1>8 DEF RemovePayment
<1>. QED
  BY <1>1, <1>3, <1>4, <1>5, <1>6, <1>7, <1>8, StepsAre

\* Rounding to the nearest is at most half a unit off.
LEMMA RoundedIs ==
  ASSUME NEW n \in Nat, NEW d \in Nat, d # 0
  PROVE  /\ Rounded(n, d) \in Nat
         /\ 2 * (d * Rounded(n, d) - 10000 * n) <= d
         /\ 2 * (10000 * n - d * Rounded(n, d)) <= d
<1>. DEFINE a == 20000 * n + d
            q == a \div (2 * d)
<1>1. a \in Nat /\ 2 * d \in Nat /\ 2 * d > 0
  OBVIOUS
<1>2. q \in Nat /\ (2 * d) * q <= a /\ a < (2 * d) * q + 2 * d
  <2>. HIDE DEF a
  <2>. QED
    BY <1>1
<1>3. Rounded(n, d) = q
  BY DEF Rounded
<1>. HIDE DEF q
<1>4. d * q \in Nat /\ (2 * d) * q = 2 * (d * q)
  BY <1>2
<1>. QED
  BY <1>2, <1>3, <1>4

QuantityIn(lines) == Over(lines, LAMBDA l : l.quantity)

SpentOn(lines) == Over(lines, LAMBDA l : l.quantity * l.price)

\* What is in stock is worth at its average cost what was spent on it, but for
\* that rounding.
LEMMA AverageIs ==
  ASSUME NEW lines, IsFiniteSet(lines), lines # {},
         \A l \in lines : l.quantity \in Nat /\ l.price \in Nat
  PROVE  LET quantity == QuantityIn(lines)
             spent == SpentOn(lines)
             cost == weightedAverageCost(lines)
         IN  /\ quantity \in Nat /\ spent \in Nat /\ cost \in Nat
             /\ 2 * (quantity * cost - 10000 * spent) <= quantity
             /\ 2 * (10000 * spent - quantity * cost) <= quantity
<1>. DEFINE f == [l \in lines |-> l.quantity]
            g == [l \in lines |-> l.quantity * l.price]
            h == [l \in lines |-> l.price]
            quantity == QuantityIn(lines)
            spent == SpentOn(lines)
            prices == Over(lines, LAMBDA l : l.price)
            cost == weightedAverageCost(lines)
<1>1. /\ quantity = SumFunctionOnSet(f, lines)
      /\ spent = SumFunctionOnSet(g, lines)
      /\ prices = SumFunctionOnSet(h, lines)
  BY DEF QuantityIn, SpentOn, Over, SumFunction
<1>2. /\ \A l \in lines : f[l] \in Nat /\ g[l] \in Nat /\ h[l] \in Nat
      /\ \A l \in lines : f[l] = 0 => g[l] = 0
  <2>. SUFFICES ASSUME NEW l \in lines
                PROVE  /\ f[l] \in Nat /\ g[l] \in Nat /\ h[l] \in Nat
                       /\ f[l] = 0 => g[l] = 0
    OBVIOUS
  <2>1. l.quantity \in Nat /\ l.price \in Nat /\ l.quantity * l.price \in Nat
    OBVIOUS
  <2>. QED
    BY <2>1
<1>3. /\ quantity # 0 => cost = Rounded(spent, quantity)
      /\ quantity = 0 => cost = Rounded(prices, Cardinality(lines))
  BY DEF weightedAverageCost, QuantityIn, SpentOn
<1>. HIDE DEF f, g, h, quantity, spent, prices, cost
<1>4. /\ quantity \in Nat /\ \A l \in lines : f[l] <= quantity
      /\ spent \in Nat /\ prices \in Nat
  BY <1>1, <1>2, SumCovers
<1>5. CASE quantity # 0
  <2>1. cost = Rounded(spent, quantity)
    BY <1>3, <1>5
  <2>2. /\ cost \in Nat
        /\ 2 * (quantity * cost - 10000 * spent) <= quantity
        /\ 2 * (10000 * spent - quantity * cost) <= quantity
    BY <1>4, <1>5, <2>1, RoundedIs
  <2>. QED
    BY <1>4, <2>2 DEF quantity, spent, cost
<1>6. CASE quantity = 0
  <2>1. \A l \in lines : g[l] = 0
    BY <1>2, <1>4, <1>6
  <2>2. spent = 0
    BY <1>1, <2>1, SumOfZeroes
  <2>3. Cardinality(lines) \in Nat /\ Cardinality(lines) # 0
    BY FS_CardinalityType, FS_EmptySet
  <2>4. cost \in Nat
    BY <1>3, <1>4, <1>6, <2>3, RoundedIs
  <2>5. /\ 2 * (quantity * cost - 10000 * spent) <= quantity
        /\ 2 * (10000 * spent - quantity * cost) <= quantity
    BY <1>6, <2>2, <2>4
  <2>. QED
    BY <1>4, <2>4, <2>5 DEF quantity, spent, cost
<1>. QED
  BY <1>5, <1>6

\* Stock that is counted and costed by its history is worth its bills.
LEMMA WorthIs ==
  Inv /\ FiguresInv /\ StockInv /\ CostsFit => StockIsWorthItsBills
<1>. SUFFICES ASSUME Inv, FiguresInv, StockInv, CostsFit,
                     NEW m \in DOMAIN materials \ byHand,
                     HistoryIn(bills, m) # {}, counted[m] = 0
              PROVE  LET spent == 10000 * SpentOn(HistoryIn(bills, m))
                         worth == stockValuation(materials).stockValue[m]
                     IN  /\ 2 * (worth - spent) <= materials[m].stock
                         /\ 2 * (spent - worth) <= materials[m].stock
  BY DEF StockIsWorthItsBills, SpentOn, Over
<1>. DEFINE lines == HistoryIn(bills, m)
            quantity == QuantityIn(lines)
            spent == SpentOn(lines)
            cost == weightedAverageCost(lines)
<1>1. /\ IsFiniteSet(lines)
      /\ \A l \in lines : l.quantity \in Nat /\ l.price \in Nat
  BY BillsAreView, HistoryIs
<1>2. /\ quantity \in Nat /\ spent \in Nat /\ cost \in Nat
      /\ 2 * (quantity * cost - 10000 * spent) <= quantity
      /\ 2 * (10000 * spent - quantity * cost) <= quantity
  BY <1>1, AverageIs
<1>3. materials[m].stock = counted[m] + quantity
  BY DEF StockInv, BoughtIn, QuantityIn
<1>4. materials[m].cost = cost
  BY DEF CostsFit
<1>. HIDE DEF quantity, spent, cost, lines
<1>5. materials[m].stock = quantity
  BY <1>2, <1>3
<1>6. materials[m].cost # None
  BY <1>2, <1>4 DEF None
<1>7. stockValuation(materials).stockValue[m] = quantity * cost
  BY <1>4, <1>5, <1>6 DEF stockValuation
<1>. QED
  BY <1>2, <1>5, <1>7 DEF spent, lines

\* Together: the books, as far as materials go.
LEMMA CostsAreHistory ==
  Inv /\ FiguresInv /\ StockIsCountPlusBills /\ CostsInv => CostIsHistory
<1>. SUFFICES ASSUME Inv, FiguresInv, StockIsCountPlusBills, CostsInv, ~overtaken
              PROVE  /\ \A m \in DOMAIN materials :
                          LET lines == HistoryIn(bills, m)
                          IN  lines # {} =>
                                /\ materials[m].last \in LatestPrices(lines)
                                /\ m \notin byHand =>
                                     materials[m].cost = weightedAverageCost(lines)
                     /\ StockIsWorthItsBills
  BY DEF CostIsHistory
<1>1. StockInv /\ CostsFit
  BY DEF StockIsCountPlusBills, StockInv, BoughtIn, CostsInv
<1>. QED
  BY <1>1, WorthIs DEF CostsFit

LEMMA InitBooks == Init => FiguresInv /\ DecidedInv /\ StockIsCountPlusBills /\ CostsInv
<1>. SUFFICES ASSUME Init
              PROVE  FiguresInv /\ DecidedInv /\ StockIsCountPlusBills /\ CostsInv
  OBVIOUS
<1>1. /\ bills = <<>> /\ payments = <<>>
      /\ \A r \in Requests : job[r] = Idle
      /\ materials = [m \in Materials \cap Known |-> Opening]
      /\ counted = [m \in DOMAIN materials |-> Opening.stock]
  BY DEF Init
<1>2. FiguresInv
  BY <1>1, OpeningAssumption DEF FiguresInv
<1>3. DecidedInv
  BY <1>1 DEF DecidedInv, FreshIds, Touching, JobDecided, Idle
<1>4. \A m : HistoryIn(bills, m) = {}
  BY <1>1 DEF HistoryIn
<1>5. CostsInv
  BY <1>4 DEF CostsInv, CostsFit
<1>6. \A m : BoughtIn(bills, m) = 0
  <2>. SUFFICES ASSUME NEW m PROVE BoughtIn(bills, m) = 0
    OBVIOUS
  <2>1. BoughtIn(bills, m)
          = SumFunctionOnSet([l \in HistoryIn(bills, m) |-> l.quantity], {})
    BY <1>4 DEF BoughtIn, Over, SumFunction
  <2>. QED
    BY <2>1, SumOfNone
<1>7. StockInv
  BY <1>1, <1>6, OpeningAssumption DEF StockInv
<1>. QED
  BY <1>2, <1>3, <1>5, <1>7 DEF StockIsCountPlusBills, StockInv, BoughtIn

\* What holds in every behaviour of what was written and decided.
LEMMA BooksHold == Spec => [](Inv /\ FiguresInv /\ DecidedInv)
<1>1. Inv /\ FiguresInv /\ DecidedInv /\ [Next]_vars
        => (Inv /\ FiguresInv /\ DecidedInv)'
  BY NextInv, NextFigures, NextDecided
<1>. QED
  BY <1>1, InitInv, InitBooks, PTL DEF Spec

\* Stock is what was counted plus what the bills brought, whatever bills are
\* created, edited and deleted at once, as long as nobody reverses lines that had
\* been replaced meanwhile.
THEOREM StockIsCountedAndBought == Spec => []StockIsCountPlusBills
<1>. QED
  BY BooksHold, InitBooks, NextStock, PTL DEF Spec

\* "Always exactly right": cost and last price stay those of the bills there are,
\* and so the valuation of the stock the money spent on it, to half a unit.
THEOREM CostsAreTheirHistory == Spec => []CostIsHistory
<1>1. Spec => []CostsInv
  BY BooksHold, InitBooks, NextCosts, PTL DEF Spec
<1>. QED
  BY <1>1, BooksHold, StockIsCountedAndBought, CostsAreHistory, PTL

-----------------------------------------------------------------------------
(* Totals, and what is spent. *)

TotalsFit ==
  \A b \in DOMAIN bills :
    bills[b].total = billTotals(bills[b].items, bills[b].tax, bills[b].discount)

\* A bill is written with the total of the lines it has then.
LEMMA NextTotals ==
  Inv /\ DecidedInv /\ TotalIsLines /\ [Next]_vars => TotalIsLines'
<1>. SUFFICES ASSUME Inv, DecidedInv, TotalIsLines, [Next]_vars, ~overtaken'
              PROVE  TotalsFit'
  BY DEF TotalIsLines, TotalsFit
<1>1. ASSUME NEW r \in Requests, CommitBill(r) PROVE TotalsFit'
  <2>. DEFINE id == job[r].id
              row == job[r].row
  <2>1. /\ bills' = Seen(r) /\ job[r].phase = "costing"
        /\ ~overtaken /\ ~OutOfDate(r)
    BY <1>1, CommitIs
  <2>2. BillJobFits(job[r]) /\ BillDecided(job[r])
    BY <2>1 DEF Inv, JobFits, DecidedInv, JobDecided
  <2>3. ASSUME NEW b \in DOMAIN bills', b # id
        PROVE  bills'[b].total
                 = billTotals(bills'[b].items, bills'[b].tax, bills'[b].discount)
    <3>1. b \in DOMAIN bills /\ bills'[b] = bills[b]
      BY <2>1, <2>3, SeenIs
    <3>. QED
      BY <2>1, <3>1 DEF TotalIsLines
  <2>4. ASSUME id \in DOMAIN bills'
        PROVE  bills'[id].total
                 = billTotals(bills'[id].items, bills'[id].tax, bills'[id].discount)
    <3>1. /\ job[r].kind # "remove"
          /\ bills'[id].total = row.total /\ bills'[id].tax = row.tax
          /\ bills'[id].discount = row.discount
          /\ bills'[id].items = IF job[r].replaces THEN row.items ELSE bills[id].items
      BY <2>1, <2>4, SeenIs
    <3>2. bills'[id].items = row.items
      BY <2>1, <2>2, <3>1 DEF BillJobFits, BillDecided, OutOfDate
    <3>. QED
      BY <2>2, <3>1, <3>2 DEF BillDecided
  <2>. QED
    BY <2>3, <2>4 DEF TotalsFit
<1>2. ASSUME bills' = bills, ~overtaken PROVE TotalsFit'
  BY <1>2 DEF TotalIsLines, TotalsFit
<1>3. ASSUME NEW r \in Requests, WritePayment(r) \/ WriteMaterial(r)
      PROVE  bills' = bills /\ ~overtaken
  BY <1>3 DEF WritePayment, WriteMaterial
<1>4. ASSUME \/ \E id \in DOMAIN payments : RemovePayment(id)
             \/ \E m \in Materials : CreateMaterial(m) \/ RemoveMaterial(m)
             \/ UNCHANGED <<bills, overtaken>>
      PROVE  bills' = bills /\ ~overtaken
  BY <1>4 DEF RemovePayment, CreateMaterial, RemoveMaterial
<1>. QED
  BY <1>1, <1>2, <1>3, <1>4, StepsAre

\* Every line of every bill, once.
LinesOf(view) ==
  UNION {{<<b, i>> : i \in DOMAIN view[b].items} : b \in DOMAIN view}

LineAt(view, l) == lineTotal(view[l[1]].items[l[2]])

LEMMA LinesAre ==
  ASSUME NEW view, ViewFits(view)
  PROVE  /\ IsFiniteSet(LinesOf(view))
         /\ \A l \in LinesOf(view) : LineAt(view, l) \in Int
         /\ SumFunctionOnSet([l \in LinesOf(view) |-> LineAt(view, l)], LinesOf(view))
              = SumFunctionOnSet([b \in DOMAIN view |-> subtotal(view[b].items)],
                                 DOMAIN view)
<1>. DEFINE All == LinesOf(view)
            Part(b) == {<<b, i>> : i \in DOMAIN view[b].items}
            part == [b \in DOMAIN view |-> Part(b)]
            f == [l \in All |-> LineAt(view, l)]
            g == [b \in DOMAIN view |-> subtotal(view[b].items)]
            K == DOMAIN view
<1>1. All = UNION {Part(b) : b \in DOMAIN view}
  BY DEF LinesOf
<1>2. \A x : x \in All <=> \E b \in K : x \in part[b]
  <2>. HIDE DEF Part, All
  <2>. QED
    BY <1>1
<1>3. ASSUME NEW b \in K
      PROVE  /\ IsFiniteSet(part[b])
             /\ \A l \in part[b] : l[1] = b /\ l \in All /\ f[l] \in Int
             /\ g[b] = SumFunctionOnSet(f, part[b])
  <2>. DEFINE S == DOMAIN view[b].items
              e == [i \in S |-> <<b, i>>]
              h == [i \in S |-> lineTotal(view[b].items[i])]
  <2>1. view[b].items \in Items
    BY DEF ViewFits
  <2>2. IsFiniteSet(S)
    BY <2>1, ItemsAre
  <2>3. \A i \in S : h[i] \in Int
    <3>. SUFFICES ASSUME NEW i \in S PROVE lineTotal(view[b].items[i]) \in Int
      OBVIOUS
    <3>1. view[b].items[i].quantity \in Nat /\ view[b].items[i].price \in Nat
      BY <2>1, ItemsAre
    <3>. QED
      BY <3>1 DEF lineTotal
  <2>4. /\ \A i \in S : e[i] \in Part(b) /\ e[i][1] = b /\ e[i][2] = i
        /\ \A l \in Part(b) : \E i \in S : l = e[i]
    OBVIOUS
  <2>5. part[b] = Part(b) /\ Part(b) \subseteq All
    <3>. HIDE DEF Part, All
    <3>. QED
      BY <1>2
  <2>6. \A i \in S : LineAt(view, e[i]) = h[i]
    BY <2>4 DEF LineAt
  <2>7. g[b] = SumFunctionOnSet(h, S)
    BY DEF subtotal, Over, SumFunction
  <2>. HIDE DEF S, e, h, Part, part, All, g, K
  <2>8. \A i \in S : f[e[i]] = h[i]
    BY <2>4, <2>5, <2>6
  <2>. HIDE DEF f
  <2>9. Part(b) = {e[i] : i \in S}
    BY <2>4
  <2>10. SumFunctionOnSet(f, {e[i] : i \in S}) = SumFunctionOnSet(h, S)
    <3>1. \A i, j \in S : e[i] = e[j] => i = j
      BY <2>4
    <3>2. \A i \in S : f[e[i]] \in Int /\ h[i] = f[e[i]]
      BY <2>3, <2>8
    <3>. QED
      BY <2>2, <3>1, <3>2, SumImage
  <2>11. IsFiniteSet({e[i] : i \in S})
    BY <2>2, ImageIsFinite
  <2>12. \A l \in Part(b) : l[1] = b /\ l \in All /\ f[l] \in Int
    BY <2>3, <2>4, <2>5, <2>8
  <2>. QED
    BY <2>5, <2>7, <2>9, <2>10, <2>11, <2>12
<1>4. IsFiniteSet(K)
  BY DEF ViewFits
<1>. HIDE DEF Part, part, All, g, K
<1>5. \A l \in All : LineAt(view, l) \in Int
  BY <1>2, <1>3 DEF f
<1>. HIDE DEF f
<1>6. /\ IsFiniteSet(K) /\ \A k \in K : IsFiniteSet(part[k])
      /\ \A k, j \in K : k # j => part[k] \cap part[j] = {}
      /\ \A k \in K : \A x \in part[k] : f[x] \in Int
      /\ \A k \in K : g[k] = SumFunctionOnSet(f, part[k])
      /\ \A x : x \in All <=> \E k \in K : x \in part[k]
  BY <1>2, <1>3, <1>4
<1>7. IsFiniteSet(All) /\ SumFunctionOnSet(f, All) = SumFunctionOnSet(g, K)
  BY <1>6, SumUnion, SMTT(60)
<1>. QED
  BY <1>5, <1>7, Zenon DEF f, g, K, All

\* Vendor by vendor it is the same as altogether.
LEMMA SpendByVendor ==
  ASSUME Inv, FiguresInv
  PROVE  LET spend == purchaseSummary(bills)
         IN  spend.totalSpend
               = SumFunctionOnSet(spend.byVendor, DOMAIN spend.byVendor)
<1>. DEFINE S == DOMAIN bills
            f == [b \in S |-> bills[b].total]
            key == [b \in S |-> bills[b].vendor]
            K == {bills[b].vendor : b \in S}
            P == [v \in K |-> BillsOf(bills, v)]
            h == [v \in K |-> [b \in BillsOf(bills, v) |-> bills[b].total]]
            g == [v \in K |-> Over(BillsOf(bills, v), LAMBDA b : bills[b].total)]
            spend == purchaseSummary(bills)
<1>1. spend.byVendor = g /\ DOMAIN g = K /\ spend.totalSpend = SumFunctionOnSet(f, S)
  BY DEF purchaseSummary, Over, SumFunction
<1>2. IsFiniteSet(S) /\ \A b \in S : f[b] \in Int
  BY BillsAreView DEF ViewFits, FiguresInv, FiguresFit
<1>3. (\A b \in S : key[b] \in K) /\ IsFiniteSet(K)
  <2>1. K = {key[b] : b \in S} /\ \A b \in S : key[b] \in K
    OBVIOUS
  <2>. HIDE DEF S, key, K
  <2>. QED
    BY <1>2, <2>1, ImageIsFinite
<1>4. /\ \A v \in K : P[v] \subseteq S
      /\ \A v \in K : \A b \in S : b \in P[v] <=> key[b] = v
  BY DEF BillsOf
<1>5. \A v \in K : \A b \in P[v] : h[v][b] = f[b]
  BY DEF BillsOf
<1>6. \A v \in K : g[v] = SumFunctionOnSet(h[v], P[v])
  BY DEF Over, SumFunction
<1>. HIDE DEF S, f, key, K, P, h, g, spend
<1>7. SumFunctionOnSet(f, S) = SumFunctionOnSet(g, K)
  <2>1. /\ IsFiniteSet(S) /\ \A x \in S : f[x] \in Int
        /\ IsFiniteSet(K) /\ \A x \in S : key[x] \in K
        /\ \A k \in K : P[k] \subseteq S
        /\ \A k \in K : \A x \in S : x \in P[k] <=> key[x] = k
        /\ \A k \in K : \A x \in P[k] : h[k][x] = f[x]
        /\ \A k \in K : g[k] = SumFunctionOnSet(h[k], P[k])
    BY <1>2, <1>3, <1>4, <1>5, <1>6
  <2>. QED
    BY <2>1, SumByKey, SMTT(60)
<1>8. spend.totalSpend = SumFunctionOnSet(spend.byVendor, DOMAIN spend.byVendor)
  BY <1>1, <1>7
<1>. QED
  BY <1>8 DEF spend

\* So are the lines material by material.
LEMMA SpendByMaterial ==
  ASSUME Inv
  PROVE  LET spend == purchaseSummary(bills)
         IN  SumFunctionOnSet(spend.byMaterial, DOMAIN spend.byMaterial)
               = SumFunctionOnSet([b \in DOMAIN bills |-> subtotal(bills[b].items)],
                                  DOMAIN bills)
<1>. DEFINE S == LinesOf(bills)
            item(l) == bills[l[1]].items[l[2]]
            f == [l \in S |-> LineAt(bills, l)]
            key == [l \in S |-> item(l).material]
            K == {item(l).material : l \in S}
            P == [m \in K |-> {l \in S : item(l).material = m}]
            h == [m \in K |-> [l \in {k \in S : item(k).material = m} |->
                                 lineTotal(item(l))]]
            g == [m \in K |-> Over({l \in S : item(l).material = m},
                                   LAMBDA l : lineTotal(item(l)))]
            spend == purchaseSummary(bills)
<1>1. spend.byMaterial = g /\ DOMAIN g = K
  BY DEF purchaseSummary, LinesOf
<1>2. /\ IsFiniteSet(S) /\ \A l \in S : f[l] \in Int
      /\ SumFunctionOnSet(f, S)
           = SumFunctionOnSet([b \in DOMAIN bills |-> subtotal(bills[b].items)],
                              DOMAIN bills)
  BY BillsAreView, LinesAre
<1>3. (\A l \in S : key[l] \in K) /\ IsFiniteSet(K)
  <2>1. K = {key[l] : l \in S} /\ \A l \in S : key[l] \in K
    OBVIOUS
  <2>. HIDE DEF S, key, K
  <2>. QED
    BY <1>2, <2>1, ImageIsFinite
<1>4. /\ \A m \in K : P[m] \subseteq S
      /\ \A m \in K : \A l \in S : l \in P[m] <=> key[l] = m
  OBVIOUS
<1>5. \A m \in K : \A l \in P[m] : h[m][l] = f[l]
  BY DEF LineAt
<1>6. \A m \in K : g[m] = SumFunctionOnSet(h[m], P[m])
  BY DEF Over, SumFunction
<1>. HIDE DEF S, f, key, K, P, h, g, spend
<1>7. SumFunctionOnSet(f, S) = SumFunctionOnSet(g, K)
  <2>1. /\ IsFiniteSet(S) /\ \A x \in S : f[x] \in Int
        /\ IsFiniteSet(K) /\ \A x \in S : key[x] \in K
        /\ \A k \in K : P[k] \subseteq S
        /\ \A k \in K : \A x \in S : x \in P[k] <=> key[x] = k
        /\ \A k \in K : \A x \in P[k] : h[k][x] = f[x]
        /\ \A k \in K : g[k] = SumFunctionOnSet(h[k], P[k])
    BY <1>2, <1>3, <1>4, <1>5, <1>6
  <2>. QED
    BY <2>1, SumByKey, SMTT(60)
<1>8. SumFunctionOnSet(spend.byMaterial, DOMAIN spend.byMaterial)
        = SumFunctionOnSet([b \in DOMAIN bills |-> subtotal(bills[b].items)],
                           DOMAIN bills)
  BY <1>1, <1>2, <1>7
<1>. QED
  BY <1>8 DEF spend

\* What was billed is what the lines come to and the charges.
LEMMA SpendIs ==
  ASSUME Inv, FiguresInv, TotalsFit
  PROVE  LET charge == [b \in DOMAIN bills |-> bills[b].tax - bills[b].discount]
             lines == [b \in DOMAIN bills |-> subtotal(bills[b].items)]
         IN  purchaseSummary(bills).totalSpend
               = SumFunctionOnSet(charge, DOMAIN bills)
                   + SumFunctionOnSet(lines, DOMAIN bills)
<1>. DEFINE S == DOMAIN bills
            charge == [b \in S |-> bills[b].tax - bills[b].discount]
            lines == [b \in S |-> subtotal(bills[b].items)]
            total == [b \in S |-> bills[b].total]
<1>1. IsFiniteSet(S)
  BY BillsAreView DEF ViewFits
<1>2. ASSUME NEW b \in S
      PROVE  charge[b] \in Int /\ lines[b] \in Int /\ total[b] = charge[b] + lines[b]
  <2>1. FiguresFit(bills[b]) /\ bills[b].items \in Items
    BY DEF FiguresInv, Inv, BillsFit, RowFits
  <2>2. subtotal(bills[b].items) \in Int
    BY <2>1, SubtotalIs
  <2>. QED
    BY <2>1, <2>2 DEF TotalsFit, FiguresFit, billTotals
<1>3. purchaseSummary(bills).totalSpend = SumFunctionOnSet(total, S)
  BY DEF purchaseSummary, Over, SumFunction
<1>. HIDE DEF S, charge, lines, total
<1>4. SumFunctionOnSet(total, S)
        = SumFunctionOnSet(charge, S) + SumFunctionOnSet(lines, S)
  BY <1>1, <1>2, SumPlus
<1>5. purchaseSummary(bills).totalSpend
        = SumFunctionOnSet(charge, S) + SumFunctionOnSet(lines, S)
  BY <1>3, <1>4
<1>. QED
  BY <1>5 DEF S, charge, lines

LEMMA SpendAdds == Inv /\ FiguresInv /\ TotalIsLines => SpendAddsUp
<1>. SUFFICES ASSUME Inv, FiguresInv, TotalIsLines PROVE SpendAddsUp
  OBVIOUS
<1>. DEFINE spend == purchaseSummary(bills)
            charge == [b \in DOMAIN bills |-> bills[b].tax - bills[b].discount]
<1>1. ASSUME ~overtaken
      PROVE  spend.totalSpend
               = SumFunctionOnSet(charge, DOMAIN bills)
                   + SumFunctionOnSet(spend.byMaterial, DOMAIN spend.byMaterial)
  <2>1. TotalsFit
    BY <1>1 DEF TotalIsLines, TotalsFit
  <2>. QED
    BY <2>1, SpendIs, SpendByMaterial
<1>2. spend.totalSpend = SumFunctionOnSet(spend.byVendor, DOMAIN spend.byVendor)
  BY SpendByVendor
<1>. HIDE DEF spend
<1>3. Over(DOMAIN bills, LAMBDA b : bills[b].tax - bills[b].discount)
        = SumFunctionOnSet(charge, DOMAIN bills)
  BY DEF Over, SumFunction
<1>4. /\ Over(DOMAIN spend.byMaterial, LAMBDA m : spend.byMaterial[m])
           = SumFunctionOnSet([m \in DOMAIN spend.byMaterial |-> spend.byMaterial[m]],
                              DOMAIN spend.byMaterial)
      /\ Over(DOMAIN spend.byVendor, LAMBDA v : spend.byVendor[v])
           = SumFunctionOnSet([v \in DOMAIN spend.byVendor |-> spend.byVendor[v]],
                              DOMAIN spend.byVendor)
  BY DEF Over, SumFunction
<1>5. /\ [m \in DOMAIN spend.byMaterial |-> spend.byMaterial[m]] = spend.byMaterial
      /\ [v \in DOMAIN spend.byVendor |-> spend.byVendor[v]] = spend.byVendor
  BY DEF spend, purchaseSummary
<1>. QED
  BY <1>1, <1>2, <1>3, <1>4, <1>5 DEF SpendAddsUp, spend

-----------------------------------------------------------------------------
(* Payments. *)

PaysFit(ps) == IsFiniteSet(DOMAIN ps) /\ \A p \in DOMAIN ps : ps[p].amount \in Nat

LEMMA PaymentsAreFinite == Inv /\ FiguresInv => PaysFit(payments)
<1>. SUFFICES ASSUME Inv, FiguresInv PROVE PaysFit(payments)
  OBVIOUS
<1>1. made.payments \in Nat /\ DOMAIN payments \subseteq 1 .. made.payments
  BY PaymentBound DEF Inv, PaymentsFit, Counts
<1>2. IsFiniteSet(DOMAIN payments)
  <2>1. IsFiniteSet(1 .. made.payments)
    BY <1>1, FS_Interval
  <2>. QED
    BY <1>1, <2>1, FS_Subset
<1>. QED
  BY <1>2 DEF PaysFit, FiguresInv, SumFits

\* So they are after a step.
LEMMA PaymentsStayFinite ==
  Inv /\ FiguresInv /\ DecidedInv /\ [Next]_vars => PaysFit(payments')
<1>. SUFFICES ASSUME Inv, FiguresInv, DecidedInv, [Next]_vars
              PROVE  PaysFit(payments')
  OBVIOUS
<1>1. Inv' /\ FiguresInv'
  BY NextInv, NextFigures
<1>2. made'.payments \in Nat /\ DOMAIN payments' \subseteq 1 .. made'.payments
  BY <1>1, PaymentBound DEF Inv, PaymentsFit, Counts
<1>3. IsFiniteSet(DOMAIN payments')
  <2>1. IsFiniteSet(1 .. made'.payments)
    BY <1>2, FS_Interval
  <2>. QED
    BY <1>2, <2>1, FS_Subset
<1>. QED
  BY <1>1, <1>3 DEF PaysFit, FiguresInv, SumFits

\* Some payments come to a whole number, no more than with others, and one more
\* adds what it is of.
LEMMA AmountIs ==
  ASSUME NEW ps, PaysFit(ps), NEW ids \in SUBSET DOMAIN ps
  PROVE  /\ IsFiniteSet(ids) /\ AmountOf(ps, ids) \in Nat
         /\ AmountOf(ps, ids)
              = SumFunctionOnSet([p \in DOMAIN ps |-> ps[p].amount], ids)
<1>. DEFINE f == [p \in DOMAIN ps |-> ps[p].amount]
            g == [p \in ids |-> ps[p].amount]
<1>1. IsFiniteSet(ids)
  BY FS_Subset DEF PaysFit
<1>2. \A p \in ids : f[p] \in Nat /\ g[p] = f[p]
  BY DEF PaysFit
<1>3. AmountOf(ps, ids) = SumFunctionOnSet(g, ids)
  BY DEF AmountOf, Over, SumFunction
<1>. HIDE DEF f, g
<1>4. SumFunctionOnSet(g, ids) = SumFunctionOnSet(f, ids)
  BY <1>1, <1>2, SumSame
<1>5. SumFunctionOnSet(f, ids) \in Nat
  BY <1>1, <1>2, SumCovers
<1>. QED
  BY <1>1, <1>3, <1>4, <1>5 DEF f

LEMMA FewerPayments ==
  ASSUME NEW ps, PaysFit(ps), NEW all \in SUBSET DOMAIN ps, NEW some \in SUBSET all
  PROVE  AmountOf(ps, some) <= AmountOf(ps, all)
<1>. DEFINE f == [p \in DOMAIN ps |-> ps[p].amount]
            rest == all \ some
<1>1. \A p \in DOMAIN ps : f[p] \in Nat
  BY DEF PaysFit
<1>2. /\ IsFiniteSet(some) /\ IsFiniteSet(rest)
      /\ some \cap rest = {} /\ some \cup rest = all
  <2>1. IsFiniteSet(all)
    BY AmountIs
  <2>. QED
    BY <2>1, FS_Subset
<1>3. /\ AmountOf(ps, some) = SumFunctionOnSet(f, some)
      /\ AmountOf(ps, all) = SumFunctionOnSet(f, all)
      /\ AmountOf(ps, some) \in Nat
  BY AmountIs
<1>. HIDE DEF f, rest
<1>4. \A p \in some \cup rest : f[p] \in Nat
  BY <1>1, <1>2
<1>5. SumFunctionOnSet(f, some \cup rest)
        = SumFunctionOnSet(f, some) + SumFunctionOnSet(f, rest)
  BY <1>2, <1>4, SumSplit
<1>6. SumFunctionOnSet(f, rest) \in Nat
  BY <1>2, <1>4, SumCovers
<1>. QED
  BY <1>2, <1>3, <1>5, <1>6

LEMMA SameAmount ==
  ASSUME NEW ps, PaysFit(ps), NEW qs, PaysFit(qs), NEW ids \in SUBSET DOMAIN ps,
         ids \subseteq DOMAIN qs, \A p \in ids : qs[p].amount = ps[p].amount
  PROVE  AmountOf(qs, ids) = AmountOf(ps, ids)
<1>. DEFINE f == [p \in ids |-> ps[p].amount]
            g == [p \in ids |-> qs[p].amount]
<1>1. f = g
  OBVIOUS
<1>2. AmountOf(ps, ids) = SumFunctionOnSet(f, ids)
      /\ AmountOf(qs, ids) = SumFunctionOnSet(g, ids)
  BY DEF AmountOf, Over, SumFunction
<1>. QED
  BY <1>1, <1>2

\* A bill whose payments become no more is paid no more of.
LEMMA PaidNoMore ==
  ASSUME NEW ps, PaysFit(ps), NEW qs, PaysFit(qs), NEW b,
         PaymentsOn(qs, b) \subseteq PaymentsOn(ps, b),
         \A p \in PaymentsOn(qs, b) : qs[p].amount = ps[p].amount
  PROVE  /\ paidAmount(ps, b) \in Nat /\ paidAmount(qs, b) \in Nat
         /\ paidAmount(qs, b) <= paidAmount(ps, b)
<1>. DEFINE some == PaymentsOn(qs, b)
            all == PaymentsOn(ps, b)
<1>1. /\ some \subseteq all /\ all \subseteq DOMAIN ps /\ some \subseteq DOMAIN ps
      /\ some \subseteq DOMAIN qs
      /\ \A p \in some : qs[p].amount = ps[p].amount
  BY DEF PaymentsOn
<1>. HIDE DEF some, all
<1>2. AmountOf(ps, all) \in Nat /\ AmountOf(qs, some) \in Nat
  BY <1>1, AmountIs
<1>3. AmountOf(qs, some) = AmountOf(ps, some)
  BY <1>1, SameAmount
<1>4. AmountOf(ps, some) <= AmountOf(ps, all)
  BY <1>1, FewerPayments
<1>. QED
  BY <1>2, <1>3, <1>4 DEF paidAmount, some, all

\* A payment is for a bill of the vendor it went to, but for the bills that were
\* given to another vendor or lowered under their payments.
PaymentsStayHome ==
  \A p \in DOMAIN payments :
    payments[p].bill \notin {None} \cup repriced =>
      payments[p].vendor = bills[payments[p].bill].vendor

HomeInv == ~overtaken => PaymentsStayHome

RoomFits ==
  \A b \in DOMAIN bills \ repriced :
    PaymentsOn(payments, b) # {} => outstandingAmount(bills, payments, b) >= 0

\* What the check has read of the bill still holds when a payment is written, if
\* nothing was overtaken.
LEMMA PaymentFitsStill ==
  ASSUME Inv, DecidedInv, NEW r \in Requests, WritePayment(r), ~overtaken',
         job[r].row.bill # None
  PROVE  LET row == job[r].row
         IN  /\ row.bill \in DOMAIN bills
             /\ row.vendor = bills[row.bill].vendor
             /\ row.amount <= bills[row.bill].total
                  - AmountOf(payments,
                             PaymentsOn(payments, row.bill) \ {job[r].id})
<1>. DEFINE row == job[r].row
            others == AmountOf(payments, PaymentsOn(payments, row.bill) \ {job[r].id})
<1>1. /\ job[r].phase = "paying" /\ row.bill \in DOMAIN bills \cup {None}
      /\ overtaken' = (overtaken \/ Reading(row.bill, job[r].id) # job[r].seen)
  BY DEF WritePayment
<1>2. Reading(row.bill, job[r].id) = job[r].seen /\ row.bill \in DOMAIN bills
  BY <1>1
<1>3. job[r].seen = <<bills[row.bill].vendor, bills[row.bill].total, others>>
  BY <1>2 DEF Reading
<1>4. /\ row.vendor = job[r].seen[1]
      /\ row.amount <= job[r].seen[2] - job[r].seen[3]
  BY <1>1 DEF DecidedInv, JobDecided, PayDecided
<1>. QED
  BY <1>2, <1>3, <1>4

\* What a commit makes of the bills that were lowered or given away.
LEMMA CommitReprices ==
  ASSUME NEW r \in Requests, CommitBill(r)
  PROVE  /\ repriced \ {job[r].id} \subseteq repriced'
         /\ job[r].kind = "update" =>
              /\ repriced \subseteq repriced'
              /\ PaymentsOn(payments, job[r].id) # {}
                   /\ (job[r].row.total < bills[job[r].id].total
                         \/ job[r].row.vendor # bills[job[r].id].vendor)
                 => job[r].id \in repriced'
<1>1. repriced' =
        CASE job[r].kind = "remove" -> repriced \ {job[r].id}
          [] job[r].kind = "update" /\ PaymentsOn(payments, job[r].id) # {}
               /\ (job[r].row.total < bills[job[r].id].total
                     \/ job[r].row.vendor # bills[job[r].id].vendor) ->
               repriced \cup {job[r].id}
          [] OTHER -> repriced
  BY DEF CommitBill
<1>. QED
  BY <1>1

\* A payment written for a bill adds what it is of to the bill's others.
LEMMA PaidWith ==
  ASSUME NEW ps, PaysFit(ps), NEW id, NEW row,
         NEW qs, qs = With(ps, id, row), PaysFit(qs)
  PROVE  LET others == PaymentsOn(ps, row.bill) \ {id}
         IN  /\ AmountOf(ps, others) \in Nat /\ row.amount \in Nat
             /\ paidAmount(qs, row.bill) = AmountOf(ps, others) + row.amount
<1>. DEFINE b == row.bill
            others == PaymentsOn(ps, b) \ {id}
            f == [p \in DOMAIN qs |-> qs[p].amount]
<1>1. /\ DOMAIN qs = DOMAIN ps \cup {id} /\ qs[id] = row
      /\ \A p \in DOMAIN ps \ {id} : qs[p] = ps[p]
  BY DEF With
<1>2. /\ others \subseteq DOMAIN ps /\ others \subseteq DOMAIN qs
      /\ id \in DOMAIN qs /\ id \notin others
      /\ \A p \in others : qs[p].amount = ps[p].amount
      /\ PaymentsOn(qs, b) = others \cup {id}
  BY <1>1 DEF PaymentsOn
<1>3. /\ \A p \in DOMAIN qs : f[p] \in Nat
      /\ f[id] = row.amount /\ row.amount \in Nat
  BY <1>1 DEF PaysFit
<1>. HIDE DEF others
<1>4. /\ IsFiniteSet(others) /\ AmountOf(ps, others) \in Nat
      /\ AmountOf(qs, others) = SumFunctionOnSet(f, others)
  BY <1>2, AmountIs
<1>5. AmountOf(qs, others \cup {id}) = SumFunctionOnSet(f, others \cup {id})
  <2>1. others \cup {id} \in SUBSET DOMAIN qs
    BY <1>2
  <2>. QED
    BY <2>1, AmountIs
<1>6. AmountOf(qs, others) = AmountOf(ps, others)
  BY <1>2, SameAmount
<1>. HIDE DEF f, b
<1>7. \A p \in others : f[p] \in Int
  BY <1>2, <1>3
<1>8. f[id] \in Int
  BY <1>3
<1>9. SumFunctionOnSet(f, others \cup {id}) = SumFunctionOnSet(f, others) + f[id]
  BY <1>2, <1>4, <1>7, <1>8, SumInsert
<1>10. paidAmount(qs, b) = AmountOf(ps, others) + row.amount
  BY <1>2, <1>3, <1>4, <1>5, <1>6, <1>9 DEF paidAmount
<1>. QED
  BY <1>3, <1>4, <1>10 DEF others, b

\* A bill taken from its vendor under its payments is noted.
LEMMA CommitHome ==
  ASSUME Inv, DecidedInv, PaymentsStayHome, NEW r \in Requests, CommitBill(r)
  PROVE  PaymentsStayHome'
<1>. DEFINE id == job[r].id
            row == job[r].row
<1>1. bills' = Seen(r) /\ job[r].phase = "costing"
  BY CommitIs
<1>2. BillJobFits(job[r]) /\ OpenFits(job[r])
  BY <1>1 DEF Inv, JobFits
<1>3. job[r].kind = "create" => id \notin DOMAIN bills
  BY <1>1 DEF DecidedInv, FreshIds, Touching
<1>. SUFFICES ASSUME NEW p \in DOMAIN payments',
                     payments'[p].bill \notin {None} \cup repriced'
              PROVE  payments'[p].vendor = bills'[payments'[p].bill].vendor
  BY DEF PaymentsStayHome
<1>. DEFINE b == payments[p].bill
<1>4. /\ p \in DOMAIN payments /\ payments'[p].vendor = payments[p].vendor
      /\ payments'[p].bill = b /\ b # None
      /\ ~(job[r].kind = "remove" /\ b = id)
  BY CommitPays
<1>5. b \in DOMAIN bills
  BY <1>4 DEF Inv, PaymentsFit
<1>6. CASE b # id
  <2>1. bills'[b] = bills[b]
    BY <1>1, <1>5, <1>6, SeenIs
  <2>2. b \notin repriced
    BY <1>4, <1>6, CommitReprices
  <2>. QED
    BY <1>4, <2>1, <2>2 DEF PaymentsStayHome
<1>7. CASE b = id
  <2>1. job[r].kind = "update" /\ id \notin repriced'
    BY <1>2, <1>3, <1>4, <1>5, <1>7 DEF BillJobFits
  <2>2. PaymentsOn(payments, id) # {}
    BY <1>4, <1>7 DEF PaymentsOn
  <2>3. row.vendor = bills[id].vendor /\ b \notin repriced
    BY <1>7, <2>1, <2>2, CommitReprices
  <2>4. bills'[id].vendor = row.vendor
    BY <1>1, <2>1, SeenIs
  <2>. QED
    BY <1>4, <1>7, <2>3, <2>4 DEF PaymentsStayHome
<1>. QED
  BY <1>6, <1>7

LEMMA NextHome == Inv /\ DecidedInv /\ HomeInv /\ [Next]_vars => HomeInv'
<1>. SUFFICES ASSUME Inv, DecidedInv, HomeInv, [Next]_vars, ~overtaken'
              PROVE  PaymentsStayHome'
  BY DEF HomeInv
<1>1. ASSUME NEW r \in Requests, CommitBill(r) PROVE PaymentsStayHome'
  <2>1. ~overtaken
    BY <1>1, CommitIs
  <2>. QED
    BY <1>1, <2>1, CommitHome DEF HomeInv
<1>2. ASSUME NEW r \in Requests, WritePayment(r) PROVE PaymentsStayHome'
  <2>. DEFINE id == job[r].id
              row == job[r].row
  <2>1. /\ ~overtaken /\ bills' = bills /\ repriced' = repriced
        /\ payments' = With(payments, id, row)
    BY <1>2 DEF WritePayment
  <2>2. row.bill # None => row.vendor = bills[row.bill].vendor
    BY <1>2, PaymentFitsStill
  <2>3. payments'[id] = row
    BY <2>1 DEF With
  <2>4. \A p \in DOMAIN payments' \ {id} :
          p \in DOMAIN payments /\ payments'[p] = payments[p]
    BY <2>1 DEF With
  <2>5. /\ bills' = bills /\ repriced' = repriced /\ PaymentsStayHome
    BY <2>1 DEF HomeInv
  <2>. HIDE DEF id, row
  <2>. QED
    BY <2>2, <2>3, <2>4, <2>5 DEF PaymentsStayHome
<1>3. ASSUME bills' = bills, repriced' = repriced, ~overtaken,
             \A p \in DOMAIN payments' :
               p \in DOMAIN payments /\ payments'[p] = payments[p]
      PROVE  PaymentsStayHome'
  BY <1>3 DEF HomeInv, PaymentsStayHome
<1>4. ASSUME NEW id \in DOMAIN payments, RemovePayment(id) PROVE PaymentsStayHome'
  BY <1>3, <1>4 DEF RemovePayment, Without
<1>5. ASSUME NEW r \in Requests, WriteMaterial(r) PROVE PaymentsStayHome'
  BY <1>3, <1>5 DEF WriteMaterial
<1>6. ASSUME NEW m \in Materials, CreateMaterial(m) \/ RemoveMaterial(m)
      PROVE  PaymentsStayHome'
  BY <1>3, <1>6 DEF CreateMaterial, RemoveMaterial
<1>7. ASSUME UNCHANGED <<bills, payments, repriced, overtaken>>
      PROVE  PaymentsStayHome'
  BY <1>3, <1>7
<1>. QED
  BY <1>1, <1>2, <1>4, <1>5, <1>6, <1>7, StepsAre

\* Where a bill's total is no lower and its payments no more, it is still not
\* overpaid.
LEMMA RoomStays ==
  ASSUME Inv, FiguresInv, DecidedInv, [Next]_vars, RoomFits,
         NEW b \in DOMAIN bills \ repriced,
         bills'[b].total >= bills[b].total, b \in DOMAIN bills',
         PaymentsOn(payments', b) \subseteq PaymentsOn(payments, b),
         \A p \in PaymentsOn(payments', b) : payments'[p].amount = payments[p].amount,
         PaymentsOn(payments', b) # {}
  PROVE  outstandingAmount(bills', payments', b) >= 0
<1>1. PaysFit(payments) /\ PaysFit(payments')
  BY PaymentsAreFinite, PaymentsStayFinite
<1>2. /\ paidAmount(payments, b) \in Nat /\ paidAmount(payments', b) \in Nat
      /\ paidAmount(payments', b) <= paidAmount(payments, b)
  BY <1>1, PaidNoMore
<1>3. outstandingAmount(bills, payments, b) >= 0
  BY DEF RoomFits
<1>4. FiguresInv'
  BY NextFigures
<1>5. bills[b].total \in Int /\ bills'[b].total \in Int
  BY <1>4 DEF FiguresInv, FiguresFit
<1>. QED
  BY <1>2, <1>3, <1>5 DEF outstandingAmount

RoomInv == ~overtaken => RoomFits

LEMMA CommitRoom ==
  ASSUME Inv, FiguresInv, DecidedInv, [Next]_vars, RoomFits,
         NEW r \in Requests, CommitBill(r)
  PROVE  RoomFits'
<1>. DEFINE id == job[r].id
            row == job[r].row
<1>1. bills' = Seen(r) /\ job[r].phase = "costing"
  BY CommitIs
<1>2. BillJobFits(job[r]) /\ OpenFits(job[r])
  BY <1>1 DEF Inv, JobFits
<1>3. job[r].kind = "create" => id \notin DOMAIN bills
  BY <1>1 DEF DecidedInv, FreshIds, Touching
<1>. SUFFICES ASSUME NEW b \in DOMAIN bills' \ repriced',
                     PaymentsOn(payments', b) # {}
              PROVE  outstandingAmount(bills', payments', b) >= 0
  BY DEF RoomFits
<1>4. PICK q : q \in PaymentsOn(payments', b)
  OBVIOUS
<1>0. b # None
  <2>1. b \in 1 .. made'.bills /\ made'.bills \in Nat
    BY NextInv, BillBound DEF Inv, BillsFit, Counts
  <2>. QED
    BY <2>1 DEF None
<1>5. /\ PaymentsOn(payments', b) \subseteq PaymentsOn(payments, b)
      /\ \A p \in PaymentsOn(payments', b) : payments'[p].amount = payments[p].amount
  BY <1>0, CommitPays DEF PaymentsOn
<1>6. b \in DOMAIN bills
  BY <1>0, <1>4, <1>5 DEF Inv, PaymentsFit, PaymentsOn
<1>7. bills'[b].total >= bills[b].total /\ b \notin repriced
  <2>0. bills[b].total \in Int
    BY <1>6 DEF FiguresInv, FiguresFit
  <2>1. CASE b # id
    BY <1>1, <1>6, <2>0, <2>1, SeenIs, CommitReprices
  <2>2. CASE b = id
    <3>1. job[r].kind = "update"
      BY <1>1, <1>2, <1>3, <1>6, <2>2, SeenIs DEF BillJobFits
    <3>2. PaymentsOn(payments, id) # {}
      BY <1>4, <1>5, <2>2
    <3>3. b \notin repriced /\ ~(row.total < bills[id].total)
      BY <2>2, <3>1, <3>2, CommitReprices
    <3>4. bills'[id].total = row.total
      BY <1>1, <2>2, <3>1, SeenIs
    <3>5. row.total \in Int
      BY <1>1 DEF DecidedInv, JobDecided, BillDecided, FiguresFit
    <3>. QED
      BY <2>0, <2>2, <3>3, <3>4, <3>5
  <2>. QED
    BY <2>1, <2>2
<1>. QED
  BY <1>5, <1>6, <1>7, RoomStays

\* A payment is written with the room there is for it.
LEMMA WriteRoom ==
  ASSUME Inv, FiguresInv, DecidedInv, [Next]_vars, RoomFits, ~overtaken',
         NEW r \in Requests, WritePayment(r)
  PROVE  RoomFits'
<1>. DEFINE id == job[r].id
            row == job[r].row
<1>1. /\ bills' = bills /\ repriced' = repriced
      /\ payments' = With(payments, id, row)
  BY DEF WritePayment
<1>2. /\ DOMAIN payments' = DOMAIN payments \cup {id} /\ payments'[id] = row
      /\ \A p \in DOMAIN payments \ {id} : payments'[p] = payments[p]
  BY <1>1 DEF With
<1>3. PaysFit(payments) /\ PaysFit(payments')
  BY PaymentsAreFinite, PaymentsStayFinite
<1>. SUFFICES ASSUME NEW b \in DOMAIN bills \ repriced,
                     PaymentsOn(payments', b) # {}
              PROVE  outstandingAmount(bills, payments', b) >= 0
  BY <1>1 DEF RoomFits
<1>0. b # None /\ bills[b].total \in Int
  <2>1. b \in 1 .. made.bills /\ made.bills \in Nat
    BY BillBound DEF Inv, BillsFit, Counts
  <2>. QED
    BY <2>1 DEF None, FiguresInv, FiguresFit
<1>4. CASE row.bill = b
  <2>. DEFINE others == PaymentsOn(payments, b) \ {id}
  <2>1. row.amount <= bills[b].total - AmountOf(payments, others)
    BY <1>0, <1>4, PaymentFitsStill
  <2>2. /\ AmountOf(payments, others) \in Nat /\ row.amount \in Nat
        /\ paidAmount(payments', b) = AmountOf(payments, others) + row.amount
    <3>1. payments' = With(payments, id, row) /\ PaysFit(payments)
            /\ PaysFit(payments')
      BY <1>1, <1>3
    <3>. HIDE DEF id, row
    <3>2. /\ AmountOf(payments, PaymentsOn(payments, row.bill) \ {id}) \in Nat
          /\ row.amount \in Nat
          /\ paidAmount(payments', row.bill)
               = AmountOf(payments, PaymentsOn(payments, row.bill) \ {id})
                   + row.amount
      BY ONLY <3>1, PaidWith
    <3>. QED
      BY <1>4, <3>2
  <2>. HIDE DEF others, row
  <2>. QED
    BY <1>0, <2>1, <2>2 DEF outstandingAmount
<1>5. CASE row.bill # b
  <2>1. /\ PaymentsOn(payments', b) \subseteq PaymentsOn(payments, b)
        /\ \A p \in PaymentsOn(payments', b) :
             payments'[p].amount = payments[p].amount
    BY <1>2, <1>5 DEF PaymentsOn
  <2>2. bills'[b].total >= bills[b].total /\ b \in DOMAIN bills'
    BY <1>0, <1>1
  <2>3. outstandingAmount(bills', payments', b) >= 0
    BY <2>1, <2>2, RoomStays
  <2>. QED
    BY <1>1, <2>3
<1>. QED
  BY <1>4, <1>5

LEMMA NextRoom ==
  Inv /\ FiguresInv /\ DecidedInv /\ RoomInv /\ [Next]_vars => RoomInv'
<1>. SUFFICES ASSUME Inv, FiguresInv, DecidedInv, RoomInv, [Next]_vars, ~overtaken'
              PROVE  RoomFits'
  BY DEF RoomInv
<1>1. ASSUME NEW r \in Requests, CommitBill(r) PROVE RoomFits'
  <2>1. ~overtaken
    BY <1>1, CommitIs
  <2>. QED
    BY <1>1, <2>1, CommitRoom DEF RoomInv
<1>2. ASSUME NEW r \in Requests, WritePayment(r) PROVE RoomFits'
  <2>1. ~overtaken
    BY <1>2 DEF WritePayment
  <2>. QED
    BY <1>2, <2>1, WriteRoom DEF RoomInv
<1>3. ASSUME bills' = bills, payments' = payments, repriced' = repriced, ~overtaken
      PROVE  RoomFits'
  BY <1>3 DEF RoomInv, RoomFits
<1>4. ASSUME NEW id \in DOMAIN payments, RemovePayment(id) PROVE RoomFits'
  <2>1. /\ bills' = bills /\ repriced' = repriced /\ RoomFits
        /\ \A p \in DOMAIN payments' :
             p \in DOMAIN payments /\ payments'[p] = payments[p]
    BY <1>4 DEF RemovePayment, Without, RoomInv
  <2>. SUFFICES ASSUME NEW b \in DOMAIN bills \ repriced,
                       PaymentsOn(payments', b) # {}
                PROVE  outstandingAmount(bills', payments', b) >= 0
    BY <2>1 DEF RoomFits
  <2>2. /\ PaymentsOn(payments', b) \subseteq PaymentsOn(payments, b)
        /\ \A p \in PaymentsOn(payments', b) :
             payments'[p].amount = payments[p].amount
    BY <2>1 DEF PaymentsOn
  <2>3. bills'[b].total >= bills[b].total /\ b \in DOMAIN bills'
    BY <2>1 DEF FiguresInv, FiguresFit
  <2>. QED
    BY <2>1, <2>2, <2>3, RoomStays
<1>5. ASSUME NEW r \in Requests, WriteMaterial(r) PROVE RoomFits'
  BY <1>3, <1>5 DEF WriteMaterial
<1>6. ASSUME NEW m \in Materials, CreateMaterial(m) \/ RemoveMaterial(m)
      PROVE  RoomFits'
  BY <1>3, <1>6 DEF CreateMaterial, RemoveMaterial
<1>7. ASSUME UNCHANGED <<bills, payments, repriced, overtaken>> PROVE RoomFits'
  BY <1>3, <1>7
<1>. QED
  BY <1>1, <1>2, <1>4, <1>5, <1>6, <1>7, StepsAre

LEMMA InitMoney == Init => TotalIsLines /\ HomeInv /\ RoomInv
BY DEF Init, TotalIsLines, HomeInv, PaymentsStayHome, RoomInv, RoomFits

\* What is spent, by vendor, by material and altogether, adds up.
THEOREM SpendAddsUpEverywhere == Spec => []SpendAddsUp
<1>1. Spec => []TotalIsLines
  BY BooksHold, InitMoney, NextTotals, PTL DEF Spec
<1>. QED
  BY <1>1, BooksHold, SpendAdds, PTL

\* "Over-payment is blocked", as long as nobody decides on an old reading and
\* the bill is not lowered or given away under its payments.
THEOREM NoBillIsOverpaid == Spec => []NoOverpayment
<1>1. Spec => []RoomInv
  BY BooksHold, InitMoney, NextRoom, PTL DEF Spec
<1>2. RoomInv => NoOverpayment
  BY DEF RoomInv, RoomFits, NoOverpayment
<1>. QED
  BY <1>1, <1>2, PTL

\* And a payment is for a bill of the vendor it went to.
LEMMA MoneyStaysHome == Spec => []HomeInv
BY BooksHold, InitMoney, NextHome, PTL DEF Spec

-----------------------------------------------------------------------------
(* The statement and the payables report. *)

\* Bills and payments that fit: a payment is for nothing or for a bill of its
\* vendor.
LedgerFits(bs, ps) ==
  /\ PaysFit(ps) /\ IsFiniteSet(DOMAIN bs) /\ None \notin DOMAIN bs
  /\ \A b \in DOMAIN bs : bs[b].total \in Int
  /\ \A p \in DOMAIN ps :
       ps[p].bill # None =>
         ps[p].bill \in DOMAIN bs /\ ps[p].vendor = bs[ps[p].bill].vendor

OnAccount(ps, v) == {p \in PaymentsTo(ps, v) : ps[p].bill = None}

\* What a vendor was paid is what was paid of its bills and on account.
LEMMA PaidByBill ==
  ASSUME NEW bs, NEW ps, LedgerFits(bs, ps), NEW v
  PROVE  LET mine == BillsOf(bs, v)
             paid == [b \in mine |-> paidAmount(ps, b)]
         IN  /\ IsFiniteSet(mine) /\ \A b \in mine : paid[b] \in Int
             /\ AmountOf(ps, OnAccount(ps, v)) \in Int
             /\ AmountOf(ps, PaymentsTo(ps, v))
                  = SumFunctionOnSet(paid, mine) + AmountOf(ps, OnAccount(ps, v))
<1>. DEFINE K == BillsOf(bs, v)
            g == [b \in K |-> paidAmount(ps, b)]
            F == [b \in K |-> PaymentsOn(ps, b)]
            f == [p \in DOMAIN ps |-> ps[p].amount]
            All == {p \in PaymentsTo(ps, v) : ps[p].bill # None}
            Rest == OnAccount(ps, v)
            Both == PaymentsTo(ps, v)
<1>1. IsFiniteSet(K)
  <2>1. K \subseteq DOMAIN bs
    BY DEF BillsOf
  <2>. QED
    BY <2>1, FS_Subset DEF LedgerFits
<1>2. PaysFit(ps) /\ \A p \in DOMAIN ps : f[p] \in Nat
  BY DEF LedgerFits, PaysFit
<1>3. /\ \A b \in K : F[b] \in SUBSET DOMAIN ps
      /\ All \in SUBSET DOMAIN ps /\ Rest \in SUBSET DOMAIN ps
      /\ Both = All \cup Rest /\ All \cap Rest = {}
      /\ Both \in SUBSET DOMAIN ps
  BY DEF PaymentsOn, PaymentsTo, OnAccount
<1>4. \A b, c \in K : b # c => F[b] \cap F[c] = {}
  BY DEF PaymentsOn
<1>5. \A p : p \in All <=> \E b \in K : p \in F[b]
  <2>1. ASSUME NEW p \in All PROVE \E b \in K : p \in F[b]
    <3>1. ps[p].bill \in K /\ p \in PaymentsOn(ps, ps[p].bill)
      BY DEF LedgerFits, PaymentsTo, PaymentsOn, BillsOf
    <3>. QED
      BY <3>1
  <2>2. ASSUME NEW b \in K, NEW p \in F[b] PROVE p \in All
    BY DEF LedgerFits, PaymentsTo, PaymentsOn, BillsOf
  <2>. QED
    BY <2>1, <2>2
<1>6. \A b \in K : g[b] = AmountOf(ps, F[b])
  BY DEF paidAmount
<1>. HIDE DEF K, g, F, f, All, Rest, Both
<1>7. ASSUME NEW ids \in SUBSET DOMAIN ps
      PROVE  /\ IsFiniteSet(ids) /\ AmountOf(ps, ids) \in Nat
             /\ AmountOf(ps, ids) = SumFunctionOnSet(f, ids)
  BY <1>2, AmountIs DEF f
<1>8. /\ \A b \in K : IsFiniteSet(F[b])
      /\ \A b \in K : \A p \in F[b] : f[p] \in Int
      /\ \A b \in K : g[b] = SumFunctionOnSet(f, F[b])
      /\ \A b \in K : g[b] \in Int
  BY <1>2, <1>3, <1>6, <1>7
<1>9. IsFiniteSet(All) /\ SumFunctionOnSet(f, All) = SumFunctionOnSet(g, K)
  <2>1. /\ IsFiniteSet(K) /\ \A b \in K : IsFiniteSet(F[b])
        /\ \A b, c \in K : b # c => F[b] \cap F[c] = {}
        /\ \A b \in K : \A p \in F[b] : f[p] \in Int
        /\ \A b \in K : g[b] = SumFunctionOnSet(f, F[b])
        /\ \A p : p \in All <=> \E b \in K : p \in F[b]
    BY <1>1, <1>4, <1>5, <1>8
  <2>. QED
    BY ONLY <2>1, SumUnion, SMTT(60)
<1>10. /\ IsFiniteSet(Rest) /\ All \cap Rest = {} /\ Both = All \cup Rest
       /\ \A p \in All \cup Rest : f[p] \in Int
  BY <1>2, <1>3, <1>7
<1>11. SumFunctionOnSet(f, Both)
         = SumFunctionOnSet(f, All) + SumFunctionOnSet(f, Rest)
  BY <1>9, <1>10, SumSplit
<1>12. /\ AmountOf(ps, Both) = SumFunctionOnSet(g, K) + AmountOf(ps, Rest)
       /\ AmountOf(ps, Rest) \in Int
  BY <1>3, <1>7, <1>9, <1>11
<1>. QED
  BY <1>1, <1>8, <1>12 DEF K, g, Rest, Both

BilledTo(bs, v) ==
  SumFunctionOnSet([b \in BillsOf(bs, v) |-> bs[b].total], BillsOf(bs, v))

OwedTo(bs, ps, v) ==
  SumFunctionOnSet([b \in BillsOf(bs, v) |-> outstandingAmount(bs, ps, b)],
                   BillsOf(bs, v))

\* So what it is owed, less the advances, is what it billed less what it was
\* paid.
LEMMA OwedIs ==
  ASSUME NEW bs, NEW ps, LedgerFits(bs, ps), NEW v
  PROVE  BilledTo(bs, v) - AmountOf(ps, PaymentsTo(ps, v))
           = OwedTo(bs, ps, v) - AmountOf(ps, OnAccount(ps, v))
<1>. DEFINE mine == BillsOf(bs, v)
            paid == [b \in mine |-> paidAmount(ps, b)]
            total == [b \in mine |-> bs[b].total]
            owed == [b \in mine |-> outstandingAmount(bs, ps, b)]
<1>1. /\ IsFiniteSet(mine) /\ \A b \in mine : paid[b] \in Int
      /\ AmountOf(ps, OnAccount(ps, v)) \in Int
      /\ AmountOf(ps, PaymentsTo(ps, v))
           = SumFunctionOnSet(paid, mine) + AmountOf(ps, OnAccount(ps, v))
  BY PaidByBill
<1>2. \A b \in mine : total[b] \in Int
  BY DEF LedgerFits, BillsOf
<1>3. \A b \in mine : owed[b] = total[b] - paid[b]
  BY DEF outstandingAmount
<1>4. BilledTo(bs, v) = SumFunctionOnSet(total, mine)
      /\ OwedTo(bs, ps, v) = SumFunctionOnSet(owed, mine)
  BY DEF BilledTo, OwedTo
<1>. HIDE DEF mine, paid, total, owed
<1>5. \A b \in mine : owed[b] \in Int /\ paid[b] \in Int
                        /\ total[b] = owed[b] + paid[b]
  BY <1>1, <1>2, <1>3
<1>6. /\ SumFunctionOnSet(total, mine)
           = SumFunctionOnSet(owed, mine) + SumFunctionOnSet(paid, mine)
      /\ SumFunctionOnSet(owed, mine) \in Int /\ SumFunctionOnSet(paid, mine) \in Int
  <2>1. SumFunctionOnSet(total, mine)
          = SumFunctionOnSet(owed, mine) + SumFunctionOnSet(paid, mine)
    BY <1>1, <1>5, SumPlus
  <2>2. SumFunctionOnSet(owed, mine) \in Int
    BY <1>1, <1>5, SumIsInt
  <2>3. SumFunctionOnSet(paid, mine) \in Int
    BY <1>1, <1>5, SumIsInt
  <2>. QED
    BY <2>1, <2>2, <2>3
<1>. QED
  BY <1>1, <1>4, <1>6

\* Ages are told apart: a sum over them is the whole.
LEMMA AgesAddUp ==
  ASSUME NEW S, IsFiniteSet(S), NEW f, \A x \in S : f[x] \in Int,
         NEW age, \A x \in S : age[x] \in Int
  PROVE  SumFunctionOnSet(f, S)
           = SumFunctionOnSet(f, {x \in S : age[x] <= 0})
             + SumFunctionOnSet(f, {x \in S : age[x] > 0 /\ age[x] <= 30})
             + SumFunctionOnSet(f, {x \in S : age[x] > 30 /\ age[x] <= 60})
             + SumFunctionOnSet(f, {x \in S : age[x] > 60})
<1>. DEFINE A == {x \in S : age[x] <= 0}
            B == {x \in S : age[x] > 0 /\ age[x] <= 30}
            C == {x \in S : age[x] > 30 /\ age[x] <= 60}
            D == {x \in S : age[x] > 60}
            CD == C \cup D
            BCD == B \cup CD
<1>1. /\ A \subseteq S /\ B \subseteq S /\ C \subseteq S /\ D \subseteq S
      /\ C \cap D = {} /\ B \cap CD = {} /\ A \cap BCD = {} /\ A \cup BCD = S
  OBVIOUS
<1>2. CD \subseteq S /\ BCD \subseteq S
  BY <1>1
<1>. HIDE DEF A, B, C, D
<1>3. /\ IsFiniteSet(A) /\ IsFiniteSet(B) /\ IsFiniteSet(C) /\ IsFiniteSet(D)
      /\ IsFiniteSet(CD) /\ IsFiniteSet(BCD)
  BY <1>1, <1>2, FS_Subset
<1>4. SumFunctionOnSet(f, CD) = SumFunctionOnSet(f, C) + SumFunctionOnSet(f, D)
  BY <1>1, <1>2, <1>3, SumSplit
<1>5. SumFunctionOnSet(f, BCD) = SumFunctionOnSet(f, B) + SumFunctionOnSet(f, CD)
  BY <1>1, <1>2, <1>3, SumSplit
<1>6. SumFunctionOnSet(f, S) = SumFunctionOnSet(f, A) + SumFunctionOnSet(f, BCD)
  <2>. HIDE DEF BCD
  <2>1. \A x \in A \cup BCD : f[x] \in Int
    BY <1>1
  <2>2. SumFunctionOnSet(f, A \cup BCD)
          = SumFunctionOnSet(f, A) + SumFunctionOnSet(f, BCD)
    BY <1>1, <1>3, <2>1, SumSplit
  <2>. QED
    BY <1>1, <2>2
<1>7. /\ SumFunctionOnSet(f, A) \in Int /\ SumFunctionOnSet(f, B) \in Int
      /\ SumFunctionOnSet(f, C) \in Int /\ SumFunctionOnSet(f, D) \in Int
  <2>1. ASSUME NEW T, IsFiniteSet(T), T \subseteq S
        PROVE  SumFunctionOnSet(f, T) \in Int
    BY <2>1, SumIsInt
  <2>. QED
    BY <1>1, <1>3, <2>1
<1>8. SumFunctionOnSet(f, S)
        = SumFunctionOnSet(f, A) + SumFunctionOnSet(f, B)
          + SumFunctionOnSet(f, C) + SumFunctionOnSet(f, D)
  BY <1>4, <1>5, <1>6, <1>7
<1>. QED
  BY <1>8 DEF A, B, C, D

Unpaid(bs, ps, v) == {b \in BillsOf(bs, v) : outstandingAmount(bs, ps, b) > 0}

OwedOn(bs, ps, ids) == Over(ids, LAMBDA b : outstandingAmount(bs, ps, b))

\* The payables report leaves nothing owed on an unpaid bill out, and counts
\* nothing twice.
LEMMA PayablesAgeAll ==
  ASSUME NEW bs, NEW ps, LedgerFits(bs, ps), NEW v, NEW today \in Int,
         \A b \in DOMAIN bs : bs[b].date \in Int /\ bs[b].due \in Int
  PROVE  LET aging == vendorPayables(bs, ps, v, today)
         IN  /\ aging.unpaidBills = Unpaid(bs, ps, v)
             /\ aging.current + aging.upTo30 + aging.upTo60 + aging.over60
                  = OwedOn(bs, ps, Unpaid(bs, ps, v))
<1>. DEFINE aging == vendorPayables(bs, ps, v, today)
            S == Unpaid(bs, ps, v)
            f == [b \in S |-> outstandingAmount(bs, ps, b)]
            age == [b \in S |-> today - (IF bs[b].due = None THEN bs[b].date
                                         ELSE bs[b].due)]
            A == {b \in S : age[b] <= 0}
            B == {b \in S : age[b] > 0 /\ age[b] <= 30}
            C == {b \in S : age[b] > 30 /\ age[b] <= 60}
            D == {b \in S : age[b] > 60}
            fOn(T) == [b \in T |-> outstandingAmount(bs, ps, b)]
<1>1. IsFiniteSet(S) /\ \A b \in S : f[b] \in Int
  <2>1. S \subseteq BillsOf(bs, v) /\ S \subseteq DOMAIN bs
    BY DEF Unpaid, BillsOf
  <2>2. \A b \in S : paidAmount(ps, b) \in Int /\ bs[b].total \in Int
    <3>. SUFFICES ASSUME NEW b \in S
                  PROVE  paidAmount(ps, b) \in Int /\ bs[b].total \in Int
      OBVIOUS
    <3>1. PaymentsOn(ps, b) \in SUBSET DOMAIN ps
      BY DEF PaymentsOn
    <3>2. paidAmount(ps, b) \in Nat
      BY <3>1, AmountIs DEF paidAmount, LedgerFits
    <3>. QED
      BY <2>1, <3>2 DEF LedgerFits
  <2>. QED
    BY <2>1, <2>2, FS_Subset DEF LedgerFits, outstandingAmount
<1>2. \A b \in S : age[b] \in Int
  BY DEF Unpaid, BillsOf
<1>3. /\ aging.unpaidBills = S
      /\ aging.current = SumFunctionOnSet(fOn(A), A)
      /\ aging.upTo30 = SumFunctionOnSet(fOn(B), B)
      /\ aging.upTo60 = SumFunctionOnSet(fOn(C), C)
      /\ aging.over60 = SumFunctionOnSet(fOn(D), D)
  <2>1. aging.unpaidBills = S
    BY DEF vendorPayables, Unpaid
  <2>2. A = {b \in S : today - (IF bs[b].due = None THEN bs[b].date
                                ELSE bs[b].due) <= 0}
    OBVIOUS
  <2>3. aging.current = SumFunctionOnSet(fOn(A), A)
    BY <2>2 DEF vendorPayables, Unpaid, Over, SumFunction
  <2>4. aging.upTo30 = SumFunctionOnSet(fOn(B), B)
    BY DEF vendorPayables, Unpaid, Over, SumFunction
  <2>5. aging.upTo60 = SumFunctionOnSet(fOn(C), C)
    BY DEF vendorPayables, Unpaid, Over, SumFunction
  <2>6. aging.over60 = SumFunctionOnSet(fOn(D), D)
    BY DEF vendorPayables, Unpaid, Over, SumFunction
  <2>. QED
    BY <2>1, <2>3, <2>4, <2>5, <2>6
<1>4. OwedOn(bs, ps, S) = SumFunctionOnSet(f, S)
  BY DEF OwedOn, Over, SumFunction
<1>5. ASSUME NEW T, T \subseteq S
      PROVE  SumFunctionOnSet(fOn(T), T) = SumFunctionOnSet(f, T)
  <2>1. IsFiniteSet(T) /\ \A b \in T : f[b] \in Int /\ fOn(T)[b] = f[b]
    BY <1>1, <1>5, FS_Subset
  <2>. HIDE DEF f, fOn
  <2>. QED
    BY <2>1, SumSame
<1>. HIDE DEF aging, S, f, age, fOn
<1>6. SumFunctionOnSet(f, S)
        = SumFunctionOnSet(f, A) + SumFunctionOnSet(f, B)
          + SumFunctionOnSet(f, C) + SumFunctionOnSet(f, D)
  BY <1>1, <1>2, AgesAddUp
<1>7. A \subseteq S /\ B \subseteq S /\ C \subseteq S /\ D \subseteq S
  OBVIOUS
<1>. HIDE DEF A, B, C, D
<1>8. aging.current + aging.upTo30 + aging.upTo60 + aging.over60
        = SumFunctionOnSet(f, S)
  BY <1>3, <1>5, <1>6, <1>7
<1>. QED
  BY <1>3, <1>4, <1>8 DEF aging, S

\* What the statement shows: its totals, and, where all has been counted, its
\* balance.
LEMMA LedgerIs ==
  ASSUME NEW bs, NEW ps, NEW v
  PROVE  LET statement == ledger(bs, ps, v)
         IN  /\ statement.outstanding
                  = BilledTo(bs, v) - AmountOf(ps, PaymentsTo(ps, v))
             /\ statement.onAccount = AmountOf(ps, OnAccount(ps, v))
             /\ statement.unpaidBills = Unpaid(bs, ps, v)
             /\ \A day \in DOMAIN statement.balance :
                  (\A d \in DOMAIN statement.balance : d <= day) =>
                    statement.balance[day].payments = statement.outstanding
<1>. DEFINE mine == BillsOf(bs, v)
            paid == PaymentsTo(ps, v)
            billed(ids) == Over(ids, LAMBDA b : bs[b].total)
            days == {bs[b].date : b \in mine} \cup {ps[p].on : p \in paid}
            statement == ledger(bs, ps, v)
<1>1. billed(mine) = BilledTo(bs, v)
  BY DEF BilledTo, Over, SumFunction
<1>2. statement.outstanding = BilledTo(bs, v) - AmountOf(ps, paid)
  BY <1>1 DEF ledger
<1>3. /\ statement.onAccount = AmountOf(ps, OnAccount(ps, v))
      /\ statement.unpaidBills = Unpaid(bs, ps, v)
  BY DEF ledger, OnAccount, Unpaid
<1>4. DOMAIN statement.balance = days
  BY DEF ledger
<1>5. ASSUME NEW day \in days, \A d \in days : d <= day
      PROVE  statement.balance[day].payments = statement.outstanding
  <2>1. /\ {b \in mine : bs[b].date <= day} = mine
        /\ {p \in paid : ps[p].on <= day} = paid
    <3>1. \A b \in mine : bs[b].date \in days
      OBVIOUS
    <3>2. \A p \in paid : ps[p].on \in days
      OBVIOUS
    <3>. HIDE DEF days, mine, paid
    <3>. QED
      BY <1>5, <3>1, <3>2
  <2>2. statement.balance[day].payments
          = billed({b \in mine : bs[b].date <= day})
            - AmountOf(ps, {p \in paid : ps[p].on <= day})
    BY <1>5 DEF ledger
  <2>. HIDE DEF statement, mine, paid, days
  <2>3. billed({b \in mine : bs[b].date <= day}) = billed(mine)
    BY <2>1
  <2>. QED
    BY <1>1, <1>2, <2>1, <2>2, <2>3
<1>. QED
  BY <1>2, <1>3, <1>4, <1>5

\* Where every payment is at home, the rows make a ledger.
LEMMA RowsFit ==
  Inv /\ FiguresInv /\ PaymentsStayHome /\ repriced = {}
    => LedgerFits(bills, payments)
<1>. SUFFICES ASSUME Inv, FiguresInv, PaymentsStayHome, repriced = {}
              PROVE  LedgerFits(bills, payments)
  OBVIOUS
<1>1. IsFiniteSet(DOMAIN bills)
  BY BillsAreView DEF ViewFits
<1>2. None \notin DOMAIN bills
  <2>1. \A b \in DOMAIN bills : b \in 1 .. made.bills
    BY DEF Inv, BillsFit
  <2>2. made.bills \in Nat
    BY BillBound DEF Inv, Counts
  <2>. QED
    BY <2>1, <2>2 DEF None
<1>3. \A b \in DOMAIN bills : bills[b].total \in Int
  BY DEF FiguresInv, FiguresFit
<1>4. \A p \in DOMAIN payments :
        payments[p].bill # None =>
          /\ payments[p].bill \in DOMAIN bills
          /\ payments[p].vendor = bills[payments[p].bill].vendor
  BY DEF PaymentsStayHome, Inv, PaymentsFit
<1>. QED
  BY <1>1, <1>2, <1>3, <1>4, PaymentsAreFinite DEF LedgerFits

LEMMA StatementsAgree == Inv /\ FiguresInv /\ HomeInv => StatementAgrees
<1>. SUFFICES ASSUME Inv, FiguresInv, HomeInv, ~overtaken, repriced = {},
                     NEW v \in Vendors
              PROVE  LET statement == ledger(bills, payments, v)
                         aging == vendorPayables(bills, payments, v, Today)
                         owed == OwedOn(bills, payments, BillsOf(bills, v))
                     IN  /\ statement.outstanding = owed - statement.onAccount
                         /\ \A day \in DOMAIN statement.balance :
                              (\A d \in DOMAIN statement.balance : d <= day) =>
                                statement.balance[day].payments
                                  = statement.outstanding
                         /\ aging.unpaidBills = statement.unpaidBills
                         /\ aging.current + aging.upTo30 + aging.upTo60
                                + aging.over60
                              = OwedOn(bills, payments, statement.unpaidBills)
  BY DEF StatementAgrees, OwedOn
<1>. DEFINE statement == ledger(bills, payments, v)
            aging == vendorPayables(bills, payments, v, Today)
<1>1. LedgerFits(bills, payments)
  BY RowsFit DEF HomeInv
<1>2. BilledTo(bills, v) - AmountOf(payments, PaymentsTo(payments, v))
        = OwedTo(bills, payments, v) - AmountOf(payments, OnAccount(payments, v))
  BY <1>1, OwedIs
<1>3. /\ statement.outstanding
           = BilledTo(bills, v) - AmountOf(payments, PaymentsTo(payments, v))
      /\ statement.onAccount = AmountOf(payments, OnAccount(payments, v))
      /\ statement.unpaidBills = Unpaid(bills, payments, v)
      /\ \A day \in DOMAIN statement.balance :
           (\A d \in DOMAIN statement.balance : d <= day) =>
             statement.balance[day].payments = statement.outstanding
  BY LedgerIs
<1>4. \A b \in DOMAIN bills : bills[b].date \in Int /\ bills[b].due \in Int
  BY DEF FiguresInv, FiguresFit
<1>5. /\ aging.unpaidBills = Unpaid(bills, payments, v)
      /\ aging.current + aging.upTo30 + aging.upTo60 + aging.over60
           = OwedOn(bills, payments, Unpaid(bills, payments, v))
  BY <1>1, <1>4, PayablesAgeAll, TodayAssumption
<1>6. OwedOn(bills, payments, BillsOf(bills, v)) = OwedTo(bills, payments, v)
  BY DEF OwedOn, OwedTo, Over, SumFunction
<1>7. statement.outstanding
        = OwedOn(bills, payments, BillsOf(bills, v)) - statement.onAccount
  <2>. HIDE DEF statement
  <2>. QED
    BY <1>2, <1>3, <1>6
<1>8. /\ aging.unpaidBills = statement.unpaidBills
      /\ aging.current + aging.upTo30 + aging.upTo60 + aging.over60
           = OwedOn(bills, payments, statement.unpaidBills)
  <2>. HIDE DEF statement, aging
  <2>. QED
    BY <1>3, <1>5
<1>. QED
  BY <1>3, <1>7, <1>8

\* A vendor's statement says the same whichever way it is added up, and the
\* payables report ages all that is owed on its unpaid bills.
THEOREM StatementsAgreeAlways == Spec => []StatementAgrees
BY BooksHold, MoneyStaysHome, StatementsAgree, PTL
===============================================================================
