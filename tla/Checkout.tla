------------------------------- MODULE Checkout -------------------------------
(***************************************************************************)
(* Carts, stock and the checkout that turns the one into orders against    *)
(* the other: CartService, OrdersService.checkout, the restock loop of a   *)
(* cancellation, and the product edits that change stock under them.       *)
(*                                                                         *)
(* `stock' is what is committed. A checkout that has decremented a row     *)
(* holds its lock, and its decrements in `taken', until it commits or      *)
(* rolls back (PostgreSQL, read committed). It sees its own decrements and *)
(* nobody else's.                                                          *)
(***************************************************************************)
EXTENDS Integers, Sequences, FiniteSets, Functions

CONSTANTS
  Products, Variants,
  ProductOf,    \* the product of each variant
  Customers,
  Requests,
  Owner,        \* the customer behind each request
  Opening,      \* the stock every product and live variant starts with
  MaxRows,      \* bound: cart rows ever created
  MaxQuantity,  \* bound: units in one cart row
  MaxOrders,    \* bound: orders ever placed
  MaxEdits,     \* bound: product edits and stock counts
  Recounts      \* bound: the figures an admin may set a stock to

Skus == Products \cup Variants

ASSUME SkusAssumption ==
  Products \cap Variants = {} /\ ProductOf \in [Variants -> Products]
ASSUME OwnerAssumption == Owner \in [Requests -> Customers]
ASSUME CountsAssumption == Opening \in Nat /\ Recounts \subseteq Nat
ASSUME BoundsAssumption ==
  MaxRows \in Nat /\ MaxQuantity \in Nat /\ MaxOrders \in Nat
  /\ MaxEdits \in Nat

VARIABLES
  stock,     \* units on the shelf, as committed
  listed,    \* products that are active and not deleted
  variants,  \* the variant rows: not created yet, live, or replaced
  cart,      \* each customer's rows by row id
  nextRow,   \* the next row id
  orders,    \* the orders placed, with what their cancellation put back
  req,       \* what each request is doing
  edits,     \* how many edits an admin has made
  counted,   \* history: the units there are, as of the last stock count
  overtaken  \* history: skus decremented on a stale reading

vars == <<stock, listed, variants, cart, nextRow, orders, req, edits,
          counted, overtaken>>

\* What only an admin changes.
shop == <<listed, variants, edits, counted>>

RowIds == 1 .. MaxRows

Row == [sku : Skus, quantity : 1 .. MaxQuantity]

Rows == UNION {[S -> Row] : S \in SUBSET RowIds}

NoRow == 0

Orders == [owner : Customers, rows : Rows, cancelled : BOOLEAN,
           todo : SUBSET RowIds, back : SUBSET RowIds]

Untaken == [s \in Skus |-> 0]

Idle == [phase |-> "idle"]

Adding == [phase : {"adding"}, row : Row, found : RowIds \cup {NoRow},
           had : 0 .. MaxQuantity]

Buying == [phase : {"buying"}, rows : Rows, seen : [Products -> Int],
           open : SUBSET Products, todo : SUBSET RowIds,
           checked : RowIds \cup {NoRow}, view : Int, taken : [Skus -> Nat]]

ProductFor(sku) == IF sku \in Products THEN sku ELSE ProductOf[sku]

Live(sku) == sku \in Products \cup {v \in Variants : variants[v] = "live"}

Taken(r) == IF req[r].phase = "buying" THEN req[r].taken ELSE Untaken

\* Nobody else holds the lock of the sku's row.
FreeFor(r, sku) == \A q \in Requests \ {r} : Taken(q)[sku] = 0

Free(sku) == \A q \in Requests : Taken(q)[sku] = 0

Become(r, what) == req' = [req EXCEPT ![r] = what]

\* How many requests are in a phase, for the bounds.
Doing(phase) == Cardinality({r \in Requests : req[r].phase = phase})

-----------------------------------------------------------------------------

Init ==
  /\ \E live \in SUBSET Variants :
       variants = [v \in Variants |-> IF v \in live THEN "live" ELSE "unborn"]
  /\ stock = [s \in Skus |-> IF Live(s) THEN Opening ELSE 0]
  /\ counted = stock
  /\ listed = Products
  /\ cart = [c \in Customers |-> <<>>]
  /\ nextRow = 1
  /\ orders = <<>>
  /\ req = [r \in Requests |-> Idle]
  /\ edits = 0
  /\ overtaken = {}

-----------------------------------------------------------------------------
(* The cart. *)

\* addItem reads the row to add to. The lookup by product, customer and no
\* variant fails on its null and is taken for "no such row".
AskAdd(r, sku, quantity) ==
  LET mine == cart[Owner[r]]
      same == {i \in DOMAIN mine : sku \in Variants /\ mine[i].sku = sku}
      found == IF same = {} THEN NoRow ELSE CHOOSE i \in same : TRUE
      had == IF same = {} THEN 0 ELSE mine[found].quantity
  IN  /\ req[r].phase = "idle"
      /\ ProductFor(sku) \in listed /\ Live(sku)
      /\ had + quantity <= MaxQuantity
      /\ nextRow + Doing("adding") <= MaxRows
      /\ Become(r, [phase |-> "adding", found |-> found, had |-> had,
                    row |-> [sku |-> sku, quantity |-> quantity]])
      /\ UNCHANGED <<stock, cart, nextRow, orders, overtaken, shop>>

\* It writes what it read plus what it adds. The update throws when the row is
\* gone, the insert when another request has created the row since (the unique
\* index, which tells rows without a variant apart).
WriteAdd(r) ==
  LET ask == req[r]
      mine == cart[Owner[r]]
      clash == ask.row.sku \in Variants
                 /\ \E i \in DOMAIN mine : mine[i].sku = ask.row.sku
  IN  /\ ask.phase = "adding"
      /\ \/ /\ ask.found \in DOMAIN mine
            /\ cart' = [cart EXCEPT ![Owner[r]][ask.found].quantity =
                          ask.had + ask.row.quantity]
            /\ UNCHANGED nextRow
         \/ /\ ask.found = NoRow /\ ~clash
            /\ cart' = [cart EXCEPT ![Owner[r]] =
                          [i \in DOMAIN mine \cup {nextRow} |->
                             IF i = nextRow THEN ask.row ELSE mine[i]]]
            /\ nextRow' = nextRow + 1
         \/ /\ ask.found # NoRow => ask.found \notin DOMAIN mine
            /\ ask.found = NoRow => clash
            /\ UNCHANGED <<cart, nextRow>>
      /\ Become(r, Idle)
      /\ UNCHANGED <<stock, orders, overtaken, shop>>

\* updateItem: whatever the row's product has become.
SetQuantity(r, i, quantity) ==
  /\ req[r].phase = "idle"
  /\ i \in DOMAIN cart[Owner[r]]
  /\ cart' = [cart EXCEPT ![Owner[r]][i].quantity = quantity]
  /\ UNCHANGED <<stock, nextRow, orders, req, overtaken, shop>>

Without(rows, gone) == [i \in DOMAIN rows \ gone |-> rows[i]]

\* removeItem of one row, or clear of all of them.
RemoveItems(r, gone) ==
  /\ req[r].phase = "idle"
  /\ cart' = [cart EXCEPT ![Owner[r]] = Without(@, gone)]
  /\ UNCHANGED <<stock, nextRow, orders, req, overtaken, shop>>

-----------------------------------------------------------------------------
(* Checkout. *)

\* The cart is read with its products before the transaction begins: what it
\* says of a product's stock is never read again.
ReadCart(r) ==
  LET mine == cart[Owner[r]]
  IN  /\ req[r].phase = "idle"
      /\ mine # <<>>
      /\ Len(orders) + Doing("buying") < MaxOrders
      /\ Become(r, [phase |-> "buying", rows |-> mine,
                    seen |-> [p \in Products |-> stock[p]], open |-> listed,
                    todo |-> DOMAIN mine, checked |-> NoRow, view |-> 0,
                    taken |-> Untaken])
      /\ UNCHANGED <<stock, cart, nextRow, orders, overtaken, shop>>

\* What a row's stock is checked against: a variant is read again inside the
\* transaction, a product is not.
View(r, sku) == IF sku \in Products THEN req[r].seen[sku]
                ELSE stock[sku] - req[r].taken[sku]

\* Mistake: a row let through whatever the stock.
PassesUnchecked(r, i) ==
  LET row == req[r].rows[i]
  IN  ProductFor(row.sku) \in req[r].open /\ Live(row.sku)

Passes(r, i) ==
  LET row == req[r].rows[i]
  IN  /\ ProductFor(row.sku) \in req[r].open
      /\ Live(row.sku)
      /\ View(r, row.sku) >= row.quantity

AtRow(r, i) == req[r].phase = "buying" /\ req[r].checked = NoRow
                 /\ i \in req[r].todo

\* The loop's check of one row. Rows come in no particular order.
CheckRow(r, i) ==
  /\ AtRow(r, i)
  /\ Passes(r, i)
  /\ Become(r, [req[r] EXCEPT !.checked = i,
                              !.view = View(r, req[r].rows[i].sku)])
  /\ UNCHANGED <<stock, cart, nextRow, orders, overtaken, shop>>

\* Mistake: a refused row that neither throws nor goes on.
RefuseAndHang(r, i) ==
  /\ AtRow(r, i)
  /\ ~Passes(r, i)
  /\ UNCHANGED vars

\* Mistake: a row that cannot be had is left out of the order.
SkipRow(r, i) ==
  /\ AtRow(r, i)
  /\ ~Passes(r, i)
  /\ Become(r, [req[r] EXCEPT !.rows = Without(@, {i}), !.todo = @ \ {i}])
  /\ UNCHANGED <<stock, cart, nextRow, orders, overtaken, shop>>

\* A row that cannot be had throws: all that was taken rolls back.
RefuseRow(r, i) ==
  /\ AtRow(r, i)
  /\ ~Passes(r, i)
  /\ Become(r, Idle)
  /\ UNCHANGED <<stock, cart, nextRow, orders, overtaken, shop>>

Wanted(r) == req[r].rows[req[r].checked]

Decrementing(r) == req[r].phase = "buying" /\ req[r].checked # NoRow

\* Mistake: the units handed back, not taken.
TakingBack(r) == [req[r].taken EXCEPT ![Wanted(r).sku] = @ - Wanted(r).quantity]

Taking(r) == [req[r].taken EXCEPT ![Wanted(r).sku] = @ + Wanted(r).quantity]

\* Mistake: the decrement sent to the database outside the transaction.
TakeRowAtOnce(r) ==
  /\ Decrementing(r)
  /\ Live(Wanted(r).sku)
  /\ stock' = [stock EXCEPT ![Wanted(r).sku] = @ - Wanted(r).quantity]
  /\ Become(r, [req[r] EXCEPT !.todo = @ \ {req[r].checked}, !.checked = NoRow])
  /\ UNCHANGED <<cart, nextRow, orders, overtaken, shop>>

\* The row's decrement: relative to what is there, once the lock is had.
TakeRow(r) ==
  LET sku == Wanted(r).sku
  IN  /\ Decrementing(r)
      /\ Live(sku)
      /\ FreeFor(r, sku)
      /\ Become(r, [req[r] EXCEPT !.taken = Taking(r),
                                  !.todo = @ \ {req[r].checked},
                                  !.checked = NoRow])
      /\ overtaken' = IF req[r].view = stock[sku] - req[r].taken[sku]
                      THEN overtaken ELSE overtaken \cup {sku}
      /\ UNCHANGED <<stock, cart, nextRow, orders, shop>>

WaitsFor(r, q) ==
  Decrementing(r) /\ q # r /\ Taken(q)[Wanted(r).sku] > 0

\* The variant went between its check and its decrement, or the transaction is
\* in a ring of transactions that wait for one another and the database breaks
\* it.
ThrowInside(r) ==
  /\ Decrementing(r)
  /\ \/ ~Live(Wanted(r).sku)
     \/ \E ring \in SUBSET Requests :
          /\ r \in ring
          /\ \A a \in ring : \E b, c \in ring : WaitsFor(a, b) /\ WaitsFor(c, a)
  /\ Become(r, Idle)
  /\ UNCHANGED <<stock, cart, nextRow, orders, overtaken, shop>>

Done(r) == req[r].phase = "buying" /\ req[r].todo = {}

NewOrder(r) == [owner |-> Owner[r], rows |-> req[r].rows, cancelled |-> FALSE,
                todo |-> {}, back |-> {}]

\* Mistake: the cart left as it was.
PlaceOrderKeepingCart(r) ==
  /\ Done(r)
  /\ stock' = [s \in Skus |-> stock[s] - req[r].taken[s]]
  /\ orders' = Append(orders, NewOrder(r))
  /\ Become(r, Idle)
  /\ UNCHANGED <<cart, nextRow, overtaken, shop>>

\* The order is created, the customer's rows are deleted, those added since the
\* cart was read with them, and everything commits together.
PlaceOrder(r) ==
  /\ Done(r)
  /\ stock' = [s \in Skus |-> stock[s] - req[r].taken[s]]
  /\ orders' = Append(orders, NewOrder(r))
  /\ cart' = [cart EXCEPT ![Owner[r]] = <<>>]
  /\ Become(r, Idle)
  /\ UNCHANGED <<nextRow, overtaken, shop>>

-----------------------------------------------------------------------------
(* What else moves stock. *)

\* A cancellation commits (Orders has the whole of it); its loop is to come.
Cancel(o) ==
  /\ ~orders[o].cancelled
  /\ orders' = [orders EXCEPT ![o].cancelled = TRUE,
                              ![o].todo = DOMAIN orders[o].rows]
  /\ UNCHANGED <<stock, cart, nextRow, req, overtaken, shop>>

\* One turn of its loop, or the throw that ends it where the variant is gone.
RestockRow(o, i) ==
  LET row == orders[o].rows[i]
  IN  /\ i \in orders[o].todo
      /\ IF Live(row.sku)
         THEN /\ Free(row.sku)
              /\ stock' = [stock EXCEPT ![row.sku] = @ + row.quantity]
              /\ orders' = [orders EXCEPT ![o].todo = @ \ {i},
                                          ![o].back = @ \cup {i}]
         ELSE orders' = [orders EXCEPT ![o].todo = {}] /\ UNCHANGED stock
      /\ UNCHANGED <<cart, nextRow, req, overtaken, shop>>

\* The units of a sku in some of the rows.
Units(rows, ids, sku) ==
  SumFunctionOnSet([i \in DOMAIN rows |-> rows[i].quantity],
                   {i \in ids : rows[i].sku = sku})

\* Units of a sku that orders hold and no cancellation has put back.
Out(sku) ==
  LET held(order) == Units(order.rows, DOMAIN order.rows \ order.back, sku)
  IN  SumFunction([o \in DOMAIN orders |-> held(orders[o])])

Edit == edits < MaxEdits /\ edits' = edits + 1

\* updateStock: the shelf is said to hold so many, whatever was sold since it
\* was counted.
UpdateStock(p, n) ==
  /\ Edit
  /\ Free(p)
  /\ stock' = [stock EXCEPT ![p] = n]
  /\ counted' = [counted EXCEPT ![p] = n + Out(p)]
  /\ UNCHANGED <<listed, variants, cart, nextRow, orders, req, overtaken>>

\* remove and restore.
SetListed(p, on) ==
  /\ Edit
  /\ listed' = IF on THEN listed \cup {p} ELSE listed \ {p}
  /\ UNCHANGED <<stock, variants, cart, nextRow, orders, req, counted,
                 overtaken>>

\* A product edit that names its variants deletes them all and creates those
\* given under new ids: cart rows and order lines keep the old.
ReplaceVariants(p, new, n) ==
  LET old == {v \in Variants : ProductOf[v] = p /\ variants[v] = "live"}
  IN  /\ Edit
      /\ \A v \in new : ProductOf[v] = p /\ variants[v] = "unborn"
      /\ \A v \in old : Free(v)
      /\ variants' = [v \in Variants |-> IF v \in old THEN "gone"
                                         ELSE IF v \in new THEN "live"
                                         ELSE variants[v]]
      /\ stock' = [s \in Skus |-> IF s \in new THEN n ELSE stock[s]]
      /\ counted' = [s \in Skus |-> IF s \in new THEN n ELSE counted[s]]
      /\ UNCHANGED <<listed, cart, nextRow, orders, req, overtaken>>

\* The process dies: transactions roll back, restock loops are not resumed.
Crash ==
  /\ \/ \E r \in Requests : req[r].phase # "idle"
     \/ \E o \in DOMAIN orders : orders[o].todo # {}
  /\ req' = [r \in Requests |-> Idle]
  /\ orders' = [o \in DOMAIN orders |-> [orders[o] EXCEPT !.todo = {}]]
  /\ UNCHANGED <<stock, cart, nextRow, overtaken, shop>>

-----------------------------------------------------------------------------

CartStep(r) ==
  \/ \E sku \in Skus, n \in 1 .. MaxQuantity : AskAdd(r, sku, n)
  \/ \E i \in RowIds, n \in 1 .. MaxQuantity : SetQuantity(r, i, n)
  \/ \E i \in DOMAIN cart[Owner[r]] : RemoveItems(r, {i})
  \/ RemoveItems(r, RowIds)

\* What a started request does next, TakeRow aside.
Proceed(r) ==
  \/ WriteAdd(r) \/ ThrowInside(r) \/ PlaceOrder(r)
  \/ \E i \in RowIds : CheckRow(r, i) \/ RefuseRow(r, i)

Admin ==
  \/ \E p \in Products, n \in Recounts : UpdateStock(p, n)
  \/ \E p \in Products, on \in BOOLEAN : SetListed(p, on)
  \/ \E p \in Products, new \in SUBSET Variants, n \in Recounts :
       ReplaceVariants(p, new, n)

Next ==
  \/ \E r \in Requests : CartStep(r) \/ ReadCart(r) \/ Proceed(r) \/ TakeRow(r)
  \/ \E o \in DOMAIN orders : Cancel(o) \/ \E i \in RowIds : RestockRow(o, i)
  \/ Admin \/ Crash

Spec == Init /\ [][Next]_vars

\* Node runs started handlers to their end, and the database hands a row's lock
\* to the transactions that queue for it in turn.
FairSpec ==
  Spec /\ \A r \in Requests : WF_vars(Proceed(r)) /\ SF_vars(TakeRow(r))

-----------------------------------------------------------------------------
(* Properties. *)

TypeOK ==
  /\ stock \in [Skus -> Int]
  /\ listed \subseteq Products
  /\ variants \in [Variants -> {"unborn", "live", "gone"}]
  /\ \A c \in Customers : DOMAIN cart[c] \subseteq RowIds
                         /\ \A i \in DOMAIN cart[c] : cart[c][i] \in Row
  /\ nextRow \in 1 .. MaxRows + 1
  /\ edits \in 0 .. MaxEdits
  /\ \A o \in DOMAIN orders : orders[o] \in Orders
  /\ \A r \in Requests : req[r] \in {Idle} \cup Adding \cup Buying
  /\ overtaken \subseteq Skus

\* Every unit of the last stock count is on the shelf or in an order that still
\* holds it, whatever checkouts, rollbacks, cancellations and crashes came
\* between: nothing is sold twice or put back twice.
StockAddsUp == \A s \in Skus : Live(s) => stock[s] + Out(s) = counted[s]

InDebt(s) ==
  stock[s] < 0 \/ \E r \in Requests : Taken(r)[s] > 0 /\ Taken(r)[s] > stock[s]

\* The shelf is in debt only for a sku that a checkout decremented on a reading
\* that was no longer true: the check-then-decrement holds in every history in
\* which nothing moves between the two.
OversoldOnlyWhenStale == {s \in Skus : InDebt(s)} \subseteq overtaken

\* "stock is checked and decremented atomically per line item": so no sale takes
\* more than there is.
NoOversell == \A s \in Skus : stock[s] >= 0

\* Each customer has one request in flight, as the storefront's buttons mean.
OneAtATime == \A r, q \in Requests : Owner[r] = Owner[q] => r = q

\* A cart row is bought at most once, and is in no cart when it was.
RowOrderedOnce ==
  OneAtATime =>
    \A o \in DOMAIN orders :
      /\ \A c \in Customers : DOMAIN orders[o].rows \cap DOMAIN cart[c] = {}
      /\ \A k \in DOMAIN orders \ {o} :
           DOMAIN orders[o].rows \cap DOMAIN orders[k].rows = {}

\* What is ordered is the customer's cart as it is at that moment: the deletion
\* of the rows loses none that the order does not have.
OrderIsTheCart ==
  [][OneAtATime /\ Len(orders') > Len(orders) =>
       LET o == orders'[Len(orders')] IN o.rows = cart[o.owner]]_vars

\* A checkout ends, with an order or without: transactions that wait for each
\* other's rows do not wait for ever.
CheckoutEnds ==
  \A r \in Requests : req[r].phase = "buying" ~> req[r].phase = "idle"
==============================================================================
