---------------------------- MODULE CheckoutProofs ----------------------------
(***************************************************************************)
(* Proofs about Checkout, for any products and variants, any stock counts, *)
(* any number of customers and of requests in flight.                      *)
(*                                                                         *)
(* The argument comes in layers, each an invariant that the next assumes:  *)
(* types and bounds; what a checkout has taken is what its finished rows   *)
(* ask for, and with it the stock adds up; a row's lock has one holder,    *)
(* and what it holds is covered unless its reading was stale; row ids are  *)
(* used once.                                                              *)
(***************************************************************************)
EXTENDS Checkout, SumTheorems, SequenceTheorems

AddingNow == {r \in Requests : req[r].phase = "adding"}

\* What a request has noted fits together.
JobFits(j) ==
  /\ j.phase = "adding" => j.had + j.row.quantity <= MaxQuantity
  /\ j.phase = "buying" =>
       /\ j.todo \subseteq DOMAIN j.rows
       /\ j.checked # NoRow =>
            j.checked \in j.todo /\ j.view >= j.rows[j.checked].quantity

\* What a cancellation has put back, and has still to put back.
OrderFits(order) ==
  /\ order.todo \subseteq DOMAIN order.rows \ order.back
  /\ order.back \subseteq DOMAIN order.rows
  /\ ~order.cancelled => order.todo = {} /\ order.back = {}

Jobs == {Idle} \cup Adding \cup Buying

TypeInv ==
  /\ stock \in [Skus -> Int] /\ counted \in [Skus -> Int]
  /\ listed \in SUBSET Products
  /\ variants \in [Variants -> {"unborn", "live", "gone"}]
  /\ cart \in [Customers -> Rows]
  /\ orders \in Seq(Orders) /\ \A o \in DOMAIN orders : OrderFits(orders[o])
  /\ req \in [Requests -> Jobs] /\ \A r \in Requests : JobFits(req[r])
  /\ edits \in 0 .. MaxEdits
  /\ overtaken \in SUBSET Skus
  /\ nextRow \in Nat \ {0}
  /\ IsFiniteSet(AddingNow) /\ nextRow + Cardinality(AddingNow) <= MaxRows + 1

-----------------------------------------------------------------------------

\* A variant nobody has created yet is in no row.
Known(sku) == sku \in Products \/ variants[sku] # "unborn"

AllKnown(rows) == \A i \in DOMAIN rows : Known(rows[i].sku)

JobKnown(j) ==
  /\ j.phase = "adding" => Known(j.row.sku)
  /\ j.phase = "buying" => AllKnown(j.rows)

KnownInv ==
  /\ \A c \in Customers : AllKnown(cart[c])
  /\ \A o \in DOMAIN orders : AllKnown(orders[o].rows)
  /\ \A r \in Requests : JobKnown(req[r])

\* A checkout has taken what the rows it is done with ask for.
TakenFits(j) ==
  j.phase = "buying" =>
    \A s \in Skus : j.taken[s] = Units(j.rows, DOMAIN j.rows \ j.todo, s)

StockInv ==
  KnownInv /\ StockAddsUp /\ \A r \in Requests : TakenFits(req[r])

-----------------------------------------------------------------------------

\* A sku is taken from by one transaction at a time, and no further than there
\* is unless one of them went by a stale reading.
LocksInv ==
  /\ \A r, q \in Requests : r # q =>
       \A s \in Skus : Taken(r)[s] = 0 \/ Taken(q)[s] = 0
  /\ \A s \in Skus \ overtaken :
       stock[s] >= 0 /\ \A r \in Requests : Taken(r)[s] <= stock[s]

-----------------------------------------------------------------------------

Below(ids) == ids \subseteq 1 .. nextRow - 1

Apart(ids, others) == ids \cap others = {}

\* Row ids are given out once: to one cart, then to one order.
RowsHold ==
  /\ \A c \in Customers :
       /\ Below(DOMAIN cart[c])
       /\ \A d \in Customers \ {c} : Apart(DOMAIN cart[c], DOMAIN cart[d])
  /\ \A o \in DOMAIN orders :
       /\ Below(DOMAIN orders[o].rows)
       /\ \A c \in Customers : Apart(DOMAIN orders[o].rows, DOMAIN cart[c])
       /\ \A k \in DOMAIN orders \ {o} :
            Apart(DOMAIN orders[o].rows, DOMAIN orders[k].rows)
  /\ \A r \in Requests :
       req[r].phase = "buying" => req[r].rows = cart[Owner[r]]

RowsInv == OneAtATime => RowsHold

Inv == TypeInv /\ StockInv /\ LocksInv /\ RowsInv

-----------------------------------------------------------------------------
(* Rows and requests. *)

\* What is in a set of rows.
LEMMA RowsAre ==
  ASSUME NEW rows \in Rows
  PROVE  /\ rows \in [DOMAIN rows -> Row] /\ DOMAIN rows \in SUBSET RowIds
         /\ IsFiniteSet(DOMAIN rows)
         /\ \A i \in DOMAIN rows :
              /\ rows[i].sku \in Skus /\ rows[i].quantity \in 1 .. MaxQuantity
              /\ rows[i].quantity \in Nat
<1>1. PICK S \in SUBSET RowIds : rows \in [S -> Row]
  BY DEF Rows
<1>2. IsFiniteSet(RowIds)
  BY BoundsAssumption, FS_Interval DEF RowIds
<1>3. IsFiniteSet(S)
  BY <1>2, FS_Subset
<1>4. \A i \in S : rows[i] \in Row
  BY <1>1
<1>5. \A i \in S :
        /\ rows[i].sku \in Skus /\ rows[i].quantity \in 1 .. MaxQuantity
        /\ rows[i].quantity \in Nat
  BY <1>4, BoundsAssumption DEF Row
<1>. QED
  BY <1>1, <1>3, <1>5

\* No rows.
LEMMA NoRows == <<>> \in Rows /\ DOMAIN <<>> = {}
<1>1. DOMAIN <<>> = {} /\ <<>> = [i \in {} |-> <<>>[i]]
  OBVIOUS
<1>2. <<>> \in [{} -> Row] /\ {} \in SUBSET RowIds
  BY <1>1
<1>. QED
  BY <1>1, <1>2 DEF Rows

\* Some of the rows.
LEMMA WithoutRows ==
  ASSUME NEW rows \in Rows, NEW gone
  PROVE  /\ Without(rows, gone) \in Rows
         /\ DOMAIN Without(rows, gone) = DOMAIN rows \ gone
         /\ \A i \in DOMAIN rows \ gone : Without(rows, gone)[i] = rows[i]
<1>1. DOMAIN rows \in SUBSET RowIds /\ rows \in [DOMAIN rows -> Row]
  BY RowsAre
<1>2. Without(rows, gone) \in [DOMAIN rows \ gone -> Row]
  BY <1>1 DEF Without
<1>3. DOMAIN rows \ gone \in SUBSET RowIds
  BY <1>1
<1>. QED
  BY <1>2, <1>3 DEF Rows, Without

\* The phases tell the requests' records apart.
LEMMA JobsAre ==
  ASSUME NEW j \in Jobs
  PROVE  /\ j.phase = "idle" \/ j.phase = "adding" \/ j.phase = "buying"
         /\ j.phase = "idle" => j = Idle
         /\ j.phase = "adding" =>
              /\ j.row \in Row /\ j.found \in RowIds \cup {NoRow}
              /\ j.had \in 0 .. MaxQuantity
         /\ j.phase = "buying" =>
              /\ j \in Buying /\ j.rows \in Rows /\ j.seen \in [Products -> Int]
              /\ j.open \in SUBSET Products /\ j.todo \in SUBSET RowIds
              /\ j.checked \in RowIds \cup {NoRow} /\ j.view \in Int
              /\ j.taken \in [Skus -> Nat]
<1>1. CASE j = Idle
  BY <1>1 DEF Idle
<1>2. CASE j \in Adding
  BY <1>2 DEF Adding
<1>3. CASE j \in Buying
  BY <1>3 DEF Buying
<1>. QED
  BY <1>1, <1>2, <1>3 DEF Jobs

\* A request at rest.
LEMMA IdleJob == Idle \in Jobs /\ Idle.phase = "idle" /\ JobFits(Idle)
<1>1. Idle \in Jobs /\ Idle.phase = "idle"
  BY DEF Jobs, Idle
<1>. QED
  BY <1>1 DEF JobFits

\* A request moves on, but not to adding a row.
LEMMA JobMoves ==
  ASSUME TypeInv, NEW r \in Requests, NEW what \in Jobs, Become(r, what),
         what.phase # "adding", JobFits(what)
  PROVE  /\ req' \in [Requests -> Jobs] /\ \A q \in Requests : JobFits(req'[q])
         /\ \A q \in Requests : req'[q] = IF q = r THEN what ELSE req[q]
         /\ IsFiniteSet(AddingNow') /\ Cardinality(AddingNow') \in Nat
         /\ AddingNow' = AddingNow \ {r}
         /\ nextRow + Cardinality(AddingNow') <= MaxRows + 1
<1>1. req' = [req EXCEPT ![r] = what] /\ req \in [Requests -> Jobs]
  BY DEF Become, TypeInv
<1>2. \A q \in Requests : req'[q] = IF q = r THEN what ELSE req[q]
  BY <1>1
<1>3. req' \in [Requests -> Jobs]
  BY <1>1
<1>4. \A q \in Requests : JobFits(req'[q])
  BY <1>2 DEF TypeInv
<1>5. AddingNow' = AddingNow \ {r}
  BY <1>2 DEF AddingNow
<1>6. AddingNow \ {r} \subseteq AddingNow /\ IsFiniteSet(AddingNow)
  BY DEF TypeInv
<1>7. /\ IsFiniteSet(AddingNow \ {r})
      /\ Cardinality(AddingNow \ {r}) <= Cardinality(AddingNow)
  <2>. HIDE DEF AddingNow
  <2>. QED
    BY <1>6, FS_Subset
<1>8. Cardinality(AddingNow \ {r}) \in Nat /\ Cardinality(AddingNow) \in Nat
  <2>. HIDE DEF AddingNow
  <2>. QED
    BY <1>6, <1>7, FS_CardinalityType
<1>9. nextRow + Cardinality(AddingNow \ {r}) <= MaxRows + 1
  BY <1>7, <1>8, BoundsAssumption DEF TypeInv
<1>. QED
  BY <1>2, <1>3, <1>4, <1>5, <1>7, <1>8, <1>9

\* Nothing happened in the shop yet.
LEMMA InitTypes == Init => TypeInv
<1>. SUFFICES ASSUME Init PROVE TypeInv
  OBVIOUS
<1>1. stock \in [Skus -> Int] /\ counted \in [Skus -> Int]
  BY CountsAssumption DEF Init
<1>2. variants \in [Variants -> {"unborn", "live", "gone"}]
  BY DEF Init
<1>3. cart \in [Customers -> Rows]
  BY NoRows DEF Init
<1>4. orders = <<>> /\ orders \in Seq(Orders) /\ DOMAIN orders = {}
  BY DEF Init
<1>5. /\ req \in [Requests -> Jobs] /\ \A r \in Requests : req[r] = Idle
  BY IdleJob DEF Init
<1>6. AddingNow = {}
  BY <1>5, IdleJob DEF AddingNow
<1>7. /\ IsFiniteSet(AddingNow) /\ nextRow \in Nat \ {0}
      /\ nextRow + Cardinality(AddingNow) <= MaxRows + 1
  BY <1>6, FS_EmptySet, BoundsAssumption DEF Init
<1>. QED
  BY <1>1, <1>2, <1>3, <1>4, <1>5, <1>7, IdleJob, BoundsAssumption
    DEF Init, TypeInv

\* The shelf, the carts and the orders as they were, and one request moved on.
LEMMA OnlyJob ==
  ASSUME TypeInv, UNCHANGED <<stock, cart, nextRow, orders, shop>>,
         overtaken' \in SUBSET Skus, NEW r \in Requests, NEW what \in Jobs,
         Become(r, what), what.phase # "adding", JobFits(what)
  PROVE  TypeInv'
<1>1. /\ req' \in [Requests -> Jobs] /\ \A q \in Requests : JobFits(req'[q])
      /\ IsFiniteSet(AddingNow')
      /\ nextRow + Cardinality(AddingNow') <= MaxRows + 1
  BY JobMoves
<1>2. /\ stock' = stock /\ cart' = cart /\ nextRow' = nextRow
      /\ orders' = orders /\ listed' = listed /\ variants' = variants
      /\ edits' = edits /\ counted' = counted
  BY DEF shop
<1>. QED
  BY <1>1, <1>2 DEF TypeInv

\* Requests as they were.
LEMMA SameJobs ==
  ASSUME TypeInv, req' = req, nextRow' = nextRow
  PROVE  /\ req' \in [Requests -> Jobs] /\ \A r \in Requests : JobFits(req'[r])
         /\ nextRow' \in Nat \ {0} /\ IsFiniteSet(AddingNow')
         /\ nextRow' + Cardinality(AddingNow') <= MaxRows + 1
<1>1. AddingNow' = AddingNow
  BY DEF AddingNow
<1>. QED
  BY <1>1 DEF TypeInv

\* One order rewritten.
LEMMA OneOrder ==
  ASSUME TypeInv, NEW o \in DOMAIN orders, NEW what \in Orders, OrderFits(what),
         orders' = [orders EXCEPT ![o] = what]
  PROVE  /\ orders' \in Seq(Orders) /\ DOMAIN orders' = DOMAIN orders
         /\ \A k \in DOMAIN orders : orders'[k] = IF k = o THEN what ELSE orders[k]
         /\ \A k \in DOMAIN orders' : OrderFits(orders'[k])
<1>1. orders \in [1 .. Len(orders) -> Orders] /\ Len(orders) \in Nat
  BY DEF TypeInv
<1>2. orders' \in [1 .. Len(orders) -> Orders]
  BY <1>1
<1>3. orders' \in Seq(Orders)
  BY <1>1, <1>2, SeqDef
<1>4. /\ DOMAIN orders' = DOMAIN orders
      /\ \A k \in DOMAIN orders : orders'[k] = IF k = o THEN what ELSE orders[k]
  OBVIOUS
<1>5. \A k \in DOMAIN orders' : OrderFits(orders'[k])
  BY <1>4 DEF TypeInv
<1>. QED
  BY <1>3, <1>4, <1>5

\* What an order is.
LEMMA OrdersAre ==
  ASSUME TypeInv, NEW o \in DOMAIN orders
  PROVE  /\ orders[o] \in Orders /\ OrderFits(orders[o])
         /\ orders[o].owner \in Customers /\ orders[o].rows \in Rows
         /\ orders[o].cancelled \in BOOLEAN
         /\ orders[o].todo \in SUBSET RowIds /\ orders[o].back \in SUBSET RowIds
<1>1. orders[o] \in Orders /\ OrderFits(orders[o])
  BY DEF TypeInv
<1>. QED
  BY <1>1 DEF Orders

\* A row asked for.
LEMMA AskAddTypes ==
  ASSUME TypeInv, NEW r \in Requests, NEW sku \in Skus,
         NEW n \in 1 .. MaxQuantity, AskAdd(r, sku, n)
  PROVE  TypeInv'
<1>. DEFINE mine == cart[Owner[r]]
            same == {i \in DOMAIN mine : sku \in Variants /\ mine[i].sku = sku}
            found == IF same = {} THEN NoRow ELSE CHOOSE i \in same : TRUE
            had == IF same = {} THEN 0 ELSE mine[found].quantity
            what == [phase |-> "adding", found |-> found, had |-> had,
                     row |-> [sku |-> sku, quantity |-> n]]
<1>1. /\ req[r].phase = "idle" /\ had + n <= MaxQuantity
      /\ nextRow + Doing("adding") <= MaxRows /\ Become(r, what)
      /\ UNCHANGED <<stock, cart, nextRow, orders, overtaken, shop>>
  BY DEF AskAdd
<1>2. mine \in Rows
  BY OwnerAssumption DEF TypeInv
<1>3. found \in RowIds \cup {NoRow} /\ had \in 0 .. MaxQuantity
  <2>1. CASE same = {}
    BY <2>1, BoundsAssumption
  <2>2. CASE same # {}
    <3>1. found \in same
      BY <2>2
    <3>2. found \in DOMAIN mine
      BY <3>1
    <3>3. /\ DOMAIN mine \in SUBSET RowIds
          /\ mine[found].quantity \in 1 .. MaxQuantity
      <4>. HIDE DEF mine, found
      <4>. QED
        BY <1>2, <3>2, RowsAre
    <3>4. had = mine[found].quantity
      BY <2>2
    <3>. HIDE DEF mine, found, had, same
    <3>. QED
      BY <3>2, <3>3, <3>4, BoundsAssumption
  <2>. QED
    BY <2>1, <2>2
<1>4. what \in Jobs /\ what.phase = "adding" /\ JobFits(what)
  <2>1. [sku |-> sku, quantity |-> n] \in Row
    BY DEF Row
  <2>. HIDE DEF found, had
  <2>2. what \in Adding
    BY <1>3, <2>1 DEF Adding
  <2>. QED
    BY <1>1, <2>2 DEF Jobs, JobFits
<1>5. \A q \in Requests : req'[q] = IF q = r THEN what ELSE req[q]
  BY <1>1 DEF TypeInv, Become
<1>6. req' \in [Requests -> Jobs]
  <2>. HIDE DEF what
  <2>. QED
    BY <1>1, <1>4 DEF TypeInv, Become
<1>7. \A q \in Requests : JobFits(req'[q])
  <2>. HIDE DEF what
  <2>. QED
    BY <1>4, <1>5 DEF TypeInv
<1>8. AddingNow' = AddingNow \cup {r} /\ r \notin AddingNow
  <2>. HIDE DEF what
  <2>. QED
    BY <1>1, <1>4, <1>5 DEF AddingNow
<1>9. /\ IsFiniteSet(AddingNow')
      /\ nextRow + Cardinality(AddingNow') <= MaxRows + 1
  <2>1. Doing("adding") = Cardinality(AddingNow)
    BY DEF Doing, AddingNow
  <2>2. IsFiniteSet(AddingNow) /\ nextRow \in Nat
    BY DEF TypeInv
  <2>3. Cardinality(AddingNow) \in Nat
    BY <2>2, FS_CardinalityType
  <2>4. /\ IsFiniteSet(AddingNow \cup {r})
        /\ Cardinality(AddingNow \cup {r}) = Cardinality(AddingNow) + 1
    <3>. HIDE DEF AddingNow
    <3>. QED
      BY <1>8, <2>2, FS_AddElement
  <2>. HIDE DEF AddingNow
  <2>. QED
    BY <1>1, <1>8, <2>1, <2>2, <2>3, <2>4, BoundsAssumption
<1>10. /\ stock' = stock /\ cart' = cart /\ nextRow' = nextRow
       /\ orders' = orders /\ listed' = listed /\ variants' = variants
       /\ edits' = edits /\ counted' = counted /\ overtaken' = overtaken
  BY <1>1 DEF shop
<1>. QED
  BY <1>6, <1>7, <1>9, <1>10 DEF TypeInv

\* A row written, added to or refused.
LEMMA WriteAddTypes ==
  ASSUME TypeInv, NEW r \in Requests, WriteAdd(r)
  PROVE  TypeInv'
<1>. DEFINE ask == req[r]
            mine == cart[Owner[r]]
<1>1. /\ ask.phase = "adding" /\ Become(r, Idle)
      /\ UNCHANGED <<stock, orders, overtaken, shop>>
  BY DEF WriteAdd
<1>2. /\ ask \in Jobs /\ ask.row \in Row /\ ask.had \in 0 .. MaxQuantity
      /\ ask.had + ask.row.quantity <= MaxQuantity
      /\ ask.row.quantity \in 1 .. MaxQuantity
  <2>1. ask \in Jobs /\ JobFits(ask)
    BY DEF TypeInv
  <2>2. ask.row \in Row /\ ask.had \in 0 .. MaxQuantity
    BY <1>1, <2>1, JobsAre
  <2>. HIDE DEF ask
  <2>. QED
    BY <1>1, <2>1, <2>2 DEF JobFits, Row
<1>3. mine \in Rows /\ Owner[r] \in Customers
  BY OwnerAssumption DEF TypeInv
<1>4. mine \in [DOMAIN mine -> Row] /\ DOMAIN mine \in SUBSET RowIds
  BY <1>3, RowsAre
<1>5. /\ req' \in [Requests -> Jobs] /\ \A q \in Requests : JobFits(req'[q])
      /\ IsFiniteSet(AddingNow') /\ Cardinality(AddingNow') \in Nat
      /\ AddingNow' = AddingNow \ {r}
      /\ nextRow + Cardinality(AddingNow') <= MaxRows + 1
  BY <1>1, IdleJob, JobMoves
<1>6. nextRow + Cardinality(AddingNow') <= MaxRows /\ nextRow \in RowIds
  <2>1. r \in AddingNow /\ IsFiniteSet(AddingNow)
    BY <1>1 DEF AddingNow, TypeInv
  <2>2. Cardinality(AddingNow \ {r}) = Cardinality(AddingNow) - 1
    <3>. HIDE DEF AddingNow
    <3>. QED
      BY <2>1, FS_RemoveElement
  <2>3. Cardinality(AddingNow) \in Nat
    BY <2>1, FS_CardinalityType
  <2>4. nextRow \in Nat \ {0}
        /\ nextRow + Cardinality(AddingNow) <= MaxRows + 1
    BY DEF TypeInv
  <2>. HIDE DEF AddingNow
  <2>. QED
    BY <1>5, <2>2, <2>3, <2>4, BoundsAssumption DEF RowIds
<1>7. cart' \in [Customers -> Rows] /\ nextRow' \in {nextRow, nextRow + 1}
  <2>1. CASE /\ ask.found \in DOMAIN mine
             /\ cart' = [cart EXCEPT ![Owner[r]][ask.found].quantity =
                           ask.had + ask.row.quantity]
             /\ UNCHANGED nextRow
    <3>. DEFINE row == [mine[ask.found] EXCEPT
                          !.quantity = ask.had + ask.row.quantity]
                new == [mine EXCEPT ![ask.found] = row]
    <3>1. row \in Row
      <4>1. mine[ask.found] \in Row
        BY <1>4, <2>1
      <4>2. ask.had + ask.row.quantity \in 1 .. MaxQuantity
        BY <1>2
      <4>. HIDE DEF ask, mine
      <4>. QED
        BY <4>1, <4>2 DEF Row
    <3>2. new \in [DOMAIN mine -> Row]
      <4>. HIDE DEF row, mine
      <4>. QED
        BY <1>4, <3>1
    <3>3. new \in Rows
      <4>. HIDE DEF new, mine
      <4>. QED
        BY <1>4, <3>2 DEF Rows
    <3>4. cart' = [cart EXCEPT ![Owner[r]] = new]
      BY <2>1
    <3>5. cart \in [Customers -> Rows]
      BY DEF TypeInv
    <3>. HIDE DEF new
    <3>. QED
      BY <2>1, <3>3, <3>4, <3>5
  <2>2. CASE /\ cart' = [cart EXCEPT ![Owner[r]] =
                           [i \in DOMAIN mine \cup {nextRow} |->
                              IF i = nextRow THEN ask.row ELSE mine[i]]]
             /\ nextRow' = nextRow + 1
    <3>. DEFINE S == DOMAIN mine \cup {nextRow}
                new == [i \in S |-> IF i = nextRow THEN ask.row ELSE mine[i]]
    <3>1. new \in [S -> Row] /\ S \in SUBSET RowIds
      <4>. HIDE DEF mine, ask
      <4>. QED
        BY <1>2, <1>4, <1>6
    <3>2. new \in Rows
      <4>. HIDE DEF new, S
      <4>. QED
        BY <3>1 DEF Rows
    <3>3. cart' = [cart EXCEPT ![Owner[r]] = new]
      BY <2>2
    <3>4. cart \in [Customers -> Rows]
      BY DEF TypeInv
    <3>. HIDE DEF new
    <3>. QED
      BY <2>2, <3>2, <3>3, <3>4
  <2>3. CASE UNCHANGED <<cart, nextRow>>
    BY <2>3 DEF TypeInv
  <2>. QED
    BY <2>1, <2>2, <2>3 DEF WriteAdd
<1>8. nextRow' \in Nat \ {0} /\ nextRow' + Cardinality(AddingNow') <= MaxRows + 1
  <2>1. nextRow \in Nat \ {0} /\ Cardinality(AddingNow') \in Nat
    BY <1>5 DEF TypeInv
  <2>. QED
    BY <1>6, <1>7, <2>1, BoundsAssumption
<1>9. /\ stock' = stock /\ orders' = orders /\ listed' = listed
      /\ variants' = variants /\ edits' = edits /\ counted' = counted
      /\ overtaken' = overtaken
  BY <1>1 DEF shop
<1>. QED
  BY <1>5, <1>7, <1>8, <1>9 DEF TypeInv

\* What a buying request has noted.
LEMMA BuyingIs ==
  ASSUME TypeInv, NEW r \in Requests, req[r].phase = "buying"
  PROVE  /\ req[r] \in Buying /\ req[r].rows \in Rows /\ JobFits(req[r])
         /\ req[r].seen \in [Products -> Int] /\ req[r].view \in Int
         /\ req[r].taken \in [Skus -> Nat] /\ req[r].todo \subseteq DOMAIN req[r].rows
         /\ req[r].todo \in SUBSET RowIds
         /\ req[r].checked \in {NoRow} \cup req[r].todo
         /\ \A i \in DOMAIN req[r].rows :
              /\ req[r].rows[i].sku \in Skus /\ req[r].rows[i].quantity \in Nat
              /\ i # NoRow
<1>1. req[r] \in Jobs /\ JobFits(req[r])
  BY DEF TypeInv
<1>2. /\ req[r] \in Buying /\ req[r].rows \in Rows
      /\ req[r].seen \in [Products -> Int] /\ req[r].view \in Int
      /\ req[r].taken \in [Skus -> Nat] /\ req[r].todo \in SUBSET RowIds
  BY <1>1, JobsAre
<1>3. /\ req[r].todo \subseteq DOMAIN req[r].rows
      /\ req[r].checked \in {NoRow} \cup req[r].todo
  BY <1>1 DEF JobFits
<1>4. \A i \in DOMAIN req[r].rows :
        /\ req[r].rows[i].sku \in Skus /\ req[r].rows[i].quantity \in Nat
        /\ i \in RowIds
  BY <1>2, RowsAre
<1>. QED
  BY <1>1, <1>2, <1>3, <1>4, BoundsAssumption DEF RowIds, NoRow

\* The parts of a cart's change.
LEMMA CartTypes ==
  ASSUME TypeInv, NEW c \in Customers, NEW new \in Rows,
         cart' = [cart EXCEPT ![c] = new], req' = req,
         UNCHANGED <<stock, nextRow, orders, overtaken, shop>>
  PROVE  TypeInv'
<1>1. cart' \in [Customers -> Rows]
  BY DEF TypeInv
<1>2. /\ req' \in [Requests -> Jobs] /\ \A r \in Requests : JobFits(req'[r])
      /\ nextRow' \in Nat \ {0} /\ IsFiniteSet(AddingNow')
      /\ nextRow' + Cardinality(AddingNow') <= MaxRows + 1
  BY SameJobs
<1>3. /\ stock' = stock /\ orders' = orders /\ listed' = listed
      /\ variants' = variants /\ edits' = edits /\ counted' = counted
      /\ overtaken' = overtaken
  BY DEF shop
<1>. QED
  BY <1>1, <1>2, <1>3 DEF TypeInv

\* A row set to another quantity.
LEMMA SetQuantityTypes ==
  ASSUME TypeInv, NEW r \in Requests, NEW i \in RowIds,
         NEW n \in 1 .. MaxQuantity, SetQuantity(r, i, n)
  PROVE  TypeInv'
<1>. DEFINE mine == cart[Owner[r]]
            row == [mine[i] EXCEPT !.quantity = n]
            new == [mine EXCEPT ![i] = row]
<1>1. mine \in Rows /\ Owner[r] \in Customers
  BY OwnerAssumption DEF TypeInv
<1>2. mine \in [DOMAIN mine -> Row] /\ DOMAIN mine \in SUBSET RowIds
  BY <1>1, RowsAre
<1>3. i \in DOMAIN mine /\ cart' = [cart EXCEPT ![Owner[r]] = new] /\ req' = req
      /\ UNCHANGED <<stock, nextRow, orders, overtaken, shop>>
  BY DEF SetQuantity
<1>4. row \in Row
  <2>1. mine[i] \in Row
    BY <1>2, <1>3
  <2>. HIDE DEF mine
  <2>. QED
    BY <2>1 DEF Row
<1>5. new \in [DOMAIN mine -> Row]
  <2>. HIDE DEF row, mine
  <2>. QED
    BY <1>2, <1>4
<1>6. new \in Rows
  <2>. HIDE DEF new, mine
  <2>. QED
    BY <1>2, <1>5 DEF Rows
<1>. HIDE DEF new
<1>. QED
  BY <1>1, <1>3, <1>6, CartTypes

\* Rows removed.
LEMMA RemoveItemsTypes ==
  ASSUME TypeInv, NEW r \in Requests, NEW gone, RemoveItems(r, gone)
  PROVE  TypeInv'
<1>1. cart[Owner[r]] \in Rows /\ Owner[r] \in Customers
  BY OwnerAssumption DEF TypeInv
<1>2. Without(cart[Owner[r]], gone) \in Rows
  BY <1>1, WithoutRows
<1>3. /\ cart' = [cart EXCEPT ![Owner[r]] = Without(cart[Owner[r]], gone)]
      /\ req' = req /\ UNCHANGED <<stock, nextRow, orders, overtaken, shop>>
  BY DEF RemoveItems
<1>. QED
  BY <1>1, <1>2, <1>3, CartTypes

\* A checkout's start.
LEMMA ReadCartTypes ==
  ASSUME TypeInv, NEW r \in Requests, ReadCart(r)
  PROVE  TypeInv'
<1>. DEFINE mine == cart[Owner[r]]
            what == [phase |-> "buying", rows |-> mine,
                     seen |-> [p \in Products |-> stock[p]], open |-> listed,
                     todo |-> DOMAIN mine, checked |-> NoRow, view |-> 0,
                     taken |-> Untaken]
<1>1. mine \in Rows
  BY OwnerAssumption DEF TypeInv
<1>2. DOMAIN mine \in SUBSET RowIds
  BY <1>1, RowsAre
<1>3. [p \in Products |-> stock[p]] \in [Products -> Int]
  BY DEF TypeInv, Skus
<1>4. Untaken \in [Skus -> Nat] /\ listed \in SUBSET Products
  BY DEF Untaken, TypeInv
<1>5. what \in Buying
  <2>. HIDE DEF mine
  <2>. QED
    BY <1>1, <1>2, <1>3, <1>4 DEF Buying
<1>6. what \in Jobs /\ what.phase = "buying" /\ JobFits(what)
  <2>1. what.todo = DOMAIN what.rows /\ what.checked = NoRow
        /\ what.phase = "buying"
    OBVIOUS
  <2>. HIDE DEF what
  <2>. QED
    BY <1>5, <2>1 DEF Jobs, JobFits
<1>7. /\ Become(r, what)
      /\ UNCHANGED <<stock, cart, nextRow, orders, overtaken, shop>>
  BY DEF ReadCart
<1>8. overtaken' \in SUBSET Skus
  BY <1>7 DEF TypeInv
<1>. HIDE DEF what
<1>. QED
  BY <1>6, <1>7, <1>8, OnlyJob

\* A row checked.
LEMMA CheckRowTypes ==
  ASSUME TypeInv, NEW r \in Requests, NEW i \in RowIds, CheckRow(r, i)
  PROVE  TypeInv'
<1>. DEFINE view == View(r, req[r].rows[i].sku)
            what == [req[r] EXCEPT !.checked = i, !.view = view]
<1>1. /\ req[r].phase = "buying" /\ i \in req[r].todo
      /\ view >= req[r].rows[i].quantity /\ Become(r, what)
      /\ UNCHANGED <<stock, cart, nextRow, orders, overtaken, shop>>
  BY DEF CheckRow, AtRow, Passes
<1>2. /\ req[r] \in Buying /\ req[r].todo \subseteq DOMAIN req[r].rows
      /\ req[r].rows[i].sku \in Skus
      /\ req[r].seen \in [Products -> Int] /\ req[r].taken \in [Skus -> Nat]
  BY <1>1, BuyingIs
<1>3. view \in Int
  <2>1. stock \in [Skus -> Int]
    BY DEF TypeInv
  <2>2. view = IF req[r].rows[i].sku \in Products
               THEN req[r].seen[req[r].rows[i].sku]
               ELSE stock[req[r].rows[i].sku] - req[r].taken[req[r].rows[i].sku]
    BY DEF View
  <2>. HIDE DEF view
  <2>. QED
    BY <1>2, <2>1, <2>2
<1>4. what \in Buying
  <2>. HIDE DEF view
  <2>. QED
    BY <1>2, <1>3 DEF Buying
<1>5. what \in Jobs /\ what.phase = "buying" /\ JobFits(what)
  <2>1. /\ what.phase = "buying" /\ what.todo = req[r].todo
        /\ what.rows = req[r].rows /\ what.checked = i /\ what.view = view
    <3>. HIDE DEF view
    <3>. QED
      BY <1>2 DEF Buying
  <2>. HIDE DEF what, view
  <2>. QED
    BY <1>1, <1>2, <1>4, <2>1 DEF Jobs, JobFits
<1>6. overtaken' \in SUBSET Skus
  BY <1>1 DEF TypeInv
<1>. HIDE DEF what, view
<1>. QED
  BY <1>1, <1>5, <1>6, OnlyJob

\* A checkout given up.
LEMMA GiveUpTypes ==
  ASSUME TypeInv, NEW r \in Requests, Become(r, Idle),
         UNCHANGED <<stock, cart, nextRow, orders, overtaken, shop>>
  PROVE  TypeInv'
<1>1. overtaken' \in SUBSET Skus
  BY DEF TypeInv
<1>. QED
  BY <1>1, IdleJob, OnlyJob

\* The request of a row taken.
AfterTaking(r) == [req[r] EXCEPT !.taken = Taking(r),
                                 !.todo = @ \ {req[r].checked},
                                 !.checked = NoRow]

\* What taking a row notes.
LEMMA TakeRowJob ==
  ASSUME TypeInv, NEW r \in Requests, TakeRow(r)
  PROVE  /\ req[r].phase = "buying" /\ req[r].checked \in req[r].todo
         /\ req[r].todo \subseteq DOMAIN req[r].rows /\ req[r].rows \in Rows
         /\ Wanted(r) = req[r].rows[req[r].checked]
         /\ Wanted(r).sku \in Skus /\ Wanted(r).quantity \in Nat
         /\ req[r].view >= Wanted(r).quantity /\ req[r].view \in Int
         /\ req[r].taken \in [Skus -> Nat] /\ Taking(r) \in [Skus -> Nat]
         /\ Become(r, AfterTaking(r)) /\ AfterTaking(r) \in Buying
         /\ AfterTaking(r).phase = "buying" /\ AfterTaking(r).rows = req[r].rows
         /\ AfterTaking(r).todo = req[r].todo \ {req[r].checked}
         /\ AfterTaking(r).checked = NoRow /\ AfterTaking(r).taken = Taking(r)
<1>. DEFINE i == req[r].checked
            want == Wanted(r)
<1>1. /\ req[r].phase = "buying" /\ i # NoRow /\ Become(r, AfterTaking(r))
      /\ want = req[r].rows[i]
  BY DEF TakeRow, Decrementing, Wanted, AfterTaking
<1>2. /\ req[r] \in Buying /\ req[r].todo \subseteq DOMAIN req[r].rows
      /\ i \in {NoRow} \cup req[r].todo
      /\ req[r].taken \in [Skus -> Nat] /\ JobFits(req[r])
      /\ req[r].rows \in Rows /\ req[r].view \in Int
  BY <1>1, BuyingIs
<1>3. i \in req[r].todo /\ i \in DOMAIN req[r].rows
  BY <1>1, <1>2
<1>4. req[r].view >= want.quantity
  BY <1>1, <1>2 DEF JobFits
<1>5. want.sku \in Skus /\ want.quantity \in Nat
  BY <1>1, <1>3, BuyingIs
<1>6. Taking(r) \in [Skus -> Nat]
  <2>1. Taking(r) = [req[r].taken EXCEPT ![want.sku] = @ + want.quantity]
    BY DEF Taking
  <2>. DEFINE n == want.quantity
              k == want.sku
              t == req[r].taken
  <2>. HIDE DEF n, k, t
  <2>2. [t EXCEPT ![k] = @ + n] \in [Skus -> Nat]
    <3>1. t \in [Skus -> Nat] /\ k \in Skus /\ n \in Nat
      BY <1>2, <1>5 DEF t, k, n
    <3>. QED
      BY <3>1
  <2>. QED
    BY <2>1, <2>2 DEF n, k, t
<1>7. /\ AfterTaking(r) \in Buying /\ AfterTaking(r).phase = "buying"
      /\ AfterTaking(r).rows = req[r].rows
      /\ AfterTaking(r).todo = req[r].todo \ {i}
      /\ AfterTaking(r).checked = NoRow /\ AfterTaking(r).taken = Taking(r)
  BY <1>2, <1>6 DEF Buying, AfterTaking
<1>. QED
  BY <1>1, <1>2, <1>3, <1>4, <1>5, <1>6, <1>7

\* A row taken.
LEMMA TakeRowTypes ==
  ASSUME TypeInv, NEW r \in Requests, TakeRow(r)
  PROVE  TypeInv'
<1>1. /\ Wanted(r).sku \in Skus /\ req[r].todo \subseteq DOMAIN req[r].rows
      /\ Become(r, AfterTaking(r)) /\ AfterTaking(r) \in Buying
      /\ AfterTaking(r).phase = "buying" /\ AfterTaking(r).rows = req[r].rows
      /\ AfterTaking(r).todo = req[r].todo \ {req[r].checked}
      /\ AfterTaking(r).checked = NoRow
  BY TakeRowJob
<1>2. AfterTaking(r) \in Jobs /\ JobFits(AfterTaking(r))
  BY <1>1 DEF Jobs, JobFits
<1>3. UNCHANGED <<stock, cart, nextRow, orders, shop>>
  BY DEF TakeRow
<1>4. overtaken' \in SUBSET Skus
  <2>1. overtaken' = overtaken \/ overtaken' = overtaken \cup {Wanted(r).sku}
    BY DEF TakeRow
  <2>. QED
    BY <1>1, <2>1 DEF TypeInv
<1>. QED
  BY <1>1, <1>2, <1>3, <1>4, OnlyJob

\* The order placed.
LEMMA PlacedOrder ==
  ASSUME TypeInv, NEW r \in Requests, PlaceOrder(r)
  PROVE  /\ req[r].phase = "buying" /\ req[r].todo = {}
         /\ NewOrder(r) \in Orders /\ OrderFits(NewOrder(r))
         /\ orders' \in Seq(Orders) /\ Len(orders) \in Nat
         /\ Len(orders') = Len(orders) + 1
         /\ DOMAIN orders = 1 .. Len(orders)
         /\ DOMAIN orders' = 1 .. Len(orders) + 1
         /\ \A o \in DOMAIN orders : orders'[o] = orders[o]
         /\ orders'[Len(orders) + 1] = NewOrder(r)
<1>1. req[r].phase = "buying" /\ req[r].todo = {}
  BY DEF PlaceOrder, Done
<1>2. req[r].rows \in Rows /\ Owner[r] \in Customers
  BY <1>1, BuyingIs, OwnerAssumption
<1>3. NewOrder(r) \in Orders
  BY <1>2 DEF NewOrder, Orders
<1>4. OrderFits(NewOrder(r))
  BY DEF NewOrder, OrderFits
<1>5. orders \in Seq(Orders) /\ orders' = Append(orders, NewOrder(r))
  BY DEF TypeInv, PlaceOrder
<1>. QED
  BY <1>1, <1>3, <1>4, <1>5

\* An order placed and the cart emptied.
LEMMA PlaceOrderTypes ==
  ASSUME TypeInv, NEW r \in Requests, PlaceOrder(r)
  PROVE  TypeInv'
<1>1. /\ orders' \in Seq(Orders)
      /\ \A o \in DOMAIN orders' : OrderFits(orders'[o])
  <2>1. orders' \in Seq(Orders)
    BY PlacedOrder
  <2>2. /\ OrderFits(NewOrder(r))
        /\ Len(orders) \in Nat /\ DOMAIN orders = 1 .. Len(orders)
        /\ DOMAIN orders' = 1 .. Len(orders) + 1
        /\ \A o \in DOMAIN orders : orders'[o] = orders[o]
        /\ orders'[Len(orders) + 1] = NewOrder(r)
    BY PlacedOrder
  <2>3. \A o \in DOMAIN orders : OrderFits(orders[o])
    BY DEF TypeInv
  <2>4. \A o \in DOMAIN orders' : o \in DOMAIN orders \/ o = Len(orders) + 1
    BY <2>2
  <2>. QED
    BY <2>1, <2>2, <2>3, <2>4
<1>2. stock' \in [Skus -> Int]
  <2>1. req[r].taken \in [Skus -> Nat]
    BY PlacedOrder, BuyingIs
  <2>2. stock' = [s \in Skus |-> stock[s] - req[r].taken[s]]
    BY DEF PlaceOrder
  <2>. QED
    BY <2>1, <2>2 DEF TypeInv
<1>3. cart' \in [Customers -> Rows]
  BY NoRows DEF PlaceOrder, TypeInv
<1>4. Become(r, Idle) /\ UNCHANGED <<nextRow, overtaken, shop>>
  BY DEF PlaceOrder
<1>5. /\ req' \in [Requests -> Jobs] /\ \A q \in Requests : JobFits(req'[q])
      /\ IsFiniteSet(AddingNow')
      /\ nextRow + Cardinality(AddingNow') <= MaxRows + 1
  BY <1>4, IdleJob, JobMoves
<1>6. /\ nextRow' = nextRow /\ listed' = listed /\ variants' = variants
      /\ edits' = edits /\ counted' = counted /\ overtaken' = overtaken
  BY <1>4 DEF shop
<1>. QED
  BY <1>1, <1>2, <1>3, <1>5, <1>6 DEF TypeInv

-----------------------------------------------------------------------------
(* Units. *)

\* Units are counted in integers.
LEMMA UnitsAre ==
  ASSUME NEW rows \in Rows, NEW ids \in SUBSET DOMAIN rows, NEW s
  PROVE  /\ Units(rows, ids, s) \in Nat
         /\ IsFiniteSet({i \in ids : rows[i].sku = s})
         /\ {i \in ids : rows[i].sku = s} \in SUBSET DOMAIN rows
         /\ \A i \in DOMAIN rows :
              [k \in DOMAIN rows |-> rows[k].quantity][i] \in Nat
<1>. DEFINE f == [k \in DOMAIN rows |-> rows[k].quantity]
            picked == {i \in ids : rows[i].sku = s}
<1>1. IsFiniteSet(DOMAIN rows) /\ \A i \in DOMAIN rows : f[i] \in Nat
  BY RowsAre
<1>2. IsFiniteSet(picked) /\ picked \in SUBSET DOMAIN rows
  <2>1. picked \in SUBSET DOMAIN rows
    OBVIOUS
  <2>. HIDE DEF picked
  <2>. QED
    BY <1>1, <2>1, FS_Subset
<1>3. SumFunctionOnSet(f, picked) \in Nat
  <2>. HIDE DEF f, picked
  <2>. QED
    BY <1>1, <1>2, SumCovers
<1>. QED
  BY <1>1, <1>2, <1>3 DEF Units

\* A row more is its quantity more of its sku.
LEMMA UnitsMore ==
  ASSUME NEW rows \in Rows, NEW ids \in SUBSET DOMAIN rows,
         NEW i \in DOMAIN rows \ ids, NEW s
  PROVE  Units(rows, ids \cup {i}, s) = Units(rows, ids, s)
           + (IF rows[i].sku = s THEN rows[i].quantity ELSE 0)
<1>. DEFINE f == [k \in DOMAIN rows |-> rows[k].quantity]
            picked == {k \in ids : rows[k].sku = s}
            after == {k \in ids \cup {i} : rows[k].sku = s}
<1>1. /\ IsFiniteSet(picked) /\ picked \in SUBSET DOMAIN rows
      /\ \A k \in DOMAIN rows : f[k] \in Nat
      /\ Units(rows, ids, s) \in Nat
  BY UnitsAre
<1>2. /\ Units(rows, ids, s) = SumFunctionOnSet(f, picked)
      /\ Units(rows, ids \cup {i}, s) = SumFunctionOnSet(f, after)
  BY DEF Units
<1>3. CASE rows[i].sku = s
  <2>1. after = picked \cup {i} /\ i \notin picked /\ f[i] = rows[i].quantity
    BY <1>3
  <2>. HIDE DEF f, picked, after
  <2>2. SumFunctionOnSet(f, picked \cup {i}) = SumFunctionOnSet(f, picked) + f[i]
    BY <1>1, <2>1, SumInsert
  <2>. QED
    BY <1>2, <1>3, <2>1, <2>2
<1>4. CASE rows[i].sku # s
  <2>1. after = picked
    BY <1>4
  <2>. HIDE DEF f, picked, after
  <2>. QED
    BY <1>1, <1>2, <1>4, <2>1
<1>. QED
  BY <1>3, <1>4

\* No rows, no units.
LEMMA UnitsOfNone ==
  ASSUME NEW rows, NEW s
  PROVE  Units(rows, {}, s) = 0
<1>1. {i \in {} : rows[i].sku = s} = {}
  OBVIOUS
<1>. QED
  BY <1>1, SumOfNone DEF Units

\* No row of the sku, no units of it.
LEMMA UnitsOfOther ==
  ASSUME NEW rows, NEW ids, NEW s, \A i \in ids : rows[i].sku # s
  PROVE  Units(rows, ids, s) = 0
<1>1. {i \in ids : rows[i].sku = s} = {}
  OBVIOUS
<1>. QED
  BY <1>1, SumOfNone DEF Units

\* What one order holds.
HeldBy(order, s) == Units(order.rows, DOMAIN order.rows \ order.back, s)

Holdings(book, s) == [o \in DOMAIN book |-> HeldBy(book[o], s)]

\* An order's units are counted in integers, and the orders can be added up.
LEMMA HoldingsAre ==
  ASSUME NEW book \in Seq(Orders), NEW s
  PROVE  /\ IsFiniteSet(DOMAIN book)
         /\ \A o \in DOMAIN book :
              Holdings(book, s)[o] = HeldBy(book[o], s) /\ HeldBy(book[o], s) \in Nat
<1>1. DOMAIN book = 1 .. Len(book) /\ Len(book) \in Nat
  OBVIOUS
<1>2. IsFiniteSet(DOMAIN book)
  BY <1>1, FS_Interval
<1>3. ASSUME NEW o \in DOMAIN book PROVE HeldBy(book[o], s) \in Nat
  <2>1. book[o] \in Orders
    OBVIOUS
  <2>2. book[o].rows \in Rows
    BY <2>1 DEF Orders
  <2>3. DOMAIN book[o].rows \ book[o].back \in SUBSET DOMAIN book[o].rows
    OBVIOUS
  <2>. QED
    BY <2>2, <2>3, UnitsAre DEF HeldBy
<1>. QED
  BY <1>2, <1>3 DEF Holdings

\* Out adds up the holdings.
LEMMA OutIs ==
  ASSUME NEW s
  PROVE  Out(s) = SumFunctionOnSet(Holdings(orders, s), DOMAIN orders)
BY DEF Out, SumFunction, Holdings, HeldBy

\* What a book of orders holds is a number of units.
LEMMA HoldingsAddUp ==
  ASSUME NEW book \in Seq(Orders), NEW s
  PROVE  SumFunctionOnSet(Holdings(book, s), DOMAIN book) \in Nat
<1>1. IsFiniteSet(DOMAIN book)
      /\ \A o \in DOMAIN book : Holdings(book, s)[o] \in Nat
  BY HoldingsAre
<1>. QED
  BY <1>1, SumCovers

\* What is out is a number of units.
LEMMA OutIsInt ==
  ASSUME TypeInv, NEW s
  PROVE  Out(s) \in Nat
<1>1. orders \in Seq(Orders)
  BY DEF TypeInv
<1>. QED
  BY <1>1, HoldingsAddUp, OutIs

\* A cancellation, as an order rewritten.
LEMMA CancelledOrder ==
  ASSUME TypeInv, NEW o \in DOMAIN orders, Cancel(o)
  PROVE  /\ orders' \in Seq(Orders) /\ DOMAIN orders' = DOMAIN orders
         /\ \A k \in DOMAIN orders' : OrderFits(orders'[k])
         /\ \A k \in DOMAIN orders : /\ orders'[k].rows = orders[k].rows
                                     /\ orders'[k].back = orders[k].back
<1>. DEFINE what == [orders[o] EXCEPT !.cancelled = TRUE,
                                      !.todo = DOMAIN orders[o].rows]
<1>1. /\ orders[o] \in Orders /\ OrderFits(orders[o])
      /\ DOMAIN orders[o].rows \in SUBSET RowIds /\ ~orders[o].cancelled
  BY OrdersAre, RowsAre DEF Cancel
<1>2. orders' = [orders EXCEPT ![o] = what]
  BY DEF Cancel
<1>3. /\ what \in Orders /\ what.rows = orders[o].rows
      /\ what.back = orders[o].back /\ what.todo = DOMAIN orders[o].rows
      /\ what.cancelled = TRUE
  BY <1>1 DEF Orders
<1>4. OrderFits(what)
  <2>. HIDE DEF what
  <2>. QED
    BY <1>1, <1>3 DEF OrderFits
<1>. HIDE DEF what
<1>5. /\ orders' \in Seq(Orders) /\ DOMAIN orders' = DOMAIN orders
      /\ \A k \in DOMAIN orders : orders'[k] = IF k = o THEN what ELSE orders[k]
      /\ \A k \in DOMAIN orders' : OrderFits(orders'[k])
  BY <1>2, <1>3, <1>4, OneOrder
<1>. QED
  BY <1>3, <1>5

\* One turn of the restock loop, as an order rewritten and stock put back.
LEMMA RestockedOrder ==
  ASSUME TypeInv, NEW o \in DOMAIN orders, NEW i \in RowIds, RestockRow(o, i)
  PROVE  /\ orders' \in Seq(Orders) /\ DOMAIN orders' = DOMAIN orders
         /\ \A k \in DOMAIN orders' : OrderFits(orders'[k])
         /\ \A k \in DOMAIN orders : orders'[k].rows = orders[k].rows
         /\ \A k \in DOMAIN orders \ {o} : orders'[k] = orders[k]
         /\ i \in DOMAIN orders[o].rows \ orders[o].back
         /\ orders[o].rows \in Rows /\ orders[o].rows[i].sku \in Skus
         /\ orders[o].rows[i].quantity \in Nat
         /\ \/ /\ Live(orders[o].rows[i].sku) /\ Free(orders[o].rows[i].sku)
               /\ stock' = [stock EXCEPT ![orders[o].rows[i].sku] =
                              @ + orders[o].rows[i].quantity]
               /\ orders'[o].back = orders[o].back \cup {i}
            \/ stock' = stock /\ orders'[o].back = orders[o].back
<1>1. /\ orders[o] \in Orders /\ OrderFits(orders[o]) /\ i \in orders[o].todo
      /\ orders[o].rows \in Rows
      /\ orders[o].todo \in SUBSET RowIds /\ orders[o].back \in SUBSET RowIds
  BY OrdersAre DEF RestockRow
<1>2. i \in DOMAIN orders[o].rows \ orders[o].back
  BY <1>1 DEF OrderFits
<1>3. orders[o].rows[i].sku \in Skus /\ orders[o].rows[i].quantity \in Nat
  BY <1>1, <1>2, RowsAre
<1>4. CASE Live(orders[o].rows[i].sku)
  <2>. DEFINE what == [orders[o] EXCEPT !.todo = @ \ {i}, !.back = @ \cup {i}]
  <2>1. /\ orders' = [orders EXCEPT ![o] = what] /\ Free(orders[o].rows[i].sku)
        /\ stock' = [stock EXCEPT ![orders[o].rows[i].sku] =
                       @ + orders[o].rows[i].quantity]
    BY <1>4 DEF RestockRow
  <2>2. /\ what \in Orders /\ what.rows = orders[o].rows
        /\ what.back = orders[o].back \cup {i}
        /\ what.todo = orders[o].todo \ {i}
        /\ what.cancelled = orders[o].cancelled
    BY <1>1 DEF Orders
  <2>3. OrderFits(what)
    <3>. HIDE DEF what
    <3>. QED
      BY <1>1, <1>2, <2>2 DEF OrderFits
  <2>. HIDE DEF what
  <2>4. /\ orders' \in Seq(Orders) /\ DOMAIN orders' = DOMAIN orders
        /\ \A k \in DOMAIN orders :
             orders'[k] = IF k = o THEN what ELSE orders[k]
        /\ \A k \in DOMAIN orders' : OrderFits(orders'[k])
    BY <2>1, <2>2, <2>3, OneOrder
  <2>. QED
    BY <1>1, <1>2, <1>3, <1>4, <2>1, <2>2, <2>4
<1>5. CASE ~Live(orders[o].rows[i].sku)
  <2>. DEFINE what == [orders[o] EXCEPT !.todo = {}]
  <2>1. orders' = [orders EXCEPT ![o] = what] /\ stock' = stock
    BY <1>5 DEF RestockRow
  <2>2. /\ what \in Orders /\ what.rows = orders[o].rows
        /\ what.back = orders[o].back /\ what.todo = {}
        /\ what.cancelled = orders[o].cancelled
    BY <1>1 DEF Orders
  <2>3. OrderFits(what)
    <3>. HIDE DEF what
    <3>. QED
      BY <1>1, <2>2 DEF OrderFits
  <2>. HIDE DEF what
  <2>4. /\ orders' \in Seq(Orders) /\ DOMAIN orders' = DOMAIN orders
        /\ \A k \in DOMAIN orders :
             orders'[k] = IF k = o THEN what ELSE orders[k]
        /\ \A k \in DOMAIN orders' : OrderFits(orders'[k])
    BY <2>1, <2>2, <2>3, OneOrder
  <2>. QED
    BY <1>1, <1>2, <1>3, <2>1, <2>2, <2>4
<1>. QED
  BY <1>4, <1>5

\* A crash, as every order's loop forgotten.
LEMMA CrashedOrders ==
  ASSUME TypeInv, Crash
  PROVE  /\ orders' \in Seq(Orders) /\ DOMAIN orders' = DOMAIN orders
         /\ \A k \in DOMAIN orders' : OrderFits(orders'[k])
         /\ \A k \in DOMAIN orders : /\ orders'[k].rows = orders[k].rows
                                     /\ orders'[k].back = orders[k].back
<1>. DEFINE what(o) == [orders[o] EXCEPT !.todo = {}]
<1>1. orders' = [o \in DOMAIN orders |-> what(o)]
  BY DEF Crash
<1>2. ASSUME NEW o \in DOMAIN orders
      PROVE  /\ what(o) \in Orders /\ OrderFits(what(o))
             /\ what(o).rows = orders[o].rows /\ what(o).back = orders[o].back
  <2>1. orders[o] \in Orders /\ OrderFits(orders[o])
    BY OrdersAre
  <2>2. /\ what(o) \in Orders /\ what(o).rows = orders[o].rows
        /\ what(o).back = orders[o].back /\ what(o).todo = {}
        /\ what(o).cancelled = orders[o].cancelled
    BY <2>1 DEF Orders
  <2>. HIDE DEF what
  <2>. QED
    BY <2>1, <2>2 DEF OrderFits
<1>. HIDE DEF what
<1>3. orders \in [1 .. Len(orders) -> Orders] /\ Len(orders) \in Nat
  BY DEF TypeInv
<1>4. orders' \in [1 .. Len(orders) -> Orders]
  BY <1>1, <1>2, <1>3
<1>5. orders' \in Seq(Orders)
  BY <1>3, <1>4, SeqDef
<1>. QED
  BY <1>1, <1>2, <1>5

\* A cancellation committed.
LEMMA CancelTypes ==
  ASSUME TypeInv, NEW o \in DOMAIN orders, Cancel(o)
  PROVE  TypeInv'
<1>1. /\ orders' \in Seq(Orders)
      /\ \A k \in DOMAIN orders' : OrderFits(orders'[k])
  BY CancelledOrder
<1>2. UNCHANGED <<stock, cart, nextRow, req, overtaken, shop>>
  BY DEF Cancel
<1>3. /\ req' \in [Requests -> Jobs] /\ \A r \in Requests : JobFits(req'[r])
      /\ nextRow' \in Nat \ {0} /\ IsFiniteSet(AddingNow')
      /\ nextRow' + Cardinality(AddingNow') <= MaxRows + 1
  BY <1>2, SameJobs
<1>. QED
  BY <1>1, <1>2, <1>3 DEF TypeInv, shop

\* Stock put back.
LEMMA RestockTypes ==
  ASSUME TypeInv, NEW o \in DOMAIN orders, NEW i \in RowIds, RestockRow(o, i)
  PROVE  TypeInv'
<1>1. /\ orders' \in Seq(Orders)
      /\ \A k \in DOMAIN orders' : OrderFits(orders'[k])
  BY RestockedOrder
<1>2. UNCHANGED <<cart, nextRow, req, overtaken, shop>>
  BY DEF RestockRow
<1>3. /\ req' \in [Requests -> Jobs] /\ \A r \in Requests : JobFits(req'[r])
      /\ nextRow' \in Nat \ {0} /\ IsFiniteSet(AddingNow')
      /\ nextRow' + Cardinality(AddingNow') <= MaxRows + 1
  BY <1>2, SameJobs
<1>4. stock' \in [Skus -> Int]
  <2>. DEFINE row == orders[o].rows[i]
  <2>1. row.sku \in Skus /\ row.quantity \in Nat
    BY RestockedOrder
  <2>2. \/ stock' = [stock EXCEPT ![row.sku] = @ + row.quantity]
        \/ stock' = stock
    BY RestockedOrder
  <2>. HIDE DEF row
  <2>. QED
    BY <2>1, <2>2 DEF TypeInv
<1>. QED
  BY <1>1, <1>2, <1>3, <1>4 DEF TypeInv, shop

\* An admin's edit.
LEMMA AdminTypes ==
  ASSUME TypeInv, Admin
  PROVE  TypeInv'
<1>1. edits' \in 0 .. MaxEdits /\ UNCHANGED <<cart, nextRow, orders, req, overtaken>>
  BY BoundsAssumption DEF TypeInv, Admin, UpdateStock, SetListed, ReplaceVariants,
                          Edit
<1>2. /\ req' \in [Requests -> Jobs] /\ \A r \in Requests : JobFits(req'[r])
      /\ nextRow' \in Nat \ {0} /\ IsFiniteSet(AddingNow')
      /\ nextRow' + Cardinality(AddingNow') <= MaxRows + 1
  BY <1>1, SameJobs
<1>3. ASSUME NEW p \in Products, NEW n \in Recounts, UpdateStock(p, n)
      PROVE  TypeInv'
  <2>1. stock' \in [Skus -> Int]
    BY <1>3, CountsAssumption DEF UpdateStock, TypeInv, Skus
  <2>2. n + Out(p) \in Int
    BY <1>3, CountsAssumption, OutIsInt DEF Skus
  <2>3. counted' \in [Skus -> Int]
    BY <1>3, <2>2 DEF UpdateStock, TypeInv, Skus
  <2>. QED
    BY <1>1, <1>2, <1>3, <2>1, <2>3 DEF TypeInv, UpdateStock
<1>4. ASSUME NEW p \in Products, NEW on \in BOOLEAN, SetListed(p, on)
      PROVE  TypeInv'
  <2>1. listed' \in SUBSET Products
    BY <1>4 DEF SetListed, TypeInv
  <2>. QED
    BY <1>1, <1>2, <1>4, <2>1 DEF TypeInv, SetListed
<1>5. ASSUME NEW p \in Products, NEW new \in SUBSET Variants, NEW n \in Recounts,
             ReplaceVariants(p, new, n)
      PROVE  TypeInv'
  <2>1. variants' \in [Variants -> {"unborn", "live", "gone"}]
    BY <1>5 DEF ReplaceVariants, TypeInv
  <2>2. stock' \in [Skus -> Int] /\ counted' \in [Skus -> Int]
    BY <1>5, CountsAssumption DEF ReplaceVariants, TypeInv
  <2>. QED
    BY <1>1, <1>2, <1>5, <2>1, <2>2 DEF TypeInv, ReplaceVariants
<1>. QED
  BY <1>3, <1>4, <1>5 DEF Admin

\* A crash.
LEMMA CrashTypes ==
  ASSUME TypeInv, Crash
  PROVE  TypeInv'
<1>1. /\ orders' \in Seq(Orders)
      /\ \A k \in DOMAIN orders' : OrderFits(orders'[k])
  BY CrashedOrders
<1>2. /\ req' = [r \in Requests |-> Idle]
      /\ UNCHANGED <<stock, cart, nextRow, overtaken, shop>>
  BY DEF Crash
<1>3. req' \in [Requests -> Jobs] /\ \A r \in Requests : JobFits(req'[r])
  BY <1>2, IdleJob
<1>4. AddingNow' = {}
  BY <1>2, IdleJob DEF AddingNow
<1>5. IsFiniteSet(AddingNow') /\ Cardinality(AddingNow') = 0
  BY <1>4, FS_EmptySet
<1>6. nextRow \in Nat \ {0} /\ Cardinality(AddingNow) \in Nat
      /\ nextRow + Cardinality(AddingNow) <= MaxRows + 1
  BY FS_CardinalityType DEF TypeInv
<1>7. nextRow' + Cardinality(AddingNow') <= MaxRows + 1
  BY <1>2, <1>5, <1>6, BoundsAssumption
<1>. QED
  BY <1>1, <1>2, <1>3, <1>5, <1>7 DEF TypeInv, shop

\* Every step keeps the types and the bounds.
LEMMA StepTypes == TypeInv /\ [Next]_vars => TypeInv'
<1>. SUFFICES ASSUME TypeInv, [Next]_vars PROVE TypeInv'
  OBVIOUS
<1>1. ASSUME NEW r \in Requests, CartStep(r) PROVE TypeInv'
  BY <1>1, AskAddTypes, SetQuantityTypes, RemoveItemsTypes DEF CartStep
<1>2. ASSUME NEW r \in Requests, ReadCart(r) PROVE TypeInv'
  BY <1>2, ReadCartTypes
<1>3. ASSUME NEW r \in Requests, Proceed(r) PROVE TypeInv'
  <2>1. CASE ThrowInside(r)
    BY <2>1, GiveUpTypes DEF ThrowInside
  <2>2. ASSUME NEW i \in RowIds, RefuseRow(r, i) PROVE TypeInv'
    BY <2>2, GiveUpTypes DEF RefuseRow
  <2>. QED
    BY <1>3, <2>1, <2>2, WriteAddTypes, PlaceOrderTypes, CheckRowTypes DEF Proceed
<1>4. ASSUME NEW r \in Requests, TakeRow(r) PROVE TypeInv'
  BY <1>4, TakeRowTypes
<1>5. ASSUME NEW o \in DOMAIN orders, Cancel(o) PROVE TypeInv'
  BY <1>5, CancelTypes
<1>6. ASSUME NEW o \in DOMAIN orders, NEW i \in RowIds, RestockRow(o, i)
      PROVE  TypeInv'
  BY <1>6, RestockTypes
<1>7. CASE Admin
  BY <1>7, AdminTypes
<1>8. CASE Crash
  BY <1>8, CrashTypes
<1>9. CASE UNCHANGED vars
  <2>1. AddingNow' = AddingNow
    BY <1>9 DEF vars, AddingNow
  <2>. QED
    BY <1>9, <2>1 DEF vars, TypeInv
<1>. QED
  BY <1>1, <1>2, <1>3, <1>4, <1>5, <1>6, <1>7, <1>8, <1>9 DEF Next

-----------------------------------------------------------------------------
(* What orders hold, step by step. *)

\* Rows and what was put back as they were: as much is out.
LEMMA OutSame ==
  ASSUME TypeInv, DOMAIN orders' = DOMAIN orders,
         \A o \in DOMAIN orders : /\ orders'[o].rows = orders[o].rows
                                  /\ orders'[o].back = orders[o].back,
         NEW s
  PROVE  Out(s)' = Out(s)
<1>1. Holdings(orders', s) = Holdings(orders, s)
  BY DEF Holdings, HeldBy
<1>2. Out(s)' = SumFunctionOnSet(Holdings(orders', s), DOMAIN orders')
  BY DEF Out, SumFunction, Holdings, HeldBy
<1>. QED
  BY <1>1, <1>2, OutIs

\* An order placed holds what it was placed for.
LEMMA OutPlaced ==
  ASSUME TypeInv, NEW r \in Requests, PlaceOrder(r), NEW s
  PROVE  Out(s)' = Out(s) + Units(req[r].rows, DOMAIN req[r].rows, s)
<1>. DEFINE N == Len(orders) + 1
            f == Holdings(orders, s)
            g == Holdings(orders', s)
            old == DOMAIN orders
<1>1. /\ orders' \in Seq(Orders) /\ N \notin old /\ DOMAIN orders' = old \cup {N}
      /\ \A o \in old : orders'[o] = orders[o]
      /\ orders'[N] = NewOrder(r)
  <2>1. /\ orders' \in Seq(Orders) /\ Len(orders) \in Nat
        /\ DOMAIN orders = 1 .. Len(orders)
        /\ DOMAIN orders' = 1 .. Len(orders) + 1
        /\ \A o \in DOMAIN orders : orders'[o] = orders[o]
        /\ orders'[Len(orders) + 1] = NewOrder(r)
    BY PlacedOrder
  <2>2. 1 .. Len(orders) + 1 = (1 .. Len(orders)) \cup {Len(orders) + 1}
    BY <2>1
  <2>3. Len(orders) + 1 \notin 1 .. Len(orders)
    BY <2>1
  <2>. QED
    BY <2>1, <2>2, <2>3
<1>2. /\ IsFiniteSet(old) /\ \A o \in old : f[o] = HeldBy(orders[o], s) /\ f[o] \in Nat
  <2>1. orders \in Seq(Orders)
    BY DEF TypeInv
  <2>. QED
    BY <2>1, HoldingsAre
<1>3. \A o \in DOMAIN orders' : g[o] = HeldBy(orders'[o], s) /\ g[o] \in Nat
  BY <1>1, HoldingsAre
<1>4. HeldBy(NewOrder(r), s) = Units(req[r].rows, DOMAIN req[r].rows, s)
  <2>1. NewOrder(r).rows = req[r].rows /\ NewOrder(r).back = {}
    BY DEF NewOrder
  <2>2. DOMAIN req[r].rows \ {} = DOMAIN req[r].rows
    OBVIOUS
  <2>. QED
    BY <2>1, <2>2 DEF HeldBy
<1>5. \A o \in old : g[o] = f[o]
  <2>. HIDE DEF f, g, old
  <2>. QED
    BY <1>1, <1>2, <1>3
<1>6. g[N] = Units(req[r].rows, DOMAIN req[r].rows, s) /\ g[N] \in Nat
  <2>. HIDE DEF f, g, old, N
  <2>. QED
    BY <1>1, <1>3, <1>4
<1>7. Out(s)' = SumFunctionOnSet(g, DOMAIN orders')
  BY DEF Out, SumFunction, Holdings, HeldBy
<1>8. Out(s) = SumFunctionOnSet(f, old)
  BY OutIs
<1>. HIDE DEF f, g, old, N
<1>9. SumFunctionOnSet(g, old) = SumFunctionOnSet(f, old)
  BY <1>2, <1>5, SumSame
<1>10. SumFunctionOnSet(g, old \cup {N}) = SumFunctionOnSet(g, old) + g[N]
  <2>1. \A o \in old : g[o] \in Int
    BY <1>1, <1>3
  <2>. QED
    BY <1>1, <1>2, <1>6, <2>1, SumInsert
<1>. QED
  BY <1>1, <1>6, <1>7, <1>8, <1>9, <1>10

\* A row put back is not out any more.
LEMMA OutRestocked ==
  ASSUME TypeInv, NEW o \in DOMAIN orders, NEW i \in RowIds, RestockRow(o, i),
         NEW s
  PROVE  \/ /\ Live(orders[o].rows[i].sku) /\ Free(orders[o].rows[i].sku)
            /\ stock' = [stock EXCEPT ![orders[o].rows[i].sku] =
                           @ + orders[o].rows[i].quantity]
            /\ Out(s) = Out(s)' + (IF orders[o].rows[i].sku = s
                                   THEN orders[o].rows[i].quantity ELSE 0)
         \/ stock' = stock /\ Out(s)' = Out(s)
<1>1. /\ orders' \in Seq(Orders) /\ DOMAIN orders' = DOMAIN orders
      /\ \A k \in DOMAIN orders : orders'[k].rows = orders[k].rows
      /\ \A k \in DOMAIN orders \ {o} : orders'[k] = orders[k]
      /\ i \in DOMAIN orders[o].rows \ orders[o].back
      /\ orders[o].rows \in Rows /\ orders[o].rows[i].quantity \in Nat
  BY RestockedOrder
<1>2. CASE stock' = stock /\ orders'[o].back = orders[o].back
  BY <1>1, <1>2, OutSame
<1>3. CASE /\ Live(orders[o].rows[i].sku) /\ Free(orders[o].rows[i].sku)
           /\ stock' = [stock EXCEPT ![orders[o].rows[i].sku] =
                          @ + orders[o].rows[i].quantity]
           /\ orders'[o].back = orders[o].back \cup {i}
  <2>. DEFINE rows == orders[o].rows
              n == IF rows[i].sku = s THEN rows[i].quantity ELSE 0
              left == DOMAIN rows \ (orders[o].back \cup {i})
              f == Holdings(orders, s)
              g == Holdings(orders', s)
              all == DOMAIN orders
  <2>1. Units(rows, left \cup {i}, s) = Units(rows, left, s) + n
    <3>1. left \in SUBSET DOMAIN rows /\ i \in DOMAIN rows \ left /\ rows \in Rows
      BY <1>1
    <3>. HIDE DEF rows, left
    <3>. QED
      BY <3>1, UnitsMore
  <2>2. left \cup {i} = DOMAIN rows \ orders[o].back
    BY <1>1
  <2>3. HeldBy(orders[o], s) = HeldBy(orders'[o], s) + n
    <3>1. HeldBy(orders[o], s) = Units(rows, left \cup {i}, s)
      BY <2>2 DEF HeldBy
    <3>2. HeldBy(orders'[o], s) = Units(rows, left, s)
      BY <1>1, <1>3 DEF HeldBy
    <3>. QED
      BY <2>1, <3>1, <3>2
  <2>4. /\ IsFiniteSet(all)
        /\ \A k \in all : f[k] = HeldBy(orders[k], s) /\ f[k] \in Nat
    <3>1. orders \in Seq(Orders)
      BY DEF TypeInv
    <3>. QED
      BY <3>1, HoldingsAre
  <2>5. \A k \in all : g[k] = HeldBy(orders'[k], s) /\ g[k] \in Nat
    BY <1>1, HoldingsAre
  <2>6. n \in Nat
    BY <1>1
  <2>7. Out(s) = SumFunctionOnSet(f, all)
    BY OutIs
  <2>8. Out(s)' = SumFunctionOnSet(g, all)
    BY <1>1 DEF Out, SumFunction, Holdings, HeldBy
  <2>. HIDE DEF f, g, all, n
  <2>9. \A k \in all \ {o} : g[k] = f[k]
    BY <1>1, <2>4, <2>5 DEF all
  <2>10. o \in all /\ f[o] = g[o] + n /\ f[o] \in Int /\ g[o] \in Int
    BY <2>3, <2>4, <2>5 DEF all
  <2>11. SumFunctionOnSet(g, all) = SumFunctionOnSet(f, all) - f[o] + g[o]
    <3>1. \A k \in all : f[k] \in Int /\ g[k] \in Int
      BY <2>4, <2>5
    <3>. QED
      BY <2>4, <2>9, <2>10, <3>1, SumChange
  <2>12. SumFunctionOnSet(f, all) \in Int
    BY <2>4, SumIsInt
  <2>13. Out(s) = Out(s)' + n
    BY <2>6, <2>7, <2>8, <2>10, <2>11, <2>12
  <2>. QED
    BY <1>3, <2>13 DEF n
<1>. QED
  BY <1>2, <1>3, RestockedOrder

\* Nothing is out of a variant nobody has created.
LEMMA OutOfUnknown ==
  ASSUME TypeInv, KnownInv, NEW s, ~Known(s)
  PROVE  Out(s) = 0
<1>. DEFINE f == Holdings(orders, s)
<1>1. IsFiniteSet(DOMAIN orders)
      /\ \A o \in DOMAIN orders : f[o] = HeldBy(orders[o], s)
  <2>1. orders \in Seq(Orders)
    BY DEF TypeInv
  <2>. QED
    BY <2>1, HoldingsAre
<1>2. ASSUME NEW o \in DOMAIN orders PROVE HeldBy(orders[o], s) = 0
  <2>1. \A i \in DOMAIN orders[o].rows \ orders[o].back : orders[o].rows[i].sku # s
    BY DEF KnownInv, AllKnown
  <2>. QED
    BY <2>1, UnitsOfOther DEF HeldBy
<1>3. \A o \in DOMAIN orders : f[o] = 0
  BY <1>1, <1>2
<1>. HIDE DEF f
<1>4. SumFunctionOnSet(f, DOMAIN orders) = 0
  BY <1>1, <1>3, SumOfZeroes
<1>. QED
  BY <1>4, OutIs DEF f

-----------------------------------------------------------------------------
(* Every row is of something there is or was. *)

\* A request moved on, and what it noted is known.
LEMMA JobKnownMoves ==
  ASSUME TypeInv, KnownInv, UNCHANGED variants, NEW r \in Requests, NEW what,
         Become(r, what), JobKnown(what)
  PROVE  \A q \in Requests : JobKnown(req[q])'
<1>1. \A q \in Requests : req'[q] = IF q = r THEN what ELSE req[q]
  BY DEF TypeInv, Become
<1>2. \A q \in Requests : JobKnown(req'[q])
  BY <1>1 DEF KnownInv
<1>. QED
  BY <1>2 DEF JobKnown, AllKnown, Known

\* Carts and orders as they were.
LEMMA OnlyJobKnown ==
  ASSUME TypeInv, KnownInv, UNCHANGED <<variants, cart, orders>>,
         NEW r \in Requests, NEW what, Become(r, what), JobKnown(what)
  PROVE  KnownInv'
<1>1. \A q \in Requests : JobKnown(req[q])'
  BY JobKnownMoves
<1>. QED
  BY <1>1 DEF KnownInv, AllKnown, Known

\* One cart changed, requests as they were.
LEMMA OneCartKnown ==
  ASSUME TypeInv, KnownInv, UNCHANGED <<variants, orders>>,
         \A q \in Requests : JobKnown(req[q])',
         NEW c \in Customers, NEW new, cart' = [cart EXCEPT ![c] = new],
         AllKnown(new)
  PROVE  KnownInv'
<1>1. \A d \in Customers : cart'[d] = IF d = c THEN new ELSE cart[d]
  BY DEF TypeInv
<1>2. \A d \in Customers : AllKnown(cart'[d])
  BY <1>1 DEF KnownInv
<1>. QED
  BY <1>2 DEF KnownInv, AllKnown, Known

\* What the storefront's requests do.
LEMMA CartStepKnown ==
  ASSUME TypeInv, KnownInv, NEW r \in Requests, CartStep(r)
  PROVE  KnownInv'
<1>. DEFINE mine == cart[Owner[r]]
<1>0. AllKnown(mine) /\ mine \in Rows /\ Owner[r] \in Customers
  BY OwnerAssumption DEF KnownInv, TypeInv
<1>j. req' = req /\ variants' = variants => \A q \in Requests : JobKnown(req[q])'
  BY DEF KnownInv, JobKnown, AllKnown, Known
<1>1. ASSUME NEW sku \in Skus, NEW n \in 1 .. MaxQuantity, AskAdd(r, sku, n)
      PROVE  KnownInv'
  <2>1. PICK what : /\ Become(r, what) /\ what.phase = "adding"
                    /\ what.row.sku = sku
    BY <1>1 DEF AskAdd
  <2>2. Live(sku) /\ UNCHANGED <<variants, cart, orders>>
    BY <1>1 DEF AskAdd, shop
  <2>3. JobKnown(what)
    BY <2>1, <2>2 DEF JobKnown, Known, Live
  <2>. QED
    BY <2>1, <2>2, <2>3, OnlyJobKnown
<1>2. ASSUME NEW i \in RowIds, NEW n \in 1 .. MaxQuantity, SetQuantity(r, i, n)
      PROVE  KnownInv'
  <2>. DEFINE new == [mine EXCEPT ![i].quantity = n]
  <2>1. /\ cart' = [cart EXCEPT ![Owner[r]] = new] /\ i \in DOMAIN mine
        /\ req' = req /\ UNCHANGED <<variants, orders>>
    BY <1>2 DEF SetQuantity, shop
  <2>2. AllKnown(new)
    <3>1. mine[i] \in Row
      <4>1. mine \in [DOMAIN mine -> Row]
        BY <1>0, RowsAre
      <4>. HIDE DEF mine
      <4>. QED
        BY <2>1, <4>1
    <3>2. \A k \in DOMAIN new : k \in DOMAIN mine /\ new[k].sku = mine[k].sku
      BY <3>1 DEF Row
    <3>. HIDE DEF new, mine
    <3>. QED
      BY <1>0, <3>2 DEF AllKnown
  <2>. HIDE DEF new
  <2>. QED
    BY <1>0, <1>j, <2>1, <2>2, OneCartKnown
<1>3. ASSUME NEW gone, RemoveItems(r, gone) PROVE KnownInv'
  <2>1. /\ cart' = [cart EXCEPT ![Owner[r]] = Without(mine, gone)]
        /\ req' = req /\ UNCHANGED <<variants, orders>>
    BY <1>3 DEF RemoveItems, shop
  <2>2. AllKnown(Without(mine, gone))
    <3>1. /\ DOMAIN Without(mine, gone) = DOMAIN mine \ gone
          /\ \A i \in DOMAIN mine \ gone : Without(mine, gone)[i] = mine[i]
      BY <1>0, WithoutRows
    <3>. HIDE DEF mine
    <3>. QED
      BY <1>0, <3>1 DEF AllKnown
  <2>. QED
    BY <1>0, <1>j, <2>1, <2>2, OneCartKnown
<1>. QED
  BY <1>1, <1>2, <1>3 DEF CartStep

\* A row written.
LEMMA WriteAddKnown ==
  ASSUME TypeInv, KnownInv, NEW r \in Requests, WriteAdd(r)
  PROVE  KnownInv'
<1>. DEFINE mine == cart[Owner[r]]
            ask == req[r]
<1>1. /\ ask.phase = "adding" /\ Become(r, Idle)
      /\ UNCHANGED <<variants, orders>>
  BY DEF WriteAdd, shop
<1>2. /\ AllKnown(mine) /\ mine \in Rows /\ Owner[r] \in Customers
      /\ Known(ask.row.sku)
  BY <1>1, OwnerAssumption DEF KnownInv, TypeInv, JobKnown
<1>3. \A q \in Requests : JobKnown(req[q])'
  <2>1. JobKnown(Idle)
    BY IdleJob DEF JobKnown
  <2>. QED
    BY <1>1, <2>1, JobKnownMoves
<1>4. CASE /\ ask.found \in DOMAIN mine
           /\ cart' = [cart EXCEPT ![Owner[r]][ask.found].quantity =
                         ask.had + ask.row.quantity]
  <2>. DEFINE new == [mine EXCEPT ![ask.found].quantity =
                        ask.had + ask.row.quantity]
  <2>1. cart' = [cart EXCEPT ![Owner[r]] = new]
    BY <1>4
  <2>2. AllKnown(new)
    <3>1. mine[ask.found] \in Row
      <4>1. mine \in [DOMAIN mine -> Row]
        BY <1>2, RowsAre
      <4>. HIDE DEF mine
      <4>. QED
        BY <1>4, <4>1
    <3>2. \A k \in DOMAIN new : k \in DOMAIN mine /\ new[k].sku = mine[k].sku
      BY <3>1 DEF Row
    <3>. HIDE DEF new, mine
    <3>. QED
      BY <1>2, <3>2 DEF AllKnown
  <2>. HIDE DEF new
  <2>. QED
    BY <1>1, <1>2, <1>3, <2>1, <2>2, OneCartKnown
<1>5. CASE cart' = [cart EXCEPT ![Owner[r]] =
                      [i \in DOMAIN mine \cup {nextRow} |->
                         IF i = nextRow THEN ask.row ELSE mine[i]]]
  <2>. DEFINE new == [i \in DOMAIN mine \cup {nextRow} |->
                        IF i = nextRow THEN ask.row ELSE mine[i]]
  <2>1. AllKnown(new)
    <3>1. ASSUME NEW k \in DOMAIN new
          PROVE  \/ new[k] = ask.row
                 \/ k \in DOMAIN mine /\ new[k] = mine[k]
      <4>. HIDE DEF mine, ask
      <4>1. /\ new[k] = IF k = nextRow THEN ask.row ELSE mine[k]
            /\ k \in DOMAIN mine \cup {nextRow}
        OBVIOUS
      <4>. HIDE DEF new
      <4>. QED
        BY <4>1
    <3>. HIDE DEF new, mine
    <3>. QED
      BY <1>2, <3>1 DEF AllKnown
  <2>2. cart' = [cart EXCEPT ![Owner[r]] = new]
    BY <1>5
  <2>. HIDE DEF new
  <2>. QED
    BY <1>1, <1>2, <1>3, <2>1, <2>2, OneCartKnown
<1>6. CASE UNCHANGED cart
  BY <1>1, <1>3, <1>6 DEF KnownInv, AllKnown, Known
<1>. QED
  BY <1>4, <1>5, <1>6 DEF WriteAdd

\* What a checkout does.
LEMMA CheckoutKnown ==
  ASSUME TypeInv, KnownInv, NEW r \in Requests,
         ReadCart(r) \/ ThrowInside(r) \/ PlaceOrder(r) \/ TakeRow(r)
           \/ \E i \in RowIds : CheckRow(r, i) \/ RefuseRow(r, i)
  PROVE  KnownInv'
<1>i. JobKnown(Idle)
  BY IdleJob DEF JobKnown
<1>1. CASE ReadCart(r)
  <2>1. PICK what : /\ Become(r, what) /\ what.phase = "buying"
                    /\ what.rows = cart[Owner[r]]
    BY <1>1 DEF ReadCart
  <2>2. UNCHANGED <<variants, cart, orders>> /\ AllKnown(cart[Owner[r]])
    BY <1>1, OwnerAssumption DEF ReadCart, shop, KnownInv
  <2>3. JobKnown(what)
    BY <2>1, <2>2 DEF JobKnown
  <2>. QED
    BY <2>1, <2>2, <2>3, OnlyJobKnown
<1>2. ASSUME Become(r, Idle), UNCHANGED <<variants, cart, orders>>
      PROVE  KnownInv'
  BY <1>2, <1>i, OnlyJobKnown
<1>3. CASE TakeRow(r)
  <2>1. /\ Become(r, AfterTaking(r)) /\ AfterTaking(r).phase = "buying"
        /\ AfterTaking(r).rows = req[r].rows /\ req[r].phase = "buying"
    BY <1>3, TakeRowJob
  <2>2. JobKnown(AfterTaking(r))
    BY <2>1 DEF KnownInv, JobKnown
  <2>3. UNCHANGED <<variants, cart, orders>>
    BY <1>3 DEF TakeRow, shop
  <2>. QED
    BY <2>1, <2>2, <2>3, OnlyJobKnown
<1>4. ASSUME NEW i \in RowIds, CheckRow(r, i) PROVE KnownInv'
  <2>. DEFINE what == [req[r] EXCEPT !.checked = i,
                                     !.view = View(r, req[r].rows[i].sku)]
  <2>1. /\ Become(r, what) /\ req[r].phase = "buying"
        /\ UNCHANGED <<variants, cart, orders>>
    BY <1>4 DEF CheckRow, AtRow, shop
  <2>2. req[r] \in Buying
    BY <2>1, BuyingIs
  <2>3. what.phase = "buying" /\ what.rows = req[r].rows
    BY <2>2 DEF Buying
  <2>. HIDE DEF what
  <2>4. JobKnown(what)
    BY <2>1, <2>3 DEF KnownInv, JobKnown
  <2>. QED
    BY <2>1, <2>4, OnlyJobKnown
<1>5. CASE PlaceOrder(r)
  <2>1. /\ req[r].phase = "buying" /\ DOMAIN orders' = 1 .. Len(orders) + 1
        /\ DOMAIN orders = 1 .. Len(orders) /\ Len(orders) \in Nat
        /\ \A o \in DOMAIN orders : orders'[o] = orders[o]
        /\ orders'[Len(orders) + 1] = NewOrder(r)
    BY <1>5, PlacedOrder
  <2>2. NewOrder(r).rows = req[r].rows
    BY DEF NewOrder
  <2>3. \A o \in DOMAIN orders' : o \in DOMAIN orders \/ o = Len(orders) + 1
    BY <2>1
  <2>4. \A o \in DOMAIN orders' : AllKnown(orders'[o].rows)
    BY <2>1, <2>2, <2>3 DEF KnownInv, JobKnown
  <2>5. /\ Become(r, Idle) /\ UNCHANGED variants
        /\ cart' = [cart EXCEPT ![Owner[r]] = <<>>]
    BY <1>5 DEF PlaceOrder, shop
  <2>6. \A q \in Requests : JobKnown(req[q])'
    BY <1>i, <2>5, JobKnownMoves
  <2>7. \A c \in Customers : AllKnown(cart'[c])
    <3>1. \A c \in Customers : cart'[c] = IF c = Owner[r] THEN <<>> ELSE cart[c]
      BY <2>5 DEF TypeInv
    <3>2. AllKnown(<<>>)
      BY DEF AllKnown
    <3>. QED
      BY <3>1, <3>2 DEF KnownInv
  <2>. QED
    BY <2>4, <2>5, <2>6, <2>7 DEF KnownInv, AllKnown, Known
<1>6. (ThrowInside(r) \/ \E i \in RowIds : RefuseRow(r, i))
        => Become(r, Idle) /\ UNCHANGED <<variants, cart, orders>>
  BY DEF ThrowInside, RefuseRow, shop
<1>. QED
  BY <1>1, <1>2, <1>3, <1>4, <1>5, <1>6

\* What admins do, a cancellation, its loop and a crash.
LEMMA OthersKnown ==
  ASSUME TypeInv, KnownInv,
         \/ \E o \in DOMAIN orders : Cancel(o)
                                    \/ \E i \in RowIds : RestockRow(o, i)
         \/ Admin \/ Crash
  PROVE  KnownInv'
<1>1. ASSUME UNCHANGED <<variants, cart>>, DOMAIN orders' = DOMAIN orders,
             \A o \in DOMAIN orders : orders'[o].rows = orders[o].rows,
             req' = req \/ req' = [r \in Requests |-> Idle]
      PROVE  KnownInv'
  <2>1. \A r \in Requests : JobKnown(req'[r])
    BY <1>1, IdleJob DEF KnownInv, JobKnown
  <2>. QED
    BY <1>1, <2>1 DEF KnownInv, JobKnown, AllKnown, Known
<1>2. ASSUME NEW o \in DOMAIN orders, Cancel(o) PROVE KnownInv'
  BY <1>1, <1>2, CancelledOrder DEF Cancel, shop
<1>3. ASSUME NEW o \in DOMAIN orders, NEW i \in RowIds, RestockRow(o, i)
      PROVE  KnownInv'
  BY <1>1, <1>3, RestockedOrder DEF RestockRow, shop
<1>4. CASE Crash
  BY <1>1, <1>4, CrashedOrders DEF Crash, shop
<1>5. CASE Admin
  <2>1. UNCHANGED <<cart, orders, req>>
    BY <1>5 DEF Admin, UpdateStock, SetListed, ReplaceVariants
  <2>2. \A s \in Skus : Known(s) => Known(s)'
    <3>1. CASE variants' = variants
      BY <3>1 DEF Known
    <3>2. ASSUME NEW p \in Products, NEW new \in SUBSET Variants,
                 NEW n \in Recounts, ReplaceVariants(p, new, n)
          PROVE  \A s \in Skus : Known(s) => Known(s)'
      <4>1. \A v \in Variants : variants[v] # "unborn" => variants'[v] # "unborn"
        BY <3>2 DEF ReplaceVariants
      <4>. QED
        BY <4>1 DEF Known, Skus
    <3>. QED
      BY <1>5, <3>1, <3>2 DEF Admin, UpdateStock, SetListed
  <2>3. ASSUME NEW rows \in Rows, AllKnown(rows) PROVE AllKnown(rows)'
    BY <2>2, <2>3, RowsAre DEF AllKnown
  <2>4. \A c \in Customers : AllKnown(cart[c])'
    BY <2>1, <2>3 DEF KnownInv, TypeInv
  <2>5. \A o \in DOMAIN orders : AllKnown(orders[o].rows)'
    BY <2>1, <2>3, OrdersAre DEF KnownInv
  <2>6. \A r \in Requests : JobKnown(req[r])'
    <3>. SUFFICES ASSUME NEW r \in Requests PROVE JobKnown(req[r])'
      OBVIOUS
    <3>1. req[r] \in Jobs /\ JobKnown(req[r])
      BY DEF TypeInv, KnownInv
    <3>2. req[r].phase = "adding" => Known(req[r].row.sku)'
      <4>1. req[r].phase = "adding" => req[r].row.sku \in Skus
        BY <3>1, JobsAre DEF Row
      <4>. QED
        BY <2>1, <2>2, <3>1, <4>1 DEF JobKnown, Known
    <3>3. req[r].phase = "buying" => AllKnown(req[r].rows)'
      BY <2>1, <2>3, <3>1, JobsAre DEF JobKnown
    <3>. QED
      BY <2>1, <3>2, <3>3 DEF JobKnown
  <2>. QED
    BY <2>1, <2>4, <2>5, <2>6 DEF KnownInv
<1>. QED
  BY <1>2, <1>3, <1>4, <1>5

\* Every step keeps the rows known.
LEMMA StepKnown == TypeInv /\ KnownInv /\ [Next]_vars => KnownInv'
<1>. SUFFICES ASSUME TypeInv, KnownInv, [Next]_vars PROVE KnownInv'
  OBVIOUS
<1>1. CASE UNCHANGED vars
  BY <1>1 DEF vars, KnownInv, JobKnown, AllKnown, Known
<1>. QED
  BY <1>1, CartStepKnown, WriteAddKnown, CheckoutKnown, OthersKnown
    DEF Next, Proceed

-----------------------------------------------------------------------------
(* Units that left the shelf. *)

TakenInv == \A r \in Requests : TakenFits(req[r])

\* A row taken is a row more in what was taken.
LEMMA TakenMore ==
  ASSUME TypeInv, TakenInv, NEW r \in Requests, TakeRow(r)
  PROVE  TakenFits(AfterTaking(r))
<1>. DEFINE rows == req[r].rows
            done == DOMAIN rows \ req[r].todo
            i == req[r].checked
            want == Wanted(r)
            t == req[r].taken
<1>1. /\ req[r].phase = "buying" /\ i \in req[r].todo
      /\ req[r].todo \subseteq DOMAIN rows /\ rows \in Rows
      /\ want = rows[i] /\ want.sku \in Skus /\ want.quantity \in Nat
      /\ t \in [Skus -> Nat]
      /\ AfterTaking(r).rows = rows
      /\ AfterTaking(r).todo = req[r].todo \ {i}
      /\ AfterTaking(r).taken = Taking(r)
  BY TakeRowJob
<1>2. DOMAIN rows \ (req[r].todo \ {i}) = done \cup {i}
  BY <1>1
<1>3. ASSUME NEW s \in Skus PROVE Taking(r)[s] = Units(rows, done \cup {i}, s)
  <2>1. t[s] = Units(rows, done, s)
    BY <1>1 DEF TakenInv, TakenFits
  <2>2. Units(rows, done \cup {i}, s) = Units(rows, done, s)
          + (IF rows[i].sku = s THEN rows[i].quantity ELSE 0)
    <3>1. done \in SUBSET DOMAIN rows /\ i \in DOMAIN rows \ done
      BY <1>1
    <3>. HIDE DEF done, rows, i
    <3>. QED
      BY <1>1, <3>1, UnitsMore
  <2>3. Taking(r) = [t EXCEPT ![want.sku] = @ + want.quantity]
    BY DEF Taking
  <2>. HIDE DEF t, want, rows, i, done
  <2>4. Taking(r)[s] = t[s] + (IF want.sku = s THEN want.quantity ELSE 0)
    BY <1>1, <2>3
  <2>. QED
    BY <1>1, <2>1, <2>2, <2>4
<1>. QED
  BY <1>1, <1>2, <1>3 DEF TakenFits

\* Every step keeps account of what was taken.
LEMMA StepTaken == TypeInv /\ TakenInv /\ [Next]_vars => TakenInv'
<1>. SUFFICES ASSUME TypeInv, TakenInv, [Next]_vars PROVE TakenInv'
  OBVIOUS
<1>i. TakenFits(Idle)
  BY IdleJob DEF TakenFits
<1>0. ASSUME NEW r \in Requests, NEW what, Become(r, what), TakenFits(what)
      PROVE  TakenInv'
  <2>1. \A q \in Requests : req'[q] = IF q = r THEN what ELSE req[q]
    BY <1>0 DEF TypeInv, Become
  <2>. QED
    BY <1>0, <2>1 DEF TakenInv, TakenFits
<1>1. ASSUME NEW r \in Requests, ReadCart(r) PROVE TakenInv'
  <2>1. PICK what : /\ Become(r, what) /\ what.rows = cart[Owner[r]]
                    /\ what.todo = DOMAIN what.rows /\ what.taken = Untaken
    BY <1>1 DEF ReadCart
  <2>2. DOMAIN what.rows \ what.todo = {}
    BY <2>1
  <2>3. \A s \in Skus : what.taken[s] = 0
    BY <2>1 DEF Untaken
  <2>4. TakenFits(what)
    BY <2>2, <2>3, UnitsOfNone DEF TakenFits
  <2>. QED
    BY <1>0, <2>1, <2>4
<1>2. ASSUME NEW r \in Requests, NEW i \in RowIds, CheckRow(r, i) PROVE TakenInv'
  <2>. DEFINE what == [req[r] EXCEPT !.checked = i,
                                     !.view = View(r, req[r].rows[i].sku)]
  <2>1. Become(r, what) /\ req[r].phase = "buying"
    BY <1>2 DEF CheckRow, AtRow
  <2>2. req[r] \in Buying
    BY <2>1, BuyingIs
  <2>3. /\ what.phase = "buying" /\ what.rows = req[r].rows
        /\ what.todo = req[r].todo /\ what.taken = req[r].taken
    BY <2>2 DEF Buying
  <2>. HIDE DEF what
  <2>4. TakenFits(what)
    BY <2>1, <2>3 DEF TakenInv, TakenFits
  <2>. QED
    BY <1>0, <2>1, <2>4
<1>3. ASSUME NEW r \in Requests, TakeRow(r) PROVE TakenInv'
  BY <1>0, <1>3, TakenMore, TakeRowJob
<1>4. ASSUME NEW r \in Requests, Become(r, Idle) PROVE TakenInv'
  BY <1>0, <1>4, <1>i
<1>5. ASSUME NEW r \in Requests, NEW sku \in Skus, NEW n \in 1 .. MaxQuantity,
             AskAdd(r, sku, n)
      PROVE  TakenInv'
  <2>1. PICK what : Become(r, what) /\ what.phase = "adding"
    BY <1>5 DEF AskAdd
  <2>. QED
    BY <1>0, <2>1 DEF TakenFits
<1>6. CASE req' = req
  BY <1>6 DEF TakenInv, TakenFits
<1>7. CASE Crash
  <2>1. \A r \in Requests : req'[r] = Idle
    BY <1>7 DEF Crash
  <2>. QED
    BY <1>i, <2>1 DEF TakenInv, TakenFits
<1>8. \/ \E r \in Requests :
           \/ Become(r, Idle) \/ ReadCart(r) \/ TakeRow(r)
           \/ \E i \in RowIds : CheckRow(r, i)
           \/ \E sku \in Skus, n \in 1 .. MaxQuantity : AskAdd(r, sku, n)
      \/ req' = req \/ Crash
  BY DEF Next, CartStep, Proceed, WriteAdd, ThrowInside, PlaceOrder, RefuseRow,
         SetQuantity, RemoveItems, Cancel, RestockRow, Admin, UpdateStock,
         SetListed, ReplaceVariants, vars
<1>. QED
  BY <1>1, <1>2, <1>3, <1>4, <1>5, <1>6, <1>7, <1>8

\* Every step keeps the books of the stock.
LEMMA StepStock ==
  TypeInv /\ KnownInv /\ TakenInv /\ StockAddsUp /\ [Next]_vars => StockAddsUp'
<1>. SUFFICES ASSUME TypeInv, KnownInv, TakenInv, StockAddsUp, [Next]_vars
              PROVE  StockAddsUp'
  OBVIOUS
<1>0. /\ stock \in [Skus -> Int] /\ counted \in [Skus -> Int]
      /\ \A s \in Skus : Out(s) \in Nat
  BY OutIsInt DEF TypeInv
<1>1. ASSUME UNCHANGED <<stock, counted, variants>>, DOMAIN orders' = DOMAIN orders,
             \A o \in DOMAIN orders : /\ orders'[o].rows = orders[o].rows
                                      /\ orders'[o].back = orders[o].back
      PROVE  StockAddsUp'
  <2>1. \A s \in Skus : Out(s)' = Out(s)
    BY <1>1, OutSame
  <2>2. \A s \in Skus : Live(s)' = Live(s)
    BY <1>1 DEF Live
  <2>. QED
    BY <1>1, <2>1, <2>2 DEF StockAddsUp
<1>2. ASSUME UNCHANGED <<stock, counted, variants, orders>> PROVE StockAddsUp'
  BY <1>1, <1>2
<1>3. ASSUME NEW r \in Requests, PlaceOrder(r) PROVE StockAddsUp'
  <2>1. /\ req[r].phase = "buying" /\ req[r].todo = {}
        /\ stock' = [s \in Skus |-> stock[s] - req[r].taken[s]]
        /\ UNCHANGED <<counted, variants>>
    BY <1>3 DEF PlaceOrder, Done, shop
  <2>2. req[r].taken \in [Skus -> Nat]
    BY <2>1, BuyingIs
  <2>. SUFFICES ASSUME NEW s \in Skus, Live(s)
                PROVE  stock'[s] + Out(s)' = counted'[s]
    BY <2>1 DEF StockAddsUp, Live
  <2>3. DOMAIN req[r].rows \ {} = DOMAIN req[r].rows
    OBVIOUS
  <2>4. req[r].taken[s] = Units(req[r].rows, DOMAIN req[r].rows, s)
    BY <2>1, <2>3 DEF TakenInv, TakenFits
  <2>5. Out(s)' = Out(s) + req[r].taken[s]
    BY <1>3, <2>4, OutPlaced
  <2>6. stock[s] + Out(s) = counted[s]
    BY DEF StockAddsUp
  <2>7. stock'[s] = stock[s] - req[r].taken[s] /\ counted'[s] = counted[s]
    BY <2>1
  <2>8. /\ stock[s] \in Int /\ req[r].taken[s] \in Nat /\ Out(s) \in Nat
    BY <1>0, <2>2
  <2>. QED
    BY <2>5, <2>6, <2>7, <2>8
<1>4. ASSUME NEW o \in DOMAIN orders, Cancel(o) PROVE StockAddsUp'
  <2>1. UNCHANGED <<stock, counted, variants>>
    BY <1>4 DEF Cancel, shop
  <2>. QED
    BY <1>1, <1>4, <2>1, CancelledOrder
<1>5. ASSUME NEW o \in DOMAIN orders, NEW i \in RowIds, RestockRow(o, i)
      PROVE  StockAddsUp'
  <2>. DEFINE row == orders[o].rows[i]
  <2>1. UNCHANGED <<counted, variants>>
    BY <1>5 DEF RestockRow, shop
  <2>. SUFFICES ASSUME NEW s \in Skus, Live(s)
                PROVE  stock'[s] + Out(s)' = counted'[s]
    BY <2>1 DEF StockAddsUp, Live
  <2>2. \/ /\ stock' = [stock EXCEPT ![row.sku] = @ + row.quantity]
           /\ Out(s) = Out(s)' + (IF row.sku = s THEN row.quantity ELSE 0)
        \/ stock' = stock /\ Out(s)' = Out(s)
    BY <1>5, OutRestocked
  <2>3. row.sku \in Skus /\ row.quantity \in Nat
    BY <1>5, RestockedOrder
  <2>4. Out(s)' \in Nat
    <3>1. orders' \in Seq(Orders)
      BY <1>5, RestockedOrder
    <3>2. Out(s)' = SumFunctionOnSet(Holdings(orders', s), DOMAIN orders')
      BY DEF Out, SumFunction, Holdings, HeldBy
    <3>. QED
      BY <3>1, <3>2, HoldingsAddUp
  <2>5. stock[s] + Out(s) = counted[s] /\ stock[s] \in Int
    BY <1>0 DEF StockAddsUp
  <2>. HIDE DEF row
  <2>6. CASE stock' = stock /\ Out(s)' = Out(s)
    BY <2>1, <2>5, <2>6
  <2>7. CASE /\ stock' = [stock EXCEPT ![row.sku] = @ + row.quantity]
             /\ Out(s) = Out(s)' + (IF row.sku = s THEN row.quantity ELSE 0)
    <3>1. stock'[s] = stock[s] + (IF row.sku = s THEN row.quantity ELSE 0)
      BY <1>0, <2>3, <2>7
    <3>. QED
      BY <2>1, <2>3, <2>4, <2>5, <2>7, <3>1
  <2>. QED
    BY <2>2, <2>6, <2>7
<1>6. CASE Crash
  <2>1. UNCHANGED <<stock, counted, variants>>
    BY <1>6 DEF Crash, shop
  <2>. QED
    BY <1>1, <1>6, <2>1, CrashedOrders
<1>7. ASSUME NEW p \in Products, NEW n \in Recounts, UpdateStock(p, n)
      PROVE  StockAddsUp'
  <2>1. /\ stock' = [stock EXCEPT ![p] = n]
        /\ counted' = [counted EXCEPT ![p] = n + Out(p)]
        /\ UNCHANGED <<variants, orders>>
    BY <1>7 DEF UpdateStock
  <2>2. \A s \in Skus : Out(s)' = Out(s)
    BY <2>1, OutSame
  <2>3. \A s \in Skus : Live(s)' = Live(s)
    BY <2>1 DEF Live
  <2>4. \A s \in Skus : /\ stock'[s] = IF s = p THEN n ELSE stock[s]
                       /\ counted'[s] = IF s = p THEN n + Out(p) ELSE counted[s]
    BY <1>0, <2>1
  <2>. QED
    BY <2>2, <2>3, <2>4 DEF StockAddsUp
<1>8. ASSUME NEW p \in Products, NEW on \in BOOLEAN, SetListed(p, on)
      PROVE  StockAddsUp'
  BY <1>2, <1>8 DEF SetListed
<1>9. ASSUME NEW p \in Products, NEW new \in SUBSET Variants, NEW n \in Recounts,
             ReplaceVariants(p, new, n)
      PROVE  StockAddsUp'
  <2>1. /\ \A v \in new : variants[v] = "unborn"
        /\ \A v \in Variants : variants'[v] = "live" => v \in new
                                                       \/ variants[v] = "live"
        /\ stock' = [s \in Skus |-> IF s \in new THEN n ELSE stock[s]]
        /\ counted' = [s \in Skus |-> IF s \in new THEN n ELSE counted[s]]
        /\ UNCHANGED orders
    BY <1>9 DEF ReplaceVariants
  <2>2. \A s \in Skus : Out(s)' = Out(s)
    BY <2>1, OutSame
  <2>3. ASSUME NEW s \in new PROVE Out(s) = 0
    BY <2>1, SkusAssumption, OutOfUnknown DEF Known
  <2>4. ASSUME NEW s \in Skus, Live(s)' PROVE stock'[s] + Out(s)' = counted'[s]
    <3>1. CASE s \in new
      <4>1. n \in Nat /\ Out(s)' = 0
        BY <2>2, <2>3, <3>1, CountsAssumption
      <4>. QED
        BY <2>1, <3>1, <4>1
    <3>2. CASE s \notin new
      <4>1. Live(s)
        BY <2>1, <2>4, <3>2 DEF Live
      <4>2. stock[s] + Out(s) = counted[s]
        BY <4>1 DEF StockAddsUp
      <4>. QED
        BY <2>1, <2>2, <3>2, <4>2
    <3>. QED
      BY <3>1, <3>2
  <2>. QED
    BY <2>4 DEF StockAddsUp
<1>10. ASSUME NEW r \in Requests,
              CartStep(r) \/ ReadCart(r) \/ Proceed(r) \/ TakeRow(r)
       PROVE  PlaceOrder(r) \/ UNCHANGED <<stock, counted, variants, orders>>
  <2>1. CASE CartStep(r)
    BY <2>1 DEF CartStep, AskAdd, SetQuantity, RemoveItems, shop
  <2>2. CASE ReadCart(r) \/ TakeRow(r)
    BY <2>2 DEF ReadCart, TakeRow, shop
  <2>3. CASE Proceed(r)
    BY <2>3 DEF Proceed, WriteAdd, ThrowInside, CheckRow, RefuseRow, shop
  <2>. QED
    BY <1>10, <2>1, <2>2, <2>3
<1>11. UNCHANGED vars => UNCHANGED <<stock, counted, variants, orders>>
  BY DEF vars
<1>. QED
  BY <1>2, <1>3, <1>4, <1>5, <1>6, <1>7, <1>8, <1>9, <1>10, <1>11
    DEF Next, Admin

\* Nothing is out at the start.
LEMMA InitStock == Init => StockInv
<1>. SUFFICES ASSUME Init PROVE StockInv
  OBVIOUS
<1>1. /\ DOMAIN orders = {} /\ counted = stock
      /\ \A r \in Requests : req[r] = Idle
      /\ \A c \in Customers : cart[c] = <<>>
  BY DEF Init
<1>2. TypeInv
  BY InitTypes
<1>3. KnownInv
  BY <1>1, IdleJob DEF KnownInv, JobKnown, AllKnown
<1>4. \A r \in Requests : TakenFits(req[r])
  BY <1>1, IdleJob DEF TakenFits
<1>5. ASSUME NEW s \in Skus PROVE Out(s) = 0
  BY <1>1, OutIs, SumOfNone
<1>6. StockAddsUp
  BY <1>1, <1>2, <1>5 DEF StockAddsUp, TypeInv
<1>. QED
  BY <1>3, <1>4, <1>6 DEF StockInv

-----------------------------------------------------------------------------
(* Locks. *)

\* What a request holds is so many units of each sku.
LEMMA TakenIs ==
  ASSUME TypeInv, NEW r \in Requests
  PROVE  Taken(r) \in [Skus -> Nat] /\ \A s \in Skus : Taken(r)[s] \in Nat
<1>1. Untaken \in [Skus -> Nat]
  BY DEF Untaken
<1>2. Taken(r) \in [Skus -> Nat]
  BY <1>1, BuyingIs DEF Taken
<1>. QED
  BY <1>2

\* Requests let go of what they hold, and the shelf only gains.
LEMMA LocksEase ==
  ASSUME TypeInv, LocksInv, stock' \in [Skus -> Int], overtaken \subseteq overtaken',
         \A r \in Requests, s \in Skus :
           Taken(r)'[s] = 0 \/ Taken(r)'[s] = Taken(r)[s],
         \A s \in Skus : stock'[s] >= stock[s]
  PROVE  LocksInv'
<1>1. ASSUME NEW s \in Skus \ overtaken'
      PROVE  stock'[s] >= 0 /\ \A r \in Requests : Taken(r)'[s] <= stock'[s]
  <2>1. /\ stock[s] \in Int /\ stock[s] >= 0 /\ stock'[s] >= stock[s]
        /\ stock'[s] \in Int
    BY DEF TypeInv, LocksInv
  <2>2. ASSUME NEW r \in Requests PROVE Taken(r)'[s] <= stock'[s]
    <3>1. Taken(r)[s] \in Nat /\ Taken(r)[s] <= stock[s]
      BY TakenIs DEF LocksInv
    <3>2. Taken(r)'[s] = 0 \/ Taken(r)'[s] = Taken(r)[s]
      OBVIOUS
    <3>. QED
      BY <2>1, <3>1, <3>2
  <2>. QED
    BY <2>1, <2>2
<1>2. ASSUME NEW r \in Requests, NEW q \in Requests, r # q, NEW s \in Skus
      PROVE  Taken(r)'[s] = 0 \/ Taken(q)'[s] = 0
  BY <1>2 DEF LocksInv
<1>. QED
  BY <1>1, <1>2 DEF LocksInv

\* One request moves on, the shelf as it was.
LEMMA OneJobEases ==
  ASSUME TypeInv, LocksInv, UNCHANGED <<stock, overtaken>>, NEW r \in Requests,
         NEW what, Become(r, what),
         what.phase = "buying" => what.taken \in {Untaken, Taken(r)}
  PROVE  LocksInv'
<1>1. \A q \in Requests : req'[q] = IF q = r THEN what ELSE req[q]
  BY DEF TypeInv, Become
<1>2. \A q \in Requests : Taken(q)' \in {Untaken, Taken(q)}
  BY <1>1 DEF Taken
<1>3. \A q \in Requests, s \in Skus :
        Taken(q)'[s] = 0 \/ Taken(q)'[s] = Taken(q)[s]
  BY <1>2 DEF Untaken
<1>4. /\ stock' \in [Skus -> Int] /\ overtaken \subseteq overtaken'
      /\ \A s \in Skus : stock'[s] >= stock[s]
  BY DEF TypeInv
<1>. QED
  BY <1>3, <1>4, LocksEase

\* Requests and their holds as they were.
LEMMA ShelfEases ==
  ASSUME TypeInv, LocksInv, req' = req, overtaken' = overtaken,
         stock' \in [Skus -> Int], \A s \in Skus : stock'[s] >= stock[s]
  PROVE  LocksInv'
<1>1. \A r \in Requests : Taken(r)' = Taken(r)
  BY DEF Taken
<1>. QED
  BY <1>1, LocksEase

\* A row taken under its lock.
LEMMA TakeRowLocks ==
  ASSUME TypeInv, LocksInv, NEW r \in Requests, TakeRow(r)
  PROVE  LocksInv'
<1>. DEFINE t == req[r].taken
            want == Wanted(r)
            sku == want.sku
<1>1. /\ req[r].phase = "buying" /\ sku \in Skus /\ want.quantity \in Nat
      /\ req[r].view >= want.quantity /\ req[r].view \in Int
      /\ t \in [Skus -> Nat] /\ Become(r, AfterTaking(r))
      /\ AfterTaking(r).phase = "buying" /\ AfterTaking(r).taken = Taking(r)
  BY TakeRowJob
<1>2. /\ FreeFor(r, sku) /\ stock' = stock
      /\ overtaken' = IF req[r].view = stock[sku] - t[sku]
                      THEN overtaken ELSE overtaken \cup {sku}
  BY DEF TakeRow
<1>3. \A q \in Requests :
        Taken(q)' = IF q = r THEN Taking(r) ELSE Taken(q)
  <2>1. \A q \in Requests : req'[q] = IF q = r THEN AfterTaking(r) ELSE req[q]
    BY <1>1 DEF TypeInv, Become
  <2>. QED
    BY <1>1, <2>1 DEF Taken
<1>4. Taken(r) = t
  BY <1>1 DEF Taken
<1>5. \A s \in Skus : Taking(r)[s] = t[s] + (IF s = sku THEN want.quantity ELSE 0)
  BY <1>1 DEF Taking
<1>6. \A q \in Requests \ {r} : Taken(q)[sku] = 0
  BY <1>2 DEF FreeFor
<1>7. \A s \in Skus : t[s] \in Nat /\ stock[s] \in Int
  BY <1>1 DEF TypeInv
<1>8. \A q \in Requests \ {r}, s \in Skus : t[s] = 0 \/ Taken(q)[s] = 0
  BY <1>4 DEF LocksInv
<1>9. \A q, k \in Requests : q # k =>
        \A s \in Skus : Taken(q)[s] = 0 \/ Taken(k)[s] = 0
  BY DEF LocksInv
<1>10. \A s \in Skus \ overtaken :
         stock[s] >= 0 /\ \A q \in Requests : Taken(q)[s] <= stock[s]
  BY DEF LocksInv
<1>11. \A s \in Skus \ {sku} : Taking(r)[s] = t[s]
  BY <1>5, <1>7
<1>. HIDE DEF t, want, sku
<1>12. ASSUME NEW q \in Requests \ {r}, NEW s \in Skus
       PROVE  Taking(r)[s] = 0 \/ Taken(q)[s] = 0
  BY <1>6, <1>8, <1>11
<1>13. ASSUME NEW q \in Requests, NEW k \in Requests, q # k, NEW s \in Skus
       PROVE  Taken(q)'[s] = 0 \/ Taken(k)'[s] = 0
  BY <1>3, <1>9, <1>12, <1>13
<1>14. ASSUME NEW s \in Skus \ overtaken' PROVE Taking(r)[s] <= stock[s]
  <2>1. s \notin overtaken
    BY <1>2
  <2>2. CASE s = sku
    <3>1. req[r].view = stock[sku] - t[sku]
      BY <1>2, <2>2
    <3>2. Taking(r)[s] = t[s] + want.quantity
      BY <1>5, <2>2
    <3>. QED
      BY <1>1, <1>7, <2>2, <3>1, <3>2
  <2>3. CASE s # sku
    BY <1>4, <1>10, <1>11, <2>1, <2>3
  <2>. QED
    BY <2>2, <2>3
<1>15. overtaken \subseteq overtaken'
  BY <1>2
<1>16. \A s \in Skus \ overtaken' :
         stock'[s] >= 0 /\ \A q \in Requests : Taken(q)'[s] <= stock'[s]
  BY <1>2, <1>3, <1>10, <1>14, <1>15
<1>. QED
  BY <1>13, <1>16 DEF LocksInv

\* What was taken comes off the shelf.
LEMMA PlaceOrderLocks ==
  ASSUME TypeInv, LocksInv, NEW r \in Requests, PlaceOrder(r)
  PROVE  LocksInv'
<1>. DEFINE t == req[r].taken
<1>1. /\ req[r].phase = "buying" /\ Become(r, Idle) /\ overtaken' = overtaken
      /\ stock' = [s \in Skus |-> stock[s] - t[s]]
  BY DEF PlaceOrder, Done
<1>2. t \in [Skus -> Nat] /\ Taken(r) = t
  BY <1>1, BuyingIs DEF Taken
<1>3. \A q \in Requests : Taken(q)' = IF q = r THEN Untaken ELSE Taken(q)
  <2>1. \A q \in Requests : req'[q] = IF q = r THEN Idle ELSE req[q]
    BY <1>1 DEF TypeInv, Become
  <2>. QED
    BY <2>1, IdleJob DEF Taken
<1>4. \A s \in Skus : Untaken[s] = 0
  BY DEF Untaken
<1>5. \A q, k \in Requests : q # k =>
        \A s \in Skus : Taken(q)'[s] = 0 \/ Taken(k)'[s] = 0
  BY <1>3, <1>4 DEF LocksInv
<1>6. ASSUME NEW s \in Skus \ overtaken'
      PROVE  stock'[s] >= 0 /\ \A q \in Requests : Taken(q)'[s] <= stock'[s]
  <2>1. /\ t[s] \in Nat /\ stock[s] \in Int /\ stock'[s] = stock[s] - t[s]
        /\ stock[s] >= 0
    BY <1>1, <1>2 DEF TypeInv, LocksInv
  <2>2. t[s] <= stock[s]
    BY <1>1, <1>2 DEF LocksInv
  <2>3. ASSUME NEW q \in Requests PROVE Taken(q)'[s] <= stock'[s]
    <3>1. CASE q = r
      BY <1>3, <1>4, <2>1, <2>2, <3>1
    <3>2. CASE q # r
      <4>1. t[s] = 0 \/ Taken(q)[s] = 0
        BY <1>2, <3>2 DEF LocksInv
      <4>2. Taken(q)[s] <= stock[s] /\ Taken(q)'[s] = Taken(q)[s]
        BY <1>1, <1>3, <3>2 DEF LocksInv
      <4>. HIDE DEF t
      <4>. QED
        BY <2>1, <2>2, <4>1, <4>2
    <3>. QED
      BY <3>1, <3>2
  <2>. QED
    BY <2>1, <2>2, <2>3
<1>. QED
  BY <1>5, <1>6 DEF LocksInv

\* A shelf set to a count, with no checkout holding its units.
LEMMA RecountLocks ==
  ASSUME TypeInv, LocksInv, req' = req, overtaken' = overtaken,
         NEW those \in SUBSET Skus, NEW n \in Nat,
         \A r \in Requests, s \in those : Taken(r)[s] = 0,
         stock' = [s \in Skus |-> IF s \in those THEN n ELSE stock[s]]
  PROVE  LocksInv'
<1>1. \A r \in Requests : Taken(r)' = Taken(r)
  BY DEF Taken
<1>. QED
  BY <1>1 DEF LocksInv

\* Nobody holds units of a variant that is not there yet.
LEMMA NoneOfUnknown ==
  ASSUME TypeInv, KnownInv, TakenInv, NEW s \in Skus, ~Known(s),
         NEW r \in Requests
  PROVE  Taken(r)[s] = 0
<1>1. CASE req[r].phase = "buying"
  <2>1. req[r].taken[s] = Units(req[r].rows, DOMAIN req[r].rows \ req[r].todo, s)
    BY <1>1 DEF TakenInv, TakenFits
  <2>2. \A i \in DOMAIN req[r].rows \ req[r].todo : req[r].rows[i].sku # s
    BY <1>1 DEF KnownInv, JobKnown, AllKnown
  <2>. QED
    BY <1>1, <2>1, <2>2, UnitsOfOther DEF Taken
<1>2. CASE req[r].phase # "buying"
  BY <1>2 DEF Taken, Untaken
<1>. QED
  BY <1>1, <1>2

\* What the shop does beside the requests.
LEMMA OthersLocks ==
  ASSUME TypeInv, KnownInv, TakenInv, LocksInv,
         \/ \E o \in DOMAIN orders : Cancel(o)
                                    \/ \E i \in RowIds : RestockRow(o, i)
         \/ Admin \/ Crash
  PROVE  LocksInv'
<1>0. stock \in [Skus -> Int] /\ \A s \in Skus : stock[s] \in Int
  BY DEF TypeInv
<1>1. ASSUME NEW o \in DOMAIN orders, Cancel(o) PROVE LocksInv'
  <2>1. UNCHANGED <<stock, req, overtaken>>
    BY <1>1 DEF Cancel
  <2>2. stock' \in [Skus -> Int] /\ \A s \in Skus : stock'[s] >= stock[s]
    BY <1>0, <2>1
  <2>. QED
    BY <2>1, <2>2, ShelfEases
<1>2. ASSUME NEW o \in DOMAIN orders, NEW i \in RowIds, RestockRow(o, i)
      PROVE  LocksInv'
  <2>. DEFINE row == orders[o].rows[i]
  <2>1. /\ row.sku \in Skus /\ row.quantity \in Nat
        /\ stock' = [stock EXCEPT ![row.sku] = @ + row.quantity] \/ stock' = stock
    BY <1>2, RestockedOrder
  <2>2. req' = req /\ overtaken' = overtaken
    BY <1>2 DEF RestockRow
  <2>. HIDE DEF row
  <2>3. stock' \in [Skus -> Int] /\ \A s \in Skus : stock'[s] >= stock[s]
    BY <1>0, <2>1
  <2>. QED
    BY <2>2, <2>3, ShelfEases
<1>3. ASSUME NEW p \in Products, NEW n \in Recounts, UpdateStock(p, n)
      PROVE  LocksInv'
  <2>1. /\ \A r \in Requests, s \in {p} : Taken(r)[s] = 0
        /\ stock' = [s \in Skus |-> IF s \in {p} THEN n ELSE stock[s]]
        /\ req' = req /\ overtaken' = overtaken
    BY <1>0, <1>3 DEF UpdateStock, Free
  <2>2. {p} \in SUBSET Skus /\ n \in Nat
    BY CountsAssumption DEF Skus
  <2>. QED
    BY <2>1, <2>2, RecountLocks
<1>4. ASSUME NEW p \in Products, NEW on \in BOOLEAN, SetListed(p, on)
      PROVE  LocksInv'
  BY <1>0, <1>4, ShelfEases DEF SetListed
<1>5. ASSUME NEW p \in Products, NEW new \in SUBSET Variants, NEW n \in Recounts,
             ReplaceVariants(p, new, n)
      PROVE  LocksInv'
  <2>1. /\ \A v \in new : variants[v] = "unborn"
        /\ stock' = [s \in Skus |-> IF s \in new THEN n ELSE stock[s]]
        /\ req' = req /\ overtaken' = overtaken
    BY <1>5 DEF ReplaceVariants
  <2>2. new \in SUBSET Skus /\ n \in Nat
    BY CountsAssumption DEF Skus
  <2>3. \A s \in new : ~Known(s)
    BY <2>1, SkusAssumption DEF Known
  <2>4. \A r \in Requests, s \in new : Taken(r)[s] = 0
    BY <2>2, <2>3, NoneOfUnknown
  <2>. QED
    BY <2>1, <2>2, <2>4, RecountLocks
<1>6. CASE Crash
  <2>1. /\ req' = [r \in Requests |-> Idle] /\ stock' = stock
        /\ overtaken' = overtaken
    BY <1>6 DEF Crash
  <2>2. \A r \in Requests : Taken(r)' = Untaken
    BY <2>1, IdleJob DEF Taken
  <2>3. \A r \in Requests, s \in Skus : Taken(r)'[s] = 0
    BY <2>2 DEF Untaken
  <2>. QED
    BY <1>0, <2>1, <2>3, LocksEase
<1>. QED
  BY <1>1, <1>2, <1>3, <1>4, <1>5, <1>6 DEF Admin

\* A step keeps the locks.
LEMMA StepLocks ==
  TypeInv /\ KnownInv /\ TakenInv /\ LocksInv /\ [Next]_vars => LocksInv'
<1>. SUFFICES ASSUME TypeInv, KnownInv, TakenInv, LocksInv, [Next]_vars
              PROVE  LocksInv'
  OBVIOUS
<1>1. ASSUME NEW r \in Requests, ReadCart(r) PROVE LocksInv'
  <2>1. PICK what : Become(r, what) /\ what.taken = Untaken
    BY <1>1 DEF ReadCart
  <2>2. UNCHANGED <<stock, overtaken>>
    BY <1>1 DEF ReadCart
  <2>. QED
    BY <2>1, <2>2, OneJobEases
<1>2. ASSUME NEW r \in Requests, NEW i \in RowIds, CheckRow(r, i) PROVE LocksInv'
  <2>. DEFINE what == [req[r] EXCEPT !.checked = i,
                                    !.view = View(r, req[r].rows[i].sku)]
  <2>1. /\ Become(r, what) /\ req[r].phase = "buying"
        /\ UNCHANGED <<stock, overtaken>>
    BY <1>2 DEF CheckRow, AtRow
  <2>2. what.taken = req[r].taken /\ Taken(r) = req[r].taken
    BY <2>1, BuyingIs DEF Buying, Taken
  <2>. HIDE DEF what
  <2>. QED
    BY <2>1, <2>2, OneJobEases
<1>3. ASSUME NEW r \in Requests, Become(r, Idle), UNCHANGED <<stock, overtaken>>
      PROVE  LocksInv'
  BY <1>3, IdleJob, OneJobEases
<1>4. ASSUME NEW r \in Requests, NEW sku \in Skus, NEW n \in 1 .. MaxQuantity,
             AskAdd(r, sku, n)
      PROVE  LocksInv'
  <2>1. PICK what : Become(r, what) /\ what.phase = "adding"
    BY <1>4 DEF AskAdd
  <2>2. UNCHANGED <<stock, overtaken>>
    BY <1>4 DEF AskAdd
  <2>. QED
    BY <2>1, <2>2, OneJobEases
<1>5. CASE UNCHANGED <<stock, overtaken, req>>
  <2>1. stock' \in [Skus -> Int] /\ \A s \in Skus : stock'[s] >= stock[s]
    BY <1>5 DEF TypeInv
  <2>. QED
    BY <1>5, <2>1, ShelfEases
<1>6. ASSUME NEW r \in Requests, CartStep(r) PROVE LocksInv'
  BY <1>4, <1>5, <1>6 DEF CartStep, SetQuantity, RemoveItems
<1>7. ASSUME NEW r \in Requests, Proceed(r) PROVE LocksInv'
  <2>1. CASE WriteAdd(r)
    BY <1>3, <2>1 DEF WriteAdd
  <2>2. CASE ThrowInside(r)
    BY <1>3, <2>2 DEF ThrowInside
  <2>3. ASSUME NEW i \in RowIds, RefuseRow(r, i) PROVE LocksInv'
    BY <1>3, <2>3 DEF RefuseRow
  <2>. QED
    BY <1>2, <1>7, <2>1, <2>2, <2>3, PlaceOrderLocks DEF Proceed
<1>8. UNCHANGED vars => UNCHANGED <<stock, overtaken, req>>
  BY DEF vars
<1>. QED
  BY <1>1, <1>5, <1>6, <1>7, <1>8, TakeRowLocks, OthersLocks DEF Next

\* Nobody holds anything at the start, and nothing is below zero.
LEMMA InitLocks == Init => LocksInv
<1>. SUFFICES ASSUME Init PROVE LocksInv
  OBVIOUS
<1>1. \A r \in Requests : Taken(r) = Untaken
  BY IdleJob DEF Init, Taken
<1>2. \A s \in Skus : stock[s] \in Nat
  BY CountsAssumption DEF Init
<1>. QED
  BY <1>1, <1>2 DEF LocksInv, Untaken

-----------------------------------------------------------------------------
(* Row ids. *)

\* Each customer has one request in flight, before and after.
LEMMA StillOneAtATime == OneAtATime' <=> OneAtATime
BY DEF OneAtATime

\* A checkout in flight has its customer's cart, if the request that moved has.
LEMMA CartsStayRead ==
  ASSUME TypeInv, RowsHold, OneAtATime, NEW r \in Requests,
         \A q \in Requests \ {r} : req'[q] = req[q],
         \A c \in Customers \ {Owner[r]} : cart'[c] = cart[c],
         req'[r].phase = "buying" => req'[r].rows = cart'[Owner[r]]
  PROVE  \A q \in Requests :
           req'[q].phase = "buying" => req'[q].rows = cart'[Owner[q]]
<1>. SUFFICES ASSUME NEW q \in Requests, q # r, req'[q].phase = "buying"
              PROVE  req'[q].rows = cart'[Owner[q]]
  OBVIOUS
<1>1. Owner[q] \in Customers \ {Owner[r]}
  BY OwnerAssumption DEF OneAtATime
<1>2. req'[q] = req[q] /\ cart'[Owner[q]] = cart[Owner[q]]
  BY <1>1
<1>. QED
  BY <1>2 DEF RowsHold

\* No row is new and no order is.
LEMMA RowsKept ==
  ASSUME TypeInv, RowsHold, nextRow' = nextRow,
         \A c \in Customers : DOMAIN cart'[c] \subseteq DOMAIN cart[c],
         DOMAIN orders' = DOMAIN orders,
         \A o \in DOMAIN orders : orders'[o].rows = orders[o].rows,
         \A q \in Requests :
           req'[q].phase = "buying" => req'[q].rows = cart'[Owner[q]]
  PROVE  RowsHold'
<1>1. \A c \in Customers :
        /\ Below(DOMAIN cart'[c])
        /\ \A d \in Customers \ {c} : Apart(DOMAIN cart'[c], DOMAIN cart'[d])
  BY DEF RowsHold, Below, Apart
<1>2. \A o \in DOMAIN orders :
        /\ Below(DOMAIN orders'[o].rows)
        /\ \A c \in Customers : Apart(DOMAIN orders'[o].rows, DOMAIN cart'[c])
        /\ \A k \in DOMAIN orders \ {o} :
             Apart(DOMAIN orders'[o].rows, DOMAIN orders'[k].rows)
  BY DEF RowsHold, Apart
<1>3. \A ids : Below(ids)' <=> Below(ids)
  BY DEF Below
<1>. QED
  BY <1>1, <1>2 DEF RowsHold, Below, Apart

\* One request moved on, or one customer's rows went or changed.
LEMMA OneRequestRows ==
  ASSUME TypeInv, RowsHold, OneAtATime, NEW r \in Requests,
         UNCHANGED <<nextRow, orders>>,
         \A q \in Requests \ {r} : req'[q] = req[q],
         \A c \in Customers \ {Owner[r]} : cart'[c] = cart[c],
         DOMAIN cart'[Owner[r]] \subseteq DOMAIN cart[Owner[r]],
         req'[r].phase = "buying" => req'[r].rows = cart'[Owner[r]]
  PROVE  RowsHold'
<1>1. \A q \in Requests :
        req'[q].phase = "buying" => req'[q].rows = cart'[Owner[q]]
  BY CartsStayRead
<1>2. \A c \in Customers : DOMAIN cart'[c] \subseteq DOMAIN cart[c]
  OBVIOUS
<1>. QED
  BY <1>1, <1>2, RowsKept

\* The cart's own steps.
LEMMA CartStepRows ==
  ASSUME TypeInv, RowsHold, OneAtATime, NEW r \in Requests, CartStep(r)
  PROVE  RowsHold'
<1>. DEFINE mine == cart[Owner[r]]
<1>0. Owner[r] \in Customers /\ mine \in Rows /\ cart \in [Customers -> Rows]
  BY OwnerAssumption DEF TypeInv
<1>1. ASSUME NEW sku \in Skus, NEW n \in 1 .. MaxQuantity, AskAdd(r, sku, n)
      PROVE  RowsHold'
  <2>1. PICK what : Become(r, what) /\ what.phase = "adding"
    BY <1>1 DEF AskAdd
  <2>2. UNCHANGED <<nextRow, orders, cart>>
    BY <1>1 DEF AskAdd
  <2>3. \A q \in Requests : req'[q] = IF q = r THEN what ELSE req[q]
    BY <2>1 DEF TypeInv, Become
  <2>4. req'[r].phase = "adding"
    BY <2>1, <2>3
  <2>. QED
    BY <2>2, <2>3, <2>4, OneRequestRows
<1>2. ASSUME req[r].phase = "idle", UNCHANGED <<nextRow, orders, req>>,
             NEW new, cart' = [cart EXCEPT ![Owner[r]] = new],
             DOMAIN new \subseteq DOMAIN mine
      PROVE  RowsHold'
  <2>1. \A c \in Customers : cart'[c] = IF c = Owner[r] THEN new ELSE cart[c]
    BY <1>0, <1>2
  <2>2. DOMAIN cart'[Owner[r]] \subseteq DOMAIN mine
    BY <1>0, <1>2, <2>1
  <2>. QED
    BY <1>2, <2>1, <2>2, OneRequestRows
<1>3. ASSUME NEW i \in RowIds, NEW n \in 1 .. MaxQuantity, SetQuantity(r, i, n)
      PROVE  RowsHold'
  <2>. DEFINE new == [mine EXCEPT ![i] = [mine[i] EXCEPT !.quantity = n]]
  <2>1. /\ req[r].phase = "idle" /\ UNCHANGED <<nextRow, orders, req>>
        /\ cart' = [cart EXCEPT ![Owner[r]] = new]
    BY <1>3 DEF SetQuantity
  <2>2. DOMAIN new \subseteq DOMAIN mine
    OBVIOUS
  <2>. QED
    BY <1>2, <2>1, <2>2
<1>4. ASSUME NEW gone, RemoveItems(r, gone) PROVE RowsHold'
  <2>1. /\ req[r].phase = "idle" /\ UNCHANGED <<nextRow, orders, req>>
        /\ cart' = [cart EXCEPT ![Owner[r]] = Without(mine, gone)]
    BY <1>4 DEF RemoveItems
  <2>2. DOMAIN Without(mine, gone) \subseteq DOMAIN mine
    BY DEF Without
  <2>. QED
    BY <1>2, <2>1, <2>2
<1>. QED
  BY <1>1, <1>3, <1>4 DEF CartStep

\* The row is changed, or created under a fresh id.
LEMMA WriteAddRows ==
  ASSUME TypeInv, RowsHold, OneAtATime, NEW r \in Requests, WriteAdd(r)
  PROVE  RowsHold'
<1>. DEFINE mine == cart[Owner[r]]
            ask == req[r]
<1>0. Owner[r] \in Customers /\ mine \in Rows /\ cart \in [Customers -> Rows]
  BY OwnerAssumption DEF TypeInv
<1>1. /\ Become(r, Idle) /\ UNCHANGED orders
  BY DEF WriteAdd
<1>2. \A q \in Requests : req'[q] = IF q = r THEN Idle ELSE req[q]
  BY <1>1 DEF TypeInv, Become
<1>3. req'[r].phase = "idle"
  BY <1>2, IdleJob
<1>4. CASE /\ ask.found \in DOMAIN mine
           /\ cart' = [cart EXCEPT ![Owner[r]][ask.found].quantity =
                         ask.had + ask.row.quantity]
           /\ UNCHANGED nextRow
  <2>1. DOMAIN cart'[Owner[r]] = DOMAIN mine
    BY <1>0, <1>4
  <2>2. \A c \in Customers \ {Owner[r]} : cart'[c] = cart[c]
    BY <1>0, <1>4
  <2>. QED
    BY <1>1, <1>2, <1>3, <1>4, <2>1, <2>2, OneRequestRows
<1>5. CASE cart' = [cart EXCEPT ![Owner[r]] =
                      [i \in DOMAIN mine \cup {nextRow} |->
                         IF i = nextRow THEN ask.row ELSE mine[i]]]
           /\ nextRow' = nextRow + 1
  <2>1. /\ DOMAIN cart'[Owner[r]] = DOMAIN mine \cup {nextRow}
        /\ \A c \in Customers \ {Owner[r]} : cart'[c] = cart[c]
    BY <1>0, <1>5
  <2>2. nextRow \in Nat \ {0}
    BY DEF TypeInv
  <2>3. \A c \in Customers : DOMAIN cart'[c] \subseteq DOMAIN cart[c] \cup {nextRow}
    BY <2>1
  <2>4. /\ 1 .. nextRow' - 1 = (1 .. nextRow - 1) \cup {nextRow}
        /\ nextRow \notin 1 .. nextRow - 1
    BY <1>5, <2>2
  <2>5. \A c \in Customers : DOMAIN cart'[c] \subseteq 1 .. nextRow' - 1
    BY <2>3, <2>4 DEF RowsHold, Below
  <2>6. \A c, d \in Customers : c # d => Apart(DOMAIN cart'[c], DOMAIN cart'[d])
    <3>. SUFFICES ASSUME NEW c \in Customers, NEW d \in Customers, c # d
                  PROVE  Apart(DOMAIN cart'[c], DOMAIN cart'[d])
      OBVIOUS
    <3>1. /\ nextRow \notin DOMAIN cart[c] /\ nextRow \notin DOMAIN cart[d]
          /\ DOMAIN cart[c] \cap DOMAIN cart[d] = {}
      BY <2>4 DEF RowsHold, Below, Apart
    <3>2. cart'[c] = cart[c] \/ cart'[d] = cart[d]
      BY <2>1
    <3>. QED
      BY <2>3, <3>1, <3>2 DEF Apart
  <2>7. \A o \in DOMAIN orders : DOMAIN orders'[o].rows \subseteq 1 .. nextRow' - 1
    BY <1>1, <2>4 DEF RowsHold, Below
  <2>8. \A o \in DOMAIN orders :
          /\ \A c \in Customers : Apart(DOMAIN orders'[o].rows, DOMAIN cart'[c])
          /\ \A k \in DOMAIN orders \ {o} :
               Apart(DOMAIN orders'[o].rows, DOMAIN orders'[k].rows)
    BY <1>1, <2>3, <2>4 DEF RowsHold, Below, Apart
  <2>9. \A q \in Requests :
          req'[q].phase = "buying" => req'[q].rows = cart'[Owner[q]]
    BY <1>2, <1>3, <2>1, CartsStayRead
  <2>. QED
    BY <1>1, <2>5, <2>6, <2>7, <2>8, <2>9 DEF RowsHold, Below, Apart
<1>6. CASE UNCHANGED <<cart, nextRow>>
  BY <1>1, <1>2, <1>3, <1>6, OneRequestRows
<1>. QED
  BY <1>4, <1>5, <1>6 DEF WriteAdd

\* A cart's rows go to the order, all of them.
LEMMA PlaceOrderRows ==
  ASSUME TypeInv, RowsHold, OneAtATime, NEW r \in Requests, PlaceOrder(r)
  PROVE  RowsHold'
<1>. DEFINE N == Len(orders) + 1
            me == Owner[r]
<1>0. me \in Customers /\ cart \in [Customers -> Rows]
  BY OwnerAssumption DEF TypeInv
<1>1. /\ req[r].phase = "buying" /\ DOMAIN orders = 1 .. Len(orders)
      /\ DOMAIN orders' = 1 .. Len(orders) + 1 /\ Len(orders) \in Nat
      /\ \A o \in DOMAIN orders : orders'[o] = orders[o]
      /\ orders'[Len(orders) + 1] = NewOrder(r)
  BY PlacedOrder
<1>2. DOMAIN orders' = DOMAIN orders \cup {N} /\ N \notin DOMAIN orders
  BY <1>1
<1>3. /\ cart' = [cart EXCEPT ![me] = <<>>] /\ Become(r, Idle)
      /\ nextRow' = nextRow
  BY DEF PlaceOrder
<1>4. /\ cart'[me] = <<>> /\ \A c \in Customers \ {me} : cart'[c] = cart[c]
  BY <1>0, <1>3
<1>5. DOMAIN cart'[me] = {}
  BY <1>4, NoRows
<1>6. orders'[N].rows = cart[me]
  BY <1>1 DEF NewOrder, RowsHold
<1>7. \A q \in Requests : req'[q] = IF q = r THEN Idle ELSE req[q]
  BY <1>3 DEF TypeInv, Become
<1>8. \A q \in Requests :
        req'[q].phase = "buying" => req'[q].rows = cart'[Owner[q]]
  BY <1>4, <1>7, IdleJob, CartsStayRead
<1>. HIDE DEF N, me
<1>9. \A c \in Customers : DOMAIN cart'[c] = {} \/ (c # me /\ cart'[c] = cart[c])
  BY <1>4, <1>5
<1>10. \A c \in Customers :
         /\ Below(DOMAIN cart'[c])
         /\ \A d \in Customers \ {c} : Apart(DOMAIN cart'[c], DOMAIN cart'[d])
  BY <1>9 DEF RowsHold, Below, Apart
<1>11. \A o \in DOMAIN orders' : Below(DOMAIN orders'[o].rows)
  BY <1>0, <1>1, <1>2, <1>6 DEF RowsHold
<1>12. \A o \in DOMAIN orders' : \A c \in Customers :
         Apart(DOMAIN orders'[o].rows, DOMAIN cart'[c])
  <2>. SUFFICES ASSUME NEW o \in DOMAIN orders', NEW c \in Customers
                PROVE  Apart(DOMAIN orders'[o].rows, DOMAIN cart'[c])
    OBVIOUS
  <2>1. CASE o = N
    BY <1>0, <1>6, <1>9, <2>1 DEF RowsHold, Apart
  <2>2. CASE o # N
    <3>1. o \in DOMAIN orders /\ orders'[o] = orders[o]
      BY <1>1, <1>2, <2>2
    <3>. QED
      BY <1>9, <3>1 DEF RowsHold, Apart
  <2>. QED
    BY <2>1, <2>2
<1>13. \A o \in DOMAIN orders' : \A k \in DOMAIN orders' \ {o} :
         Apart(DOMAIN orders'[o].rows, DOMAIN orders'[k].rows)
  <2>1. \A o \in DOMAIN orders : orders'[o].rows = orders[o].rows
    BY <1>1
  <2>2. \A o \in DOMAIN orders : Apart(DOMAIN orders[o].rows, DOMAIN cart[me])
    BY <1>0 DEF RowsHold
  <2>3. \A o \in DOMAIN orders : \A k \in DOMAIN orders \ {o} :
          Apart(DOMAIN orders[o].rows, DOMAIN orders[k].rows)
    BY DEF RowsHold
  <2>. QED
    BY <1>2, <1>6, <2>1, <2>2, <2>3 DEF Apart
<1>. QED
  BY <1>3, <1>8, <1>10, <1>11, <1>12, <1>13 DEF RowsHold, Below, Apart

\* What the shop does beside the requests.
LEMMA OthersRows ==
  ASSUME TypeInv, RowsHold,
         \/ \E o \in DOMAIN orders : Cancel(o)
                                    \/ \E i \in RowIds : RestockRow(o, i)
         \/ Admin \/ Crash
  PROVE  RowsHold'
<1>1. ASSUME UNCHANGED <<nextRow, cart>>, DOMAIN orders' = DOMAIN orders,
             \A o \in DOMAIN orders : orders'[o].rows = orders[o].rows,
             req' = req \/ req' = [r \in Requests |-> Idle]
      PROVE  RowsHold'
  <2>1. \A q \in Requests :
          req'[q].phase = "buying" => req'[q].rows = cart'[Owner[q]]
    BY <1>1, IdleJob DEF RowsHold
  <2>. QED
    BY <1>1, <2>1, RowsKept
<1>2. ASSUME NEW o \in DOMAIN orders, Cancel(o) PROVE RowsHold'
  <2>1. UNCHANGED <<nextRow, cart, req>>
    BY <1>2 DEF Cancel
  <2>. QED
    BY <1>1, <1>2, <2>1, CancelledOrder
<1>3. ASSUME NEW o \in DOMAIN orders, NEW i \in RowIds, RestockRow(o, i)
      PROVE  RowsHold'
  <2>1. UNCHANGED <<nextRow, cart, req>>
    BY <1>3 DEF RestockRow
  <2>2. /\ DOMAIN orders' = DOMAIN orders
        /\ \A k \in DOMAIN orders : orders'[k].rows = orders[k].rows
    BY <1>3, RestockedOrder
  <2>. QED
    BY <1>1, <2>1, <2>2
<1>4. CASE Admin
  <2>1. UNCHANGED <<nextRow, cart, req, orders>>
    BY <1>4 DEF Admin, UpdateStock, SetListed, ReplaceVariants
  <2>. QED
    BY <1>1, <2>1
<1>5. CASE Crash
  <2>1. UNCHANGED <<nextRow, cart>> /\ req' = [r \in Requests |-> Idle]
    BY <1>5 DEF Crash
  <2>2. /\ DOMAIN orders' = DOMAIN orders
        /\ \A k \in DOMAIN orders : orders'[k].rows = orders[k].rows
    BY <1>5, CrashedOrders
  <2>. QED
    BY <1>1, <2>1, <2>2
<1>. QED
  BY <1>2, <1>3, <1>4, <1>5

\* A step gives no row out twice.
LEMMA StepRows == TypeInv /\ RowsInv /\ [Next]_vars => RowsInv'
<1>. SUFFICES ASSUME TypeInv, RowsHold, OneAtATime, [Next]_vars PROVE RowsHold'
  BY StillOneAtATime DEF RowsInv
<1>1. ASSUME NEW r \in Requests, NEW what, Become(r, what),
             what.phase = "buying" => what.rows = cart[Owner[r]],
             UNCHANGED <<nextRow, orders, cart>>
      PROVE  RowsHold'
  <2>1. \A q \in Requests : req'[q] = IF q = r THEN what ELSE req[q]
    BY <1>1 DEF TypeInv, Become
  <2>2. \A q \in Requests \ {r} : req'[q] = req[q]
    BY <2>1
  <2>3. req'[r].phase = "buying" => req'[r].rows = cart'[Owner[r]]
    BY <1>1, <2>1
  <2>. QED
    BY <1>1, <2>2, <2>3, OneRequestRows
<1>2. ASSUME NEW r \in Requests, ReadCart(r) PROVE RowsHold'
  <2>1. PICK what : Become(r, what) /\ what.rows = cart[Owner[r]]
    BY <1>2 DEF ReadCart
  <2>2. UNCHANGED <<nextRow, orders, cart>>
    BY <1>2 DEF ReadCart
  <2>. QED
    BY <1>1, <2>1, <2>2
<1>3. ASSUME NEW r \in Requests, TakeRow(r) PROVE RowsHold'
  <2>1. /\ Become(r, AfterTaking(r)) /\ AfterTaking(r).rows = req[r].rows
        /\ req[r].phase = "buying"
    BY <1>3, TakeRowJob
  <2>2. UNCHANGED <<nextRow, orders, cart>> /\ req[r].rows = cart[Owner[r]]
    BY <1>3, <2>1 DEF TakeRow, RowsHold
  <2>. QED
    BY <1>1, <2>1, <2>2
<1>4. ASSUME NEW r \in Requests, NEW i \in RowIds, CheckRow(r, i) PROVE RowsHold'
  <2>. DEFINE what == [req[r] EXCEPT !.checked = i,
                                    !.view = View(r, req[r].rows[i].sku)]
  <2>1. /\ Become(r, what) /\ req[r].phase = "buying"
        /\ UNCHANGED <<nextRow, orders, cart>>
    BY <1>4 DEF CheckRow, AtRow
  <2>2. what.rows = req[r].rows /\ req[r].rows = cart[Owner[r]]
    BY <2>1, BuyingIs DEF Buying, RowsHold
  <2>. HIDE DEF what
  <2>. QED
    BY <1>1, <2>1, <2>2
<1>5. ASSUME NEW r \in Requests, Proceed(r) PROVE RowsHold'
  <2>1. CASE ThrowInside(r)
    BY <1>1, <2>1, IdleJob DEF ThrowInside
  <2>2. ASSUME NEW i \in RowIds, RefuseRow(r, i) PROVE RowsHold'
    BY <1>1, <2>2, IdleJob DEF RefuseRow
  <2>. QED
    BY <1>4, <1>5, <2>1, <2>2, WriteAddRows, PlaceOrderRows DEF Proceed
<1>6. CASE UNCHANGED vars
  <2>1. UNCHANGED <<nextRow, orders, cart, req>>
    BY <1>6 DEF vars
  <2>2. \A q \in Requests :
          req'[q].phase = "buying" => req'[q].rows = cart'[Owner[q]]
    BY <2>1 DEF RowsHold
  <2>. QED
    BY <2>1, <2>2, RowsKept
<1>. QED
  BY <1>2, <1>3, <1>5, <1>6, CartStepRows, OthersRows DEF Next

\* Nobody has a row at the start.
LEMMA InitRows == Init => RowsInv
<1>. SUFFICES ASSUME Init PROVE RowsHold
  BY DEF RowsInv
<1>1. /\ \A c \in Customers : DOMAIN cart[c] = {}
      /\ DOMAIN orders = {} /\ \A r \in Requests : req[r].phase = "idle"
  BY NoRows, IdleJob DEF Init
<1>. QED
  BY <1>1 DEF RowsHold, Below, Apart

-----------------------------------------------------------------------------
(* Theorems. *)

\* All the layers hold of every reachable state.
THEOREM Invariant == Spec => []Inv
<1>1. Init => Inv
  BY InitTypes, InitStock, InitLocks, InitRows DEF Inv
<1>2. Inv /\ [Next]_vars => Inv'
  <2>. SUFFICES ASSUME Inv, [Next]_vars PROVE Inv'
    OBVIOUS
  <2>1. /\ TypeInv /\ KnownInv /\ TakenInv /\ StockAddsUp /\ LocksInv /\ RowsInv
    BY DEF Inv, StockInv, TakenInv
  <2>2. TypeInv' /\ KnownInv' /\ TakenInv' /\ StockAddsUp'
    BY <2>1, StepTypes, StepKnown, StepTaken, StepStock
  <2>3. LocksInv' /\ RowsInv'
    BY <2>1, StepLocks, StepRows
  <2>. QED
    BY <2>2, <2>3 DEF Inv, StockInv, TakenInv
<1>. QED
  BY <1>1, <1>2, PTL DEF Spec

\* Every variable keeps its type and its bound, checkouts and cart additions in
\* flight included.
THEOREM TypesHold == Spec => []TypeOK
<1>1. TypeInv => TypeOK
  <2>. SUFFICES ASSUME TypeInv PROVE TypeOK
    OBVIOUS
  <2>1. ASSUME NEW c \in Customers
        PROVE  /\ DOMAIN cart[c] \subseteq RowIds
               /\ \A i \in DOMAIN cart[c] : cart[c][i] \in Row
    <3>1. cart[c] \in Rows
      BY DEF TypeInv
    <3>2. cart[c] \in [DOMAIN cart[c] -> Row] /\ DOMAIN cart[c] \in SUBSET RowIds
      BY <3>1, RowsAre
    <3>. QED
      BY <3>2
  <2>2. nextRow \in 1 .. MaxRows + 1
    <3>1. IsFiniteSet(AddingNow) /\ nextRow \in Nat \ {0}
          /\ nextRow + Cardinality(AddingNow) <= MaxRows + 1
      BY DEF TypeInv
    <3>2. Cardinality(AddingNow) \in Nat
      BY <3>1, FS_CardinalityType
    <3>. QED
      BY <3>1, <3>2, BoundsAssumption
  <2>3. \A o \in DOMAIN orders : orders[o] \in Orders
    BY OrdersAre
  <2>. QED
    BY <2>1, <2>2, <2>3 DEF TypeInv, TypeOK, Jobs
<1>. QED
  BY <1>1, Invariant, PTL DEF Inv

\* The shelf and the orders that hold units add up to the last count, through
\* any interleaving of checkouts, cancellations, product edits and crashes.
THEOREM StockIsAccountedFor == Spec => []StockAddsUp
BY Invariant, PTL DEF Inv, StockInv

\* A sku goes below zero only after a decrement that went by a stale reading.
THEOREM OnlyStaleReadingsOversell == Spec => []OversoldOnlyWhenStale
<1>1. TypeInv /\ LocksInv => OversoldOnlyWhenStale
  <2>. SUFFICES ASSUME TypeInv, LocksInv, NEW s \in Skus \ overtaken
                PROVE  ~InDebt(s)
    BY DEF OversoldOnlyWhenStale
  <2>1. stock[s] \in Int /\ stock[s] >= 0
    BY DEF TypeInv, LocksInv
  <2>2. \A r \in Requests : Taken(r)[s] \in Nat /\ Taken(r)[s] <= stock[s]
    BY TakenIs DEF LocksInv
  <2>. QED
    BY <2>1, <2>2 DEF InDebt
<1>. QED
  BY <1>1, Invariant, PTL DEF Inv

\* Where each customer sends one request at a time, a cart row is in one order
\* at most, and in no cart once it is in an order.
THEOREM RowsAreOrderedOnce == Spec => []RowOrderedOnce
<1>1. RowsInv => RowOrderedOnce
  BY DEF RowsInv, RowsHold, RowOrderedOnce, Apart
<1>. QED
  BY <1>1, Invariant, PTL DEF Inv

\* Where each customer sends one request at a time, the order that checkout
\* writes has exactly the rows that it deletes from the cart.
THEOREM TheCartIsOrdered == Spec => OrderIsTheCart
<1>. DEFINE IsTheCart ==
       OneAtATime /\ Len(orders') > Len(orders) =>
         LET o == orders'[Len(orders')] IN o.rows = cart[o.owner]
<1>1. Inv /\ [Next]_vars => [IsTheCart]_vars
  <2>. SUFFICES ASSUME Inv, Next, OneAtATime, Len(orders') > Len(orders)
                PROVE  LET o == orders'[Len(orders')] IN o.rows = cart[o.owner]
    BY DEF IsTheCart
  <2>0. TypeInv /\ RowsHold
    BY DEF Inv, RowsInv
  <2>1. orders \in Seq(Orders) /\ Len(orders) \in Nat
    BY <2>0 DEF TypeInv
  <2>2. ASSUME orders' \in Seq(Orders), DOMAIN orders' = DOMAIN orders PROVE FALSE
    <3>1. /\ DOMAIN orders = 1 .. Len(orders) /\ DOMAIN orders' = 1 .. Len(orders')
          /\ Len(orders') \in Nat
      BY <2>1, <2>2
    <3>2. Len(orders') \in 1 .. Len(orders')
      BY <2>1, <3>1
    <3>. QED
      BY <2>1, <2>2, <3>1, <3>2
  <2>3. ASSUME UNCHANGED orders PROVE FALSE
    BY <2>1, <2>2, <2>3
  <2>4. PICK r \in Requests : PlaceOrder(r)
    <3>1. ASSUME NEW o \in DOMAIN orders, Cancel(o) PROVE FALSE
      BY <2>0, <2>2, <3>1, CancelledOrder
    <3>2. ASSUME NEW o \in DOMAIN orders, NEW i \in RowIds, RestockRow(o, i)
          PROVE  FALSE
      BY <2>0, <2>2, <3>2, RestockedOrder
    <3>3. CASE Crash
      BY <2>0, <2>2, <3>3, CrashedOrders
    <3>4. CASE Admin
      BY <2>3, <3>4 DEF Admin, UpdateStock, SetListed, ReplaceVariants
    <3>5. ASSUME NEW r \in Requests, CartStep(r) \/ ReadCart(r) \/ TakeRow(r)
          PROVE  FALSE
      BY <2>3, <3>5 DEF CartStep, AskAdd, SetQuantity, RemoveItems, ReadCart,
                        TakeRow
    <3>6. ASSUME NEW r \in Requests, Proceed(r) PROVE PlaceOrder(r)
      BY <2>3, <3>6 DEF Proceed, WriteAdd, ThrowInside, CheckRow, RefuseRow
    <3>. QED
      BY <3>1, <3>2, <3>3, <3>4, <3>5, <3>6 DEF Next
  <2>5. /\ Len(orders') = Len(orders) + 1 /\ req[r].phase = "buying"
        /\ orders'[Len(orders) + 1] = NewOrder(r)
    BY <2>0, <2>4, PlacedOrder
  <2>6. req[r].rows = cart[Owner[r]]
    BY <2>0, <2>5 DEF RowsHold
  <2>. QED
    BY <2>5, <2>6 DEF NewOrder
<1>. QED
  BY <1>1, Invariant, PTL DEF Spec, OrderIsTheCart
==============================================================================
