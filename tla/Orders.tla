-------------------------------- MODULE Orders --------------------------------
(***************************************************************************)
(* One order of OrdersService after checkout, and the HTTP requests that   *)
(* work on it: admin status changes, customer cancellation and line        *)
(* availability.                                                           *)
(*                                                                         *)
(* A handler reads the order, decides, and writes in a later database      *)
(* transaction. Nothing locks the row in between, so every handler keeps   *)
(* the snapshot it read and other requests may run before it commits. The  *)
(* restock loop of a cancellation runs after the commit, one update per    *)
(* line. The process may crash between any two steps.                      *)
(***************************************************************************)
EXTENDS OrderFulfilment

CONSTANTS
  Lines,        \* the order's items
  Value,        \* Value[S]: what the lines in S cost the customer together
  Charges,      \* shipping and tax, less discount: total minus the lines
  PayMethod,    \* "COD" or "ONLINE"
  VariantLines, \* lines sold as a variant, whose row a product edit may delete
  Requests,     \* the requests that can be in flight at the same time
  MaxPayments,  \* bound: no delivery is asked for beyond this many payments
  MaxRestocks   \* bound: no cancellation once a line was restocked so often

ASSUME LinesAssumption == Lines # {}
ASSUME ChargesAssumption == Charges \in Nat
ASSUME PayMethodAssumption == PayMethod \in {"COD", "ONLINE"}
ASSUME VariantLinesAssumption == VariantLines \subseteq Lines
ASSUME BoundsAssumption == MaxPayments \in Nat /\ MaxRestocks \in Nat
ASSUME ValueAssumption ==
  /\ Value \in [SUBSET Lines -> Nat]
  /\ Value[{}] = 0
  /\ \A S, T \in SUBSET Lines :
       S \cap T = {} => Value[S \cup T] = Value[S] + Value[T]

VARIABLES
  order,      \* the row with its items, its payments and its status history
  restocked,  \* how often each line's units went back on the shelf
  lost,       \* history: lines whose restock was given up by a throw or a crash
  job,        \* what each request is doing
  overtaken   \* history: some handler committed on a snapshot no longer current

vars == <<order, restocked, lost, job, overtaken>>

Total == Value[Lines] + Charges

(***************************************************************************)
(* `lifecycle' is the newest status in the history that is a real step,    *)
(* `parcels' counts the payment rows and `collected' is their sum.         *)
(***************************************************************************)
Order == [status : OrderStatus, line : [Lines -> LineStatus], hold : BOOLEAN,
          lifecycle : OrderStatus, collected : Int, parcels : Nat,
          pay : PaymentStatus]

NewOrder == [status |-> "PLACED", line |-> [l \in Lines |-> "PENDING"],
             hold |-> FALSE, lifecycle |-> "PLACED", collected |-> 0,
             parcels |-> 0, pay |-> "PENDING"]

Move == [op : {"move"}, next : OrderStatus]
Availability ==
  [op : {"availability"}, item : Lines, available : BOOLEAN, hold : BOOLEAN]

NoAsk == [op |-> "none"]
ToCancel == [op |-> "move", next |-> "CANCELLED"]

Job == [phase : {"idle", "cancelling", "history", "commit", "restock"},
        ask : Move \cup Availability \cup {NoAsk}, snap : Order,
        todo : SUBSET Lines]

Idle == [phase |-> "idle", ask |-> NoAsk, snap |-> NewOrder, todo |-> {}]

Working(phase, ask, snap) ==
  [phase |-> phase, ask |-> ask, snap |-> snap, todo |-> {}]

-----------------------------------------------------------------------------
(* Deciding, from the row that was read. *)

\* Mistakes: the hold never asked about; a cancellation accepted at any time.
AcceptsIgnoringHold(o, next) == next \in AllowedTransitions[o.status]
AcceptsAnyCancel(o, next) ==
  next = "CANCELLED" \/ next \in AllowedTransitions[o.status]

Accepts(o, next) ==
  /\ next \in AllowedTransitions[o.status]
  /\ ~(Awaiting(o.line) # {} /\ o.hold /\ blocksAdvanceTo(next))

Shipping(snap, next) ==
  IF next = "SHIPPED" THEN linesShippingNow(snap.line) ELSE {}

Delivering(snap, next) ==
  IF next = "DELIVERED" THEN linesDeliveringNow(snap.line) ELSE {}

\* The line updates a transition makes, applied to the lines as they are.
LinesAfter(line, snap, next) ==
  [l \in Lines |-> IF l \in Shipping(snap, next) THEN "SHIPPED"
                   ELSE IF l \in Delivering(snap, next) THEN "DELIVERED"
                   ELSE line[l]]

Collects(snap, next) == Delivering(snap, next) # {} /\ PayMethod = "COD"

\* What is collected on this delivery, never past the total.
Collection(snap, next) ==
  LET isFirst == snap.parcels = 0
      amount  == collectionAmount(Value[Delivering(snap, next)],
                                  Charges, isFirst)
      left    == Total - snap.collected
      smaller == IF amount < left THEN amount ELSE left
  IN  IF smaller < 0 THEN 0 ELSE smaller

\* Mistake: every history row taken for a real step.
LifecycleAsLogged(old, status) == status

\* The history keeps every row; only the newest real step is ever read back.
LifecycleAfter(old, status) ==
  IF status \in FulfilmentDerived THEN old ELSE status

\* Where a transition lands.
Resolved(snap, next) ==
  IF next \in Frozen THEN next
  ELSE deriveOrderStatus(next, LinesAfter(snap.line, snap, next), snap.hold)

\* What the commit of a transition decided from `snap' does to the row `o'.
Moved(o, snap, next) ==
  LET pays   == Collects(snap, next)
      amount == Collection(snap, next)
      status == Resolved(snap, next)
  IN  [status    |-> status,
       line      |-> LinesAfter(o.line, snap, next),
       hold      |-> o.hold,
       lifecycle |-> LifecycleAfter(o.lifecycle, status),
       collected |-> IF pays THEN o.collected + amount ELSE o.collected,
       parcels   |-> IF pays THEN o.parcels + 1 ELSE o.parcels,
       pay       |-> IF pays
                     THEN derivePaymentStatus(snap.collected + amount, Total)
                     ELSE o.pay]

LineFor(available) == IF available THEN "PENDING" ELSE "AWAITING_STOCK"

\* Clearing the last hold clears the order's flag too.
HoldAfter(snap, ask) ==
  LET projected == [snap.line EXCEPT ![ask.item] = LineFor(ask.available)]
  IN  IF ask.available THEN snap.hold /\ Awaiting(projected) # {} ELSE ask.hold

Intended(snap) ==
  IF snap.status \in FulfilmentDerived THEN snap.lifecycle ELSE snap.status

\* What the commit of an availability change does to the row `o'.
Rescheduled(o, snap, ask) ==
  LET projected == [snap.line EXCEPT ![ask.item] = LineFor(ask.available)]
      status    == deriveOrderStatus(Intended(snap), projected,
                                     HoldAfter(snap, ask))
  IN  [o EXCEPT !.line = [@ EXCEPT ![ask.item] = LineFor(ask.available)],
                !.hold = HoldAfter(snap, ask),
                !.status = status,
                !.lifecycle = IF status = snap.status THEN @
                              ELSE LifecycleAfter(@, status)]

-----------------------------------------------------------------------------
(* The requests. *)

Init ==
  /\ order = NewOrder
  /\ restocked = [l \in Lines |-> 0]
  /\ lost = {}
  /\ job = [r \in Requests |-> Idle]
  /\ overtaken = FALSE

WithinBounds(next) ==
  /\ next = "DELIVERED" => order.parcels < MaxPayments
  /\ next = "CANCELLED" => \A l \in Lines : restocked[l] < MaxRestocks

\* updateStatus: the row is read and the transition accepted. A refused
\* request changes nothing.
AskMove(r, next) ==
  /\ job[r].phase = "idle"
  /\ Accepts(order, next)
  /\ WithinBounds(next)
  /\ job' = [job EXCEPT ![r] =
               Working("commit", [op |-> "move", next |-> next], order)]
  /\ UNCHANGED <<order, restocked, lost, overtaken>>

\* cancelByCustomer: the first of its two reads, of which only the id is kept.
AskCancel(r) ==
  /\ job[r].phase = "idle"
  /\ order.status \in CustomerCancellable
  /\ WithinBounds("CANCELLED")
  /\ job' = [job EXCEPT ![r] = [Idle EXCEPT !.phase = "cancelling"]]
  /\ UNCHANGED <<order, restocked, lost, overtaken>>

\* The second read, by transitionStatus, which knows nothing of the first.
ReadToCancel(r) ==
  /\ job[r].phase = "cancelling"
  /\ job' = [job EXCEPT ![r] = IF Accepts(order, "CANCELLED")
                               THEN Working("commit", ToCancel, order)
                               ELSE Idle]
  /\ UNCHANGED <<order, restocked, lost, overtaken>>

\* Mistake: the loop left after its first turn.
RestockOneLine(line) ==
  LET kept == Lines \ Gone(line)
  IN  IF kept = {} THEN {} ELSE {CHOOSE l \in kept : TRUE}

\* The lines a cancellation puts back: those not already out.
ToRestock(line) == Lines \ Gone(line)

\* The transaction of transitionStatus.
CommitMove(r) ==
  /\ job[r].phase = "commit"
  /\ job[r].ask.op = "move"
  /\ order' = Moved(order, job[r].snap, job[r].ask.next)
  /\ job' = [job EXCEPT ![r] =
               IF job[r].ask.next = "CANCELLED" /\ ToRestock(order'.line) # {}
               THEN [Idle EXCEPT !.phase = "restock",
                                 !.todo = ToRestock(order'.line)]
               ELSE Idle]
  /\ overtaken' = (overtaken \/ job[r].snap # order)
  /\ UNCHANGED <<restocked, lost>>

AfterRestock(todo) == IF todo = {} THEN Idle
                      ELSE [Idle EXCEPT !.phase = "restock", !.todo = todo]

\* Mistake: the units taken off the shelf a second time.
RestockTakes(r, l) ==
  /\ job[r].phase = "restock"
  /\ l \in job[r].todo
  /\ restocked' = [restocked EXCEPT ![l] = @ - 1]
  /\ job' = [job EXCEPT ![r] = AfterRestock(job[r].todo \ {l})]
  /\ UNCHANGED <<order, lost, overtaken>>

\* One turn of the restock loop, an update of its own outside the transaction.
RestockLine(r, l) ==
  /\ job[r].phase = "restock"
  /\ l \in job[r].todo
  /\ restocked' = [restocked EXCEPT ![l] = @ + 1]
  /\ job' = [job EXCEPT ![r] = AfterRestock(job[r].todo \ {l})]
  /\ UNCHANGED <<order, lost, overtaken>>

\* The variant was replaced by a product edit: the update throws and the loop
\* ends with the order cancelled and the rest of its lines never put back.
RestockThrows(r, l) ==
  /\ job[r].phase = "restock"
  /\ l \in job[r].todo \cap VariantLines
  /\ lost' = lost \cup job[r].todo
  /\ job' = [job EXCEPT ![r] = Idle]
  /\ UNCHANGED <<order, restocked, overtaken>>

\* Mistake: a line already out can still be marked unavailable.
ReschedulableAnyLine(o, l) == o.status \notin Frozen

Reschedulable(o, l) == o.status \notin Frozen /\ l \notin Gone(o.line)

\* setItemAvailability: the row is read and the request accepted. The hold
\* choice is ignored when a line becomes available.
AskAvailability(r, l, available, hold) ==
  LET ask == [op |-> "availability", item |-> l, available |-> available,
              hold |-> hold]
  IN  /\ job[r].phase = "idle"
      /\ Reschedulable(order, l)
      /\ available => ~hold
      /\ job' = [job EXCEPT ![r] =
                   Working(IF order.status \in FulfilmentDerived
                           THEN "history" ELSE "commit", ask, order)]
      /\ UNCHANGED <<order, restocked, lost, overtaken>>

\* lastLifecycleStatus: a read of its own, later than the first.
ReadHistory(r) ==
  /\ job[r].phase = "history"
  /\ job' = [job EXCEPT ![r].phase = "commit",
                        ![r].snap.lifecycle = order.lifecycle]
  /\ UNCHANGED <<order, restocked, lost, overtaken>>

\* The transaction of setItemAvailability.
CommitAvailability(r) ==
  /\ job[r].phase = "commit"
  /\ job[r].ask.op = "availability"
  /\ order' = Rescheduled(order, job[r].snap, job[r].ask)
  /\ job' = [job EXCEPT ![r] = Idle]
  /\ overtaken' = (overtaken \/ job[r].snap # order)
  /\ UNCHANGED <<restocked, lost>>

\* The process dies: open transactions roll back and started handlers are gone.
Crash ==
  /\ \E r \in Requests : job[r].phase # "idle"
  /\ lost' = lost \cup UNION {job[r].todo : r \in Requests}
  /\ job' = [r \in Requests |-> Idle]
  /\ UNCHANGED <<order, restocked, overtaken>>

\* What a started handler does next.
Handler(r) ==
  \/ ReadToCancel(r) \/ CommitMove(r) \/ ReadHistory(r) \/ CommitAvailability(r)
  \/ \E l \in Lines : RestockLine(r, l) \/ RestockThrows(r, l)

Ask(r) ==
  \/ \E next \in OrderStatus : AskMove(r, next)
  \/ AskCancel(r)
  \/ \E l \in Lines, available, hold \in BOOLEAN :
       AskAvailability(r, l, available, hold)

Next == (\E r \in Requests : Ask(r) \/ Handler(r)) \/ Crash

Spec == Init /\ [][Next]_vars

\* Node runs every started handler to its end; nobody has to send a request.
FairSpec == Spec /\ \A r \in Requests : WF_vars(Handler(r))
-----------------------------------------------------------------------------
(***************************************************************************)
(* Properties. `overtaken' is false as long as every commit found the      *)
(* order as its handler had read it, however many requests were in flight. *)
(* Most of what follows is claimed for those histories: it is what the     *)
(* handlers guarantee, and all they guarantee, since they lock nothing.    *)
(***************************************************************************)

TypeOK ==
  /\ order \in Order
  /\ restocked \in [Lines -> Nat]
  /\ lost \subseteq Lines
  /\ job \in [Requests -> Job]
  /\ overtaken \in BOOLEAN

Delivered(line) == {l \in DOMAIN line : line[l] = "DELIVERED"}

StatusFits(o) ==
  LET gone == Gone(o.line)
      held == Awaiting(o.line)
  IN  /\ gone # {} =>
           o.status \in {"SHIPPED", "PARTIALLY_SHIPPED", "OUT_FOR_DELIVERY",
                         "DELIVERED", "RETURNED", "REFUNDED"}
      /\ gone \notin {{}, Lines} => o.status = "PARTIALLY_SHIPPED"
      /\ o.status = "PARTIALLY_SHIPPED" => gone # {}
      /\ o.status \in {"SHIPPED", "OUT_FOR_DELIVERY"} => gone = Lines
      /\ Delivered(o.line) = Lines
           <=> o.status \in {"DELIVERED", "RETURNED", "REFUNDED"}
      /\ o.status = "AWAITING_STOCK" <=>
           /\ o.status # "CANCELLED"
           /\ gone = {}
           /\ held = Lines \/ (held # {} /\ o.hold)
      /\ o.hold => held # {}

\* The order status never misdescribes the lines: mixed lines and only those
\* read PARTIALLY_SHIPPED (or an order sent back from its van), an order under
\* way has every line out, a closed sale has every line delivered, an order
\* reads AWAITING_STOCK exactly when it cannot move, and an order that was
\* cancelled or has not shipped has nothing out ("cancellation is unreachable
\* once a parcel has shipped").
StatusFitsLines == ~overtaken => StatusFits(order)

KeepsItsPlace(o) ==
  /\ o.status \notin FulfilmentDerived => o.lifecycle = o.status
  /\ o.status = "AWAITING_STOCK" =>
       o.lifecycle \in {"PLACED", "CONFIRMED", "PROCESSING", "PACKED"}
  /\ o.status = "PARTIALLY_SHIPPED" =>
       o.lifecycle \in {"PACKED", "SHIPPED", "OUT_FOR_DELIVERY"}

\* An order that waits for stock, or is between two parcels, remembers the
\* step it had reached, so that lastLifecycleStatus brings the first back
\* there, never past the warehouse, and the second never back into it.
HeldOrderKeepsItsPlace == ~overtaken => KeepsItsPlace(order)

BooksFit(o) ==
  LET landed == Delivered(o.line)
      unpaid == PayMethod = "ONLINE" \/ landed = {}
  IN  /\ o.parcels = 0 <=> unpaid
      /\ o.collected = IF unpaid THEN 0 ELSE Value[landed] + Charges
      /\ o.pay = "PENDING" <=> o.collected = 0
      /\ o.pay = "PAID" <=> o.collected = Total /\ o.collected # 0
      /\ o.pay \notin {"PARTIALLY_REFUNDED", "REFUNDED"}

\* The cash book of a COD order is its delivered lines plus the order-level
\* charges once, however the parcels were split; it reads PAID when that comes
\* to the total and not before; an order paid online is never collected against.
BooksFitLines == ~overtaken => BooksFit(order)

\* A line's units go back on the shelf at most once, only after a cancellation,
\* and never for a line that is out.
RestockedOnce ==
  ~overtaken =>
    \A l \in Lines :
      restocked[l] > 0 =>
        /\ restocked[l] = 1
        /\ order.status = "CANCELLED"
        /\ l \notin Gone(order.line)
        /\ \A r \in Requests : l \notin job[r].todo

\* A closed order stays closed: fulfilment never reopens it, and the only way
\* on is from RETURNED to REFUNDED.
ClosedStep ==
  order.status \in Frozen =>
    \/ order'.status = order.status
    \/ order.status = "RETURNED" /\ order'.status = "REFUNDED"

ClosedStaysClosed == [][~overtaken' => ClosedStep]_vars

\* The same claim for every interleaving of two requests.
ClosedStaysClosedAlways == [][ClosedStep]_vars

\* A line that left the shop never comes back to it, and one that was delivered
\* stays delivered, so no parcel is collected for twice.
LinesOnlyForward ==
  [][~overtaken' =>
      \A l \in Lines :
        /\ l \in Gone(order.line) => l \in Gone(order'.line)
        /\ order.line[l] = "DELIVERED" => order'.line[l] = "DELIVERED"]_vars

\* "A HELD order cannot be packed or shipped": while the shop holds an order for
\* a missing line, no other line of it leaves.
HoldHoldsEverything ==
  [][~overtaken' => (order.hold => Gone(order'.line) = Gone(order.line))]_vars

\* A parcel that is out can be marked delivered, and so collected for, whatever
\* is still owed on the order.
ParcelCanLand ==
  order.status = "PARTIALLY_SHIPPED" /\ linesDeliveringNow(order.line) # {}
    => Accepts(order, "DELIVERED")

\* "Cancelling automatically restocks": every line of a cancelled order is put
\* back in the end, except where the loop threw or the process died in it.
CancelledIsRestocked ==
  order.status = "CANCELLED" ~> \A l \in Lines : restocked[l] > 0 \/ l \in lost

\* Where a line's units are, read off the row and the shelf.
UnitOf(l) == IF restocked[l] > 0 THEN "back"
             ELSE CASE order.line[l] = "SHIPPED" -> "out"
                    [] order.line[l] = "DELIVERED" -> "landed"
                    [] OTHER -> "held"

Contract == INSTANCE OrderContract WITH unit <- [l \in Lines |-> UnitOf(l)],
                                        cash <- order.collected

\* With its requests served one at a time an order keeps its promise: statuses,
\* holds, splits and lost work never send, collect or restock anything twice.
KeepsContract == Contract!Spec
==============================================================================
