----------------------------- MODULE OrdersProofs -----------------------------
(***************************************************************************)
(* Proofs about Orders, for every set of lines, every valuation of them    *)
(* and every number of requests in flight.                                 *)
(*                                                                         *)
(* The argument: a handler commits what follows from its snapshot. If the  *)
(* snapshot still is the row (the commit is not overtaken) the commit is a *)
(* function of the row alone, and the lemmas Moved* and Rescheduled* say   *)
(* that this function keeps the row consistent. What is left is to carry   *)
(* through every step that the snapshot of a started handler was accepted. *)
(***************************************************************************)
EXTENDS Orders, TLAPS

Placements == [Lines -> LineStatus]

\* What is true of every row that no overtaken commit has touched.
RowInv(o) == StatusFits(o) /\ KeepsItsPlace(o) /\ BooksFit(o)

-----------------------------------------------------------------------------
(* The pure functions. *)

\* The value of lines that landed and of lines that land now adds up, and there
\* is room for both in the total.
LEMMA ValueSplits ==
  ASSUME NEW S \in SUBSET Lines, NEW T \in SUBSET Lines, S \cap T = {}
  PROVE  /\ Value[S] \in Nat
         /\ Value[S \cup T] = Value[S] + Value[T]
         /\ Value[S \cup T] + Charges <= Total
         /\ Total \in Nat
<1>1. /\ Value[S] \in Nat /\ Value[T] \in Nat
      /\ Value[Lines] \in Nat /\ Value[Lines \ (S \cup T)] \in Nat
      /\ Value[S \cup T] \in Nat
  BY ValueAssumption
<1>2. Value[S \cup T] = Value[S] + Value[T]
  BY ValueAssumption
<1>3. Value[(S \cup T) \cup (Lines \ (S \cup T))]
        = Value[S \cup T] + Value[Lines \ (S \cup T)]
  BY (S \cup T) \in SUBSET Lines, Lines \ (S \cup T) \in SUBSET Lines,
     (S \cup T) \cap (Lines \ (S \cup T)) = {}, ValueAssumption
<1>4. (S \cup T) \cup (Lines \ (S \cup T)) = Lines
  OBVIOUS
<1>. QED
  BY <1>1, <1>2, <1>3, <1>4, ChargesAssumption DEF Total

\* deriveOrderStatus answers with an order status.
LEMMA DeriveType ==
  ASSUME NEW s \in OrderStatus, NEW line \in Placements, NEW h \in BOOLEAN
  PROVE  deriveOrderStatus(s, line, h) \in OrderStatus
BY DEF deriveOrderStatus, OrderStatus

\* The commit of a transition writes a row.
LEMMA MovedType ==
  ASSUME NEW o \in Order, NEW snap \in Order, NEW next \in OrderStatus
  PROVE  Moved(o, snap, next) \in Order
<1>1. LinesAfter(o.line, snap, next) \in Placements
  BY DEF LinesAfter, Placements, LineStatus, Order
<1>2. LinesAfter(snap.line, snap, next) \in Placements
  BY DEF LinesAfter, Placements, LineStatus, Order
<1>3. Resolved(snap, next) \in OrderStatus
  BY <1>2, DeriveType DEF Resolved, Order
<1>4. Collection(snap, next) \in Int
  <2>1. Delivering(snap, next) \in SUBSET Lines
    BY DEF Delivering, linesDeliveringNow, Order
  <2>2. Value[Delivering(snap, next)] \in Nat /\ Total \in Nat
    BY <2>1, {} \in SUBSET Lines, ValueSplits
  <2>. QED
    BY <2>2, ChargesAssumption DEF Collection, collectionAmount, Order
<1>5. \A c \in Int : derivePaymentStatus(c, Total) \in PaymentStatus
  BY DEF derivePaymentStatus, PaymentStatus
<1>6. LifecycleAfter(o.lifecycle, Resolved(snap, next)) \in OrderStatus
  BY <1>3 DEF LifecycleAfter, Order
<1>7. /\ o.hold \in BOOLEAN /\ o.collected \in Int /\ o.parcels \in Nat
      /\ o.pay \in PaymentStatus /\ snap.collected \in Int
  BY DEF Order
<1>8. /\ (IF Collects(snap, next) THEN o.collected + Collection(snap, next)
                                 ELSE o.collected) \in Int
      /\ (IF Collects(snap, next) THEN o.parcels + 1 ELSE o.parcels) \in Nat
      /\ (IF Collects(snap, next)
          THEN derivePaymentStatus(snap.collected + Collection(snap, next), Total)
          ELSE o.pay) \in PaymentStatus
  BY <1>4, <1>5, <1>7
<1>. QED
  BY <1>1, <1>3, <1>6, <1>7, <1>8, Zenon DEF Moved, Order, Placements

\* Which transitions are accepted, row by row: a held row accepts only its
\* cancellation, and nothing that left the shop can be cancelled.
LEMMA AcceptedFrom ==
  ASSUME NEW o \in Order, NEW next \in OrderStatus, Accepts(o, next)
  PROVE  /\ next = "CONFIRMED" => o.status = "PLACED"
         /\ next = "PROCESSING" => o.status = "CONFIRMED"
         /\ next = "PACKED" => o.status \in {"PROCESSING", "AWAITING_STOCK"}
         /\ next = "SHIPPED" => o.status \in {"PACKED", "PARTIALLY_SHIPPED"}
         /\ next = "OUT_FOR_DELIVERY" =>
              o.status \in {"SHIPPED", "PARTIALLY_SHIPPED"}
         /\ next = "PARTIALLY_SHIPPED" => o.status = "OUT_FOR_DELIVERY"
         /\ next = "DELIVERED" =>
              o.status \in {"OUT_FOR_DELIVERY", "PARTIALLY_SHIPPED"}
         /\ next = "RETURNED" => o.status = "DELIVERED"
         /\ next = "REFUNDED" => o.status = "RETURNED"
         /\ next = "CANCELLED" =>
              o.status \in {"PLACED", "CONFIRMED", "PROCESSING",
                            "AWAITING_STOCK", "PACKED"}
         /\ next \notin {"PLACED", "AWAITING_STOCK"}
         /\ o.hold /\ Awaiting(o.line) # {} =>
              next \notin PackedOnwards
BY DEF Accepts, AllowedTransitions, OrderStatus, Order, blocksAdvanceTo

\* The status a consistent row lands on after an accepted transition fits its
\* lines again.
LEMMA MovedStatusFits ==
  ASSUME NEW o \in Order, NEW next \in OrderStatus,
         Accepts(o, next), StatusFits(o)
  PROVE  StatusFits(Moved(o, o, next))
<1>. DEFINE line == LinesAfter(o.line, o, next)
            landing == Resolved(o, next)
<1>1. /\ Moved(o, o, next).status = landing
      /\ Moved(o, o, next).line = line
      /\ Moved(o, o, next).hold = o.hold
  BY DEF Moved
<1>2. /\ o.line \in Placements /\ line \in Placements
      /\ DOMAIN o.line = Lines /\ DOMAIN line = Lines
  BY DEF LinesAfter, Placements, LineStatus, Order
<1>3. /\ Awaiting(line) = Awaiting(o.line)
      /\ Gone(o.line) \subseteq Gone(line)
      /\ Awaiting(line) \subseteq Lines /\ Gone(line) \subseteq Lines
      /\ Awaiting(line) \cap Gone(line) = {}
  BY <1>2 DEF Awaiting, Gone, LinesAfter, Shipping, Delivering, linesShippingNow,
              linesDeliveringNow, Placements, LineStatus
<1>4. landing = IF next \in Frozen THEN next
                ELSE deriveOrderStatus(next, line, o.hold)
  BY DEF Resolved
<1>5. o.status \in OrderStatus
  BY DEF Order
<1>6. CASE next \notin {"SHIPPED", "DELIVERED"}
  <2>1. line = o.line
    BY <1>2, <1>6 DEF LinesAfter, Shipping, Delivering, Placements
  <2>2. Gone(line) = Lines => Awaiting(line) = {}
    BY <1>3
  <2>. HIDE DEF line, landing
  <2>. QED
    BY <1>1, <1>2, <1>3, <1>4, <1>5, <1>6, <2>1, <2>2, AcceptedFrom, LinesAssumption
    DEF StatusFits, deriveOrderStatus, Frozen, PackedOnwards, OrderStatus
<1>7. CASE next = "SHIPPED"
  <2>1. Delivered(line) = Delivered(o.line)
    BY <1>2, <1>7 DEF Delivered, LinesAfter, Shipping, Delivering, linesShippingNow,
                      Placements, LineStatus
  <2>2. Gone(line) = Lines \ Awaiting(line)
    BY <1>2, <1>7 DEF Awaiting, Gone, LinesAfter, Shipping, Delivering,
                      linesShippingNow, Placements, LineStatus
  <2>. HIDE DEF line, landing
  <2>. QED
    BY <1>1, <1>2, <1>3, <1>4, <1>5, <1>7, <2>1, <2>2, AcceptedFrom, LinesAssumption
    DEF StatusFits, deriveOrderStatus, Frozen, PackedOnwards, OrderStatus
<1>8. CASE next = "DELIVERED"
  <2>1. Delivered(line) = Gone(line) /\ Gone(line) = Gone(o.line)
    BY <1>2, <1>8 DEF Delivered, Gone, LinesAfter, Shipping, Delivering,
                      linesDeliveringNow, Placements, LineStatus
  <2>. HIDE DEF line, landing
  <2>. QED
    BY <1>1, <1>2, <1>3, <1>4, <1>5, <1>8, <2>1, AcceptedFrom, LinesAssumption
    DEF StatusFits, deriveOrderStatus, Frozen, PackedOnwards, OrderStatus
<1>. QED
  BY <1>6, <1>7, <1>8

\* A row held for stock was still in the shop, and stays where it was.
LEMMA MovedKeepsPlace ==
  ASSUME NEW o \in Order, NEW next \in OrderStatus,
         Accepts(o, next), StatusFits(o), KeepsItsPlace(o)
  PROVE  KeepsItsPlace(Moved(o, o, next))
<1>1. /\ Moved(o, o, next).status = Resolved(o, next)
      /\ Moved(o, o, next).lifecycle
           = LifecycleAfter(o.lifecycle, Resolved(o, next))
  BY DEF Moved
<1>2. o.status \in OrderStatus
  BY DEF Order
<1>3. /\ Resolved(o, next) \in {next, "AWAITING_STOCK", "PARTIALLY_SHIPPED"}
      /\ Resolved(o, next) \in FulfilmentDerived => next \notin Frozen
  BY DEF Resolved, deriveOrderStatus, Frozen, FulfilmentDerived
<1>4. /\ StatusFits(Moved(o, o, next))
      /\ Moved(o, o, next).line = LinesAfter(o.line, o, next)
  BY MovedStatusFits DEF Moved
<1>5. Gone(o.line) \subseteq Gone(LinesAfter(o.line, o, next))
  BY DEF Gone, LinesAfter, Shipping, Delivering, linesShippingNow,
         linesDeliveringNow, Order, LineStatus
<1>6. CASE Resolved(o, next) = "AWAITING_STOCK"
  <2>1. Gone(LinesAfter(o.line, o, next)) = {}
    BY <1>1, <1>4, <1>6 DEF StatusFits
  <2>2. o.status \notin {"SHIPPED", "PARTIALLY_SHIPPED", "OUT_FOR_DELIVERY"}
    BY <1>5, <2>1, LinesAssumption DEF StatusFits
  <2>3. o.status \in {"PLACED", "CONFIRMED", "PROCESSING", "PACKED",
                      "AWAITING_STOCK"}
    BY <1>2, <1>3, <1>6, <2>2, AcceptedFrom
    DEF OrderStatus, Frozen, FulfilmentDerived
  <2>. QED
    BY <1>1, <1>2, <1>6, <2>3
    DEF KeepsItsPlace, LifecycleAfter, FulfilmentDerived
<1>7. CASE Resolved(o, next) = "PARTIALLY_SHIPPED"
  <2>1. next \notin {"SHIPPED", "DELIVERED"} =>
          Gone(LinesAfter(o.line, o, next)) = Gone(o.line)
    BY DEF Gone, LinesAfter, Shipping, Delivering, Order
  <2>2. Gone(LinesAfter(o.line, o, next)) # {}
    BY <1>1, <1>4, <1>7 DEF StatusFits
  <2>3. o.status \in {"PACKED", "SHIPPED", "PARTIALLY_SHIPPED",
                      "OUT_FOR_DELIVERY"}
    BY <1>2, <1>3, <1>7, <2>1, <2>2, AcceptedFrom
    DEF StatusFits, OrderStatus, Frozen, FulfilmentDerived
  <2>. QED
    BY <1>1, <1>2, <1>7, <2>3
    DEF KeepsItsPlace, LifecycleAfter, FulfilmentDerived
<1>8. CASE Resolved(o, next) \notin FulfilmentDerived
  BY <1>1, <1>8 DEF KeepsItsPlace, LifecycleAfter, FulfilmentDerived
<1>. QED
  BY <1>6, <1>7, <1>8 DEF FulfilmentDerived

\* What a delivery collects is what its lines cost, with the charges on the
\* first; the cap at the total never bites on a consistent row.
LEMMA MovedBooksFit ==
  ASSUME NEW o \in Order, NEW next \in OrderStatus,
         BooksFit(o)
  PROVE  BooksFit(Moved(o, o, next))
<1>. DEFINE landed == Delivered(o.line)
            now == Delivering(o, next)
            line == LinesAfter(o.line, o, next)
<1>1. /\ Moved(o, o, next).line = line
      /\ Moved(o, o, next).collected
           = IF Collects(o, next) THEN o.collected + Collection(o, next)
             ELSE o.collected
      /\ Moved(o, o, next).pay
           = IF Collects(o, next)
             THEN derivePaymentStatus(o.collected + Collection(o, next), Total)
             ELSE o.pay
      /\ Moved(o, o, next).parcels
           = IF Collects(o, next) THEN o.parcels + 1 ELSE o.parcels
      /\ o.parcels \in Nat
  BY DEF Moved, Order
<1>2. /\ landed \in SUBSET Lines /\ now \in SUBSET Lines /\ landed \cap now = {}
      /\ Delivered(line) = landed \cup now
  BY DEF Delivered, Delivering, Shipping, linesDeliveringNow, linesShippingNow,
         LinesAfter, Order, LineStatus
<1>3. /\ Value[landed] \in Nat /\ Value[now] \in Nat /\ Total \in Nat
      /\ Value[landed \cup now] = Value[landed] + Value[now]
      /\ Value[landed] + Value[now] + Charges <= Total
      /\ Charges \in Nat
  <2>1. {} \in SUBSET Lines /\ now \cap {} = {}
    OBVIOUS
  <2>. QED
    BY <1>2, <2>1, ValueSplits, ChargesAssumption
<1>4. CASE ~Collects(o, next)
  <2>1. PayMethod = "ONLINE" \/ now = {}
    BY <1>4, PayMethodAssumption DEF Collects
  <2>2. Delivered(line) = {} <=> landed = {} /\ now = {}
    BY <1>2
  <2>. HIDE DEF landed, now, line
  <2>. QED
    BY <1>1, <1>2, <1>4, <2>1, <2>2 DEF BooksFit, landed
<1>5. CASE Collects(o, next)
  <2>1. PayMethod = "COD" /\ now # {} /\ Delivered(line) # {}
    BY <1>2, <1>5 DEF Collects
  <2>2. /\ o.collected = IF landed = {} THEN 0 ELSE Value[landed] + Charges
        /\ o.parcels = 0 <=> landed = {}
    BY <2>1 DEF BooksFit
  <2>3. Collection(o, next)
          = IF landed = {} THEN Value[now] + Charges ELSE Value[now]
    <3>1. landed = {} => Value[landed] = 0
      BY ValueAssumption
    <3>. HIDE DEF landed
    <3>. QED
      BY <1>3, <2>2, <3>1 DEF Collection, collectionAmount
  <2>4. o.collected + Collection(o, next) = Value[Delivered(line)] + Charges
    <3>1. landed = {} => Value[landed] = 0
      BY ValueAssumption
    <3>. HIDE DEF landed, now, line
    <3>. QED
      BY <1>2, <1>3, <2>2, <2>3, <3>1
  <2>5. /\ Value[Delivered(line)] + Charges \in Nat
        /\ Value[Delivered(line)] + Charges <= Total /\ Total \in Nat
    <3>. HIDE DEF landed, now, line
    <3>. QED
      BY <1>2, <1>3
  <2>. DEFINE sum == Value[Delivered(line)] + Charges
              new == derivePaymentStatus(sum, Total)
  <2>6. /\ new = "PENDING" <=> sum = 0
        /\ new = "PAID" <=> sum = Total /\ sum # 0
        /\ new \notin {"PARTIALLY_REFUNDED", "REFUNDED"}
    <3>. HIDE DEF landed, now, line, sum
    <3>. QED
      BY <2>5 DEF sum, derivePaymentStatus
  <2>7. /\ Moved(o, o, next).pay = new /\ Moved(o, o, next).collected = sum
        /\ Moved(o, o, next).parcels # 0
    BY <1>1, <1>5, <2>4
  <2>. HIDE DEF landed, now, line, sum, new
  <2>. QED
    BY <1>1, <2>1, <2>6, <2>7 DEF BooksFit, sum
<1>. QED
  BY <1>4, <1>5

\* The commit of an availability change writes a row.
LEMMA RescheduledType ==
  ASSUME NEW o \in Order, NEW snap \in Order, NEW ask \in Availability
  PROVE  Rescheduled(o, snap, ask) \in Order
<1>. DEFINE projected == [snap.line EXCEPT ![ask.item] = LineFor(ask.available)]
            status == deriveOrderStatus(Intended(snap), projected,
                                        HoldAfter(snap, ask))
<1>1. /\ ask.item \in Lines /\ ask.available \in BOOLEAN /\ ask.hold \in BOOLEAN
      /\ LineFor(ask.available) \in LineStatus
  BY DEF Availability, LineFor, LineStatus
<1>2. /\ projected \in Placements
      /\ [o.line EXCEPT ![ask.item] = LineFor(ask.available)] \in Placements
  BY <1>1 DEF Order, Placements
<1>3. HoldAfter(snap, ask) \in BOOLEAN
  BY <1>1 DEF HoldAfter, Order
<1>4. status \in OrderStatus
  BY <1>2, <1>3, DeriveType DEF Intended, Order
<1>5. LifecycleAfter(o.lifecycle, status) \in OrderStatus
  BY <1>4 DEF LifecycleAfter, Order
<1>. QED
  BY <1>2, <1>3, <1>4, <1>5 DEF Rescheduled, Order, Placements

\* Its effect on a consistent row, field by field. A row whose line is still in
\* the shop has shipped either nothing or only some of its lines.
LEMMA RescheduledRow ==
  ASSUME NEW o \in Order, NEW ask \in Availability, RowInv(o),
         Reschedulable(o, ask.item)
  PROVE  LET line == [o.line EXCEPT ![ask.item] = LineFor(ask.available)]
             r == Rescheduled(o, o, ask)
         IN  /\ r.line = line
             /\ r.hold = HoldAfter(o, ask)
             /\ r.status = deriveOrderStatus(Intended(o), line, HoldAfter(o, ask))
             /\ r.lifecycle = IF r.status = o.status THEN o.lifecycle
                              ELSE LifecycleAfter(o.lifecycle, r.status)
             /\ r.collected = o.collected /\ r.parcels = o.parcels /\ r.pay = o.pay
             /\ DOMAIN o.line = Lines /\ DOMAIN line = Lines
             /\ Gone(line) = Gone(o.line) /\ Gone(line) # Lines
             /\ Delivered(line) = Delivered(o.line) /\ Delivered(line) # Lines
             /\ Awaiting(line) \subseteq Lines /\ Awaiting(line) \cap Gone(line) = {}
             /\ Awaiting(line) = IF ask.available THEN Awaiting(o.line) \ {ask.item}
                                 ELSE Awaiting(o.line) \cup {ask.item}
             /\ o.status \in {"PLACED", "CONFIRMED", "PROCESSING", "PACKED",
                              "AWAITING_STOCK", "PARTIALLY_SHIPPED"}
<1>. DEFINE line == [o.line EXCEPT ![ask.item] = LineFor(ask.available)]
<1>1. /\ ask.item \in Lines /\ ask.available \in BOOLEAN
      /\ o.line \in Placements /\ o.status \in OrderStatus
  BY DEF Availability, Order, Placements
<1>2. ask.item \notin Gone(o.line) /\ o.status \notin Frozen
  BY DEF Reschedulable
<1>3. /\ DOMAIN o.line = Lines /\ DOMAIN line = Lines
      /\ \A l \in Lines : line[l] = IF l = ask.item THEN LineFor(ask.available)
                                   ELSE o.line[l]
      /\ o.line[ask.item] \in {"PENDING", "AWAITING_STOCK"}
  BY <1>1, <1>2 DEF Gone, Placements, LineStatus
<1>4. /\ Gone(line) = Gone(o.line) /\ Gone(line) # Lines
      /\ Delivered(line) = Delivered(o.line) /\ Delivered(line) # Lines
  BY <1>1, <1>3 DEF Gone, Delivered, LineFor
<1>5. /\ Awaiting(line) \subseteq Lines /\ Awaiting(line) \cap Gone(line) = {}
      /\ Awaiting(line) = IF ask.available THEN Awaiting(o.line) \ {ask.item}
                          ELSE Awaiting(o.line) \cup {ask.item}
  BY <1>1, <1>3 DEF Awaiting, Gone, LineFor
<1>6. o.status \in {"PLACED", "CONFIRMED", "PROCESSING", "PACKED",
                    "AWAITING_STOCK", "PARTIALLY_SHIPPED"}
  BY <1>1, <1>2, <1>4 DEF RowInv, StatusFits, OrderStatus, Frozen
<1>7. /\ Rescheduled(o, o, ask).line = line
      /\ Rescheduled(o, o, ask).hold = HoldAfter(o, ask)
      /\ Rescheduled(o, o, ask).status
           = deriveOrderStatus(Intended(o), line, HoldAfter(o, ask))
      /\ Rescheduled(o, o, ask).lifecycle
           = IF Rescheduled(o, o, ask).status = o.status THEN o.lifecycle
             ELSE LifecycleAfter(o.lifecycle, Rescheduled(o, o, ask).status)
      /\ Rescheduled(o, o, ask).collected = o.collected
      /\ Rescheduled(o, o, ask).parcels = o.parcels
      /\ Rescheduled(o, o, ask).pay = o.pay
  BY DEF Rescheduled, Order
<1>. HIDE DEF line
<1>. QED
  BY <1>3, <1>4, <1>5, <1>6, <1>7 DEF line

\* Marking a line keeps the row consistent.
LEMMA RescheduledRowInv ==
  ASSUME NEW o \in Order, NEW ask \in Availability, RowInv(o),
         Reschedulable(o, ask.item)
  PROVE  RowInv(Rescheduled(o, o, ask))
<1>. DEFINE line == [o.line EXCEPT ![ask.item] = LineFor(ask.available)]
            hold == HoldAfter(o, ask)
            r == Rescheduled(o, o, ask)
<1>1. /\ r.line = line /\ r.hold = hold
      /\ r.status = deriveOrderStatus(Intended(o), line, hold)
      /\ r.lifecycle = IF r.status = o.status THEN o.lifecycle
                       ELSE LifecycleAfter(o.lifecycle, r.status)
      /\ r.collected = o.collected /\ r.parcels = o.parcels /\ r.pay = o.pay
      /\ DOMAIN line = Lines
      /\ Gone(line) = Gone(o.line) /\ Gone(line) # Lines
      /\ Delivered(line) = Delivered(o.line) /\ Delivered(line) # Lines
      /\ Awaiting(line) \subseteq Lines /\ Awaiting(line) \cap Gone(line) = {}
      /\ Awaiting(line) = IF ask.available THEN Awaiting(o.line) \ {ask.item}
                          ELSE Awaiting(o.line) \cup {ask.item}
      /\ o.status \in {"PLACED", "CONFIRMED", "PROCESSING", "PACKED",
                       "AWAITING_STOCK", "PARTIALLY_SHIPPED"}
  BY RescheduledRow
<1>2. hold => Awaiting(line) # {}
  BY <1>1 DEF HoldAfter
<1>3. /\ o.status = "PARTIALLY_SHIPPED" => Gone(line) # {}
      /\ o.status # "PARTIALLY_SHIPPED" => Gone(line) = {}
  BY <1>1 DEF RowInv, StatusFits
<1>4. o.status # "PARTIALLY_SHIPPED" =>
        Intended(o) \in {"PLACED", "CONFIRMED", "PROCESSING", "PACKED"}
  BY <1>1 DEF RowInv, KeepsItsPlace, Intended, FulfilmentDerived
<1>5. /\ StatusFits(r) /\ KeepsItsPlace(r)
  <2>1. CASE o.status = "PARTIALLY_SHIPPED"
    <3>1. Intended(o) \in {"PACKED", "SHIPPED", "OUT_FOR_DELIVERY"}
      BY <2>1 DEF RowInv, KeepsItsPlace, Intended, FulfilmentDerived
    <3>2. r.status = "PARTIALLY_SHIPPED"
      BY <1>1, <1>3, <2>1, <3>1 DEF deriveOrderStatus, Frozen
    <3>. HIDE DEF line, hold, r
    <3>. QED
      BY <1>1, <1>2, <1>3, <2>1, <3>2
      DEF RowInv, StatusFits, KeepsItsPlace, FulfilmentDerived
  <2>2. CASE o.status # "PARTIALLY_SHIPPED"
    <3>1. r.status = IF Awaiting(line) # {} /\ (Awaiting(line) = Lines \/ hold)
                     THEN "AWAITING_STOCK" ELSE Intended(o)
      BY <1>1, <1>2, <1>3, <1>4, <2>2, LinesAssumption
      DEF deriveOrderStatus, Frozen
    <3>. HIDE DEF line, hold, r
    <3>2. StatusFits(r)
      BY <1>1, <1>2, <1>3, <1>4, <2>2, <3>1 DEF StatusFits
    <3>3. KeepsItsPlace(r)
      BY <1>1, <1>4, <2>2, <3>1
      DEF RowInv, KeepsItsPlace, Intended, LifecycleAfter, FulfilmentDerived
    <3>. QED
      BY <3>2, <3>3
  <2>. QED
    BY <2>1, <2>2
<1>6. BooksFit(r)
  BY <1>1 DEF RowInv, BooksFit
<1>. QED
  BY <1>5, <1>6 DEF RowInv

-----------------------------------------------------------------------------
(* Type correctness. *)

\* A row that was just read, and the row of an idle request, are well typed.
LEMMA JobTypes ==
  /\ NewOrder \in Order /\ Idle \in Job
  /\ \A phase \in {"cancelling", "history", "commit"}, snap \in Order,
        ask \in Move \cup Availability \cup {NoAsk} :
       Working(phase, ask, snap) \in Job
  /\ \A todo \in SUBSET Lines :
       /\ AfterRestock(todo) \in Job
       /\ [Idle EXCEPT !.phase = "restock", !.todo = todo] \in Job
<1>1. NewOrder \in Order
  BY DEF NewOrder, Order, OrderStatus, LineStatus, PaymentStatus
<1>2. ToCancel \in Move
  BY DEF ToCancel, Move, OrderStatus
<1>3. Idle \in Job
  BY <1>1 DEF Idle, Job
<1>4. ASSUME NEW phase \in {"cancelling", "history", "commit"},
             NEW ask \in Move \cup Availability \cup {NoAsk}, NEW snap \in Order
      PROVE  Working(phase, ask, snap) \in Job
  BY DEF Working, Job
<1>5. ASSUME NEW todo \in SUBSET Lines
      PROVE  /\ AfterRestock(todo) \in Job
             /\ [Idle EXCEPT !.phase = "restock", !.todo = todo] \in Job
  BY <1>1, <1>3 DEF Idle, Job, AfterRestock
<1>. QED
  BY <1>1, <1>3, <1>4, <1>5

\* A new order and idle requests are well typed.
LEMMA InitType == Init => TypeOK
<1>. SUFFICES ASSUME Init PROVE TypeOK
  OBVIOUS
<1>1. NewOrder \in Order /\ Idle \in Job
  BY JobTypes
<1>2. order \in Order /\ lost \subseteq Lines /\ overtaken \in BOOLEAN
  BY <1>1, Zenon DEF Init
<1>3. restocked \in [Lines -> Nat]
  BY 0 \in Nat, Zenon DEF Init
<1>4. job \in [Requests -> Job]
  BY <1>1, Zenon DEF Init
<1>. QED
  BY <1>2, <1>3, <1>4 DEF TypeOK

\* Every reachable state is well typed, in every interleaving.
THEOREM TypeCorrect == Spec => []TypeOK
<1>1. Init => TypeOK
  BY InitType
<1>2. ASSUME TypeOK, [Next]_vars PROVE TypeOK'
  <2>0. TypeOK
    BY <1>2
  <2>. USE <2>0 DEF TypeOK
  <2>1. ASSUME NEW r \in Requests, NEW next \in OrderStatus, AskMove(r, next)
        PROVE  TypeOK'
    <3>1. [op |-> "move", next |-> next] \in Move
      BY DEF Move
    <3>. QED
      BY <2>1, <3>1, JobTypes DEF AskMove
  <2>2. ASSUME NEW r \in Requests, AskCancel(r) PROVE TypeOK'
    <3>1. [Idle EXCEPT !.phase = "cancelling"] \in Job
      BY JobTypes DEF Idle, Job
    <3>. QED
      BY <2>2, <3>1 DEF AskCancel
  <2>3. ASSUME NEW r \in Requests, ReadToCancel(r) PROVE TypeOK'
    <3>1. ToCancel \in Move
      BY DEF ToCancel, Move, OrderStatus
    <3>. QED
      BY <2>3, <3>1, JobTypes DEF ReadToCancel
  <2>4. ASSUME NEW r \in Requests, CommitMove(r) PROVE TypeOK'
    <3>1. job[r].ask \in Move /\ job[r].snap \in Order
      BY <2>4 DEF CommitMove, Job, Availability, NoAsk
    <3>2. order' \in Order
      BY <2>4, <3>1, MovedType DEF CommitMove, Move
    <3>3. ToRestock(order'.line) \in SUBSET Lines
      BY DEF ToRestock
    <3>. QED
      BY <2>4, <3>2, <3>3, JobTypes DEF CommitMove
  <2>5. ASSUME NEW r \in Requests, ReadHistory(r) PROVE TypeOK'
    <3>1. job[r] \in Job /\ job[r].snap \in Order /\ order.lifecycle \in OrderStatus
      BY DEF Job, Order
    <3>2. [job[r].snap EXCEPT !.lifecycle = order.lifecycle] \in Order
      BY <3>1 DEF Order
    <3>3. [job[r] EXCEPT !.phase = "commit",
                         !.snap = [@ EXCEPT !.lifecycle = order.lifecycle]] \in Job
      BY <3>1, <3>2 DEF Job
    <3>. QED
      BY <2>5, <3>3 DEF ReadHistory
  <2>6. ASSUME NEW r \in Requests, CommitAvailability(r) PROVE TypeOK'
    <3>1. job[r].ask \in Availability /\ job[r].snap \in Order
      BY <2>6 DEF CommitAvailability, Job, Move, NoAsk
    <3>2. order' \in Order
      BY <2>6, <3>1, RescheduledType DEF CommitAvailability
    <3>. QED
      BY <2>6, <3>2, JobTypes DEF CommitAvailability
  <2>7. ASSUME NEW r \in Requests, NEW l \in Lines, RestockLine(r, l) PROVE TypeOK'
    <3>1. job[r].todo \ {l} \in SUBSET Lines
      BY DEF Job
    <3>2. AfterRestock(job[r].todo \ {l}) \in Job
      BY <3>1, JobTypes
    <3>3. job' \in [Requests -> Job]
      BY <2>7, <3>2 DEF RestockLine
    <3>4. restocked' \in [Lines -> Nat]
      BY <2>7 DEF RestockLine
    <3>. QED
      BY <2>7, <3>3, <3>4 DEF RestockLine
  <2>8. ASSUME NEW r \in Requests, NEW l \in Lines, RestockThrows(r, l)
        PROVE  TypeOK'
    BY <2>8, JobTypes DEF RestockThrows, Job
  <2>9. ASSUME NEW r \in Requests, NEW l \in Lines, NEW available \in BOOLEAN,
               NEW hold \in BOOLEAN, AskAvailability(r, l, available, hold)
        PROVE  TypeOK'
    <3>1. [op |-> "availability", item |-> l, available |-> available,
           hold |-> hold] \in Availability
      BY DEF Availability
    <3>. QED
      BY <2>9, <3>1, JobTypes DEF AskAvailability
  <2>10. CASE Crash
    <3>1. Idle \in Job
      BY JobTypes
    <3>2. lost' \subseteq Lines
      BY <2>10 DEF Crash, Job
    <3>. QED
      BY <2>10, <3>1, <3>2 DEF Crash
  <2>11. CASE UNCHANGED vars
    BY <2>11 DEF vars
  <2>. QED
    BY <1>2, <2>1, <2>2, <2>3, <2>4, <2>5, <2>6, <2>7, <2>8, <2>9, <2>10, <2>11
    DEF Next, Ask, Handler
<1>. QED
  BY <1>1, <1>2, PTL DEF Spec

-----------------------------------------------------------------------------
(* The inductive invariant and the safety properties it carries: a handler  *)
(* that was accepted stays accepted for the row it read; a line is on the    *)
(* shelf, or waits in one request's restock loop, only once the order is     *)
(* cancelled. With the lemmas above every commit that finds its snapshot     *)
(* still current keeps the row consistent.                                   *)

AskAccepted(j) ==
  /\ j.phase = "commit" =>
       \/ j.ask \in Move /\ Accepts(j.snap, j.ask.next)
       \/ j.ask \in Availability /\ Reschedulable(j.snap, j.ask.item)
  /\ j.phase = "history" =>
       j.ask \in Availability /\ Reschedulable(j.snap, j.ask.item)
  /\ j.phase # "restock" => j.todo = {}

JobsAccepted == \A r \in Requests : AskAccepted(job[r])

ShelfFits ==
  \A l \in Lines :
    /\ restocked[l] > 0 =>
         restocked[l] = 1 /\ \A r \in Requests : l \notin job[r].todo
    /\ restocked[l] > 0 \/ (\E r \in Requests : l \in job[r].todo) =>
         order.status = "CANCELLED" /\ l \notin Gone(order.line)
    /\ \A r, q \in Requests :
         l \in job[r].todo /\ l \in job[q].todo => r = q

Inv == TypeOK /\ JobsAccepted /\ (~overtaken => RowInv(order) /\ ShelfFits)

-----------------------------------------------------------------------------

\* A line not sold or delivered is pending on a new order.
LEMMA NewOrderFits == RowInv(NewOrder)
<1>. DEFINE line == [l \in Lines |-> "PENDING"]
<1>1. DOMAIN line = Lines /\ Gone(line) = {} /\ Awaiting(line) = {}
      /\ Delivered(line) = {}
  BY DEF Gone, Awaiting, Delivered
<1>2. /\ NewOrder.line = line /\ NewOrder.status = "PLACED"
      /\ NewOrder.hold = FALSE /\ NewOrder.lifecycle = "PLACED"
      /\ NewOrder.collected = 0 /\ NewOrder.parcels = 0
      /\ NewOrder.pay = "PENDING"
  BY DEF NewOrder
<1>. HIDE DEF line
<1>. QED
  BY <1>1, <1>2, LinesAssumption
  DEF RowInv, StatusFits, KeepsItsPlace, BooksFit, FulfilmentDerived,
      derivePaymentStatus

\* The invariant holds of a new order.
LEMMA InitInv == Init => Inv
<1>. SUFFICES ASSUME Init PROVE Inv
  OBVIOUS
<1>1. TypeOK
  BY InitType
<1>2. \A r \in Requests : job[r].phase = "idle" /\ job[r].todo = {}
  BY DEF Init, Idle
<1>3. JobsAccepted
  BY <1>2 DEF JobsAccepted, AskAccepted
<1>4. RowInv(order)
  BY NewOrderFits DEF Init
<1>5. ShelfFits
  BY <1>2 DEF ShelfFits, Init
<1>. QED
  BY <1>1, <1>3, <1>4, <1>5 DEF Inv

\* A commit that is not overtaken finds the row as it was read; when that row
\* is not cancelled, nothing was restocked and no loop is under way.
LEMMA NothingBackYet ==
  ASSUME TypeOK, ShelfFits, order.status # "CANCELLED"
  PROVE  /\ \A l \in Lines : restocked[l] = 0
         /\ \A r \in Requests : job[r].todo = {}
<1>1. \A l \in Lines : restocked[l] \in Nat
  BY DEF TypeOK
<1>2. \A r \in Requests : job[r].todo \subseteq Lines
  BY DEF TypeOK, Job
<1>. QED
  BY <1>1, <1>2 DEF ShelfFits

\* The transaction of a transition keeps the invariant.
LEMMA CommitMoveInv ==
  ASSUME Inv, TypeOK', NEW r \in Requests, CommitMove(r)
  PROVE  Inv'
<1>. DEFINE snap == job[r].snap
            next == job[r].ask.next
<1>1. job[r].ask \in Move /\ snap \in Order /\ next \in OrderStatus
  BY DEF Inv, TypeOK, Job, CommitMove, Move, Availability, NoAsk
<1>2. Accepts(snap, next)
  BY <1>1 DEF Inv, JobsAccepted, AskAccepted, CommitMove, Availability, Move
<1>3. /\ \A q \in Requests : q # r => job'[q] = job[q]
      /\ job'[r].phase \in {"idle", "restock"}
      /\ job'[r].todo \subseteq ToRestock(order'.line)
      /\ job'[r].phase = "idle" => job'[r].todo = {}
      /\ job'[r].todo # {} => next = "CANCELLED"
  BY DEF Inv, TypeOK, CommitMove, Idle
<1>4. JobsAccepted'
  BY <1>3 DEF Inv, JobsAccepted, AskAccepted
<1>5. ASSUME ~overtaken' PROVE RowInv(order') /\ ShelfFits'
  <2>1. ~overtaken /\ snap = order
    BY <1>5 DEF CommitMove, Inv, TypeOK
  <2>2. /\ order' = Moved(order, order, next) /\ Accepts(order, next)
        /\ RowInv(order) /\ ShelfFits /\ order \in Order
    BY <1>2, <2>1 DEF CommitMove, Inv, TypeOK
  <2>3. RowInv(order')
    BY <1>1, <2>2, MovedStatusFits, MovedKeepsPlace, MovedBooksFit DEF RowInv
  <2>4. order.status # "CANCELLED"
    BY <2>2 DEF Accepts, AllowedTransitions
  <2>5. /\ \A l \in Lines : restocked'[l] = 0
        /\ \A q \in Requests : job[q].todo = {}
    BY <2>2, <2>4, NothingBackYet DEF CommitMove, Inv
  <2>6. next = "CANCELLED" => order'.status = "CANCELLED"
    BY <2>2 DEF Moved, Resolved, Frozen
  <2>7. \A q \in Requests : q # r => job'[q].todo = {}
    BY <1>3, <2>5
  <2>8. ShelfFits'
    BY <1>3, <2>5, <2>6, <2>7 DEF ShelfFits, ToRestock
  <2>. QED
    BY <2>3, <2>8
<1>. QED
  BY <1>4, <1>5 DEF Inv

\* The transaction of an availability change keeps it.
LEMMA CommitAvailabilityInv ==
  ASSUME Inv, TypeOK', NEW r \in Requests, CommitAvailability(r)
  PROVE  Inv'
<1>. DEFINE snap == job[r].snap
            ask == job[r].ask
<1>1. ask \in Availability /\ snap \in Order
  BY DEF Inv, TypeOK, Job, CommitAvailability, Move, NoAsk
<1>2. Reschedulable(snap, ask.item)
  BY <1>1 DEF Inv, JobsAccepted, AskAccepted, CommitAvailability, Availability,
              Move
<1>3. /\ \A q \in Requests : q # r => job'[q] = job[q]
      /\ job'[r].phase = "idle" /\ job'[r].todo = {}
  BY DEF Inv, TypeOK, CommitAvailability, Idle
<1>4. JobsAccepted'
  BY <1>3 DEF Inv, JobsAccepted, AskAccepted
<1>5. ASSUME ~overtaken' PROVE RowInv(order') /\ ShelfFits'
  <2>1. ~overtaken /\ snap = order
    BY <1>5 DEF CommitAvailability, Inv, TypeOK
  <2>2. /\ order' = Rescheduled(order, order, ask)
        /\ Reschedulable(order, ask.item)
        /\ RowInv(order) /\ ShelfFits /\ order \in Order
    BY <1>2, <2>1 DEF CommitAvailability, Inv, TypeOK
  <2>3. RowInv(order')
    BY <1>1, <2>2, RescheduledRowInv
  <2>4. order.status # "CANCELLED"
    BY <2>2 DEF Reschedulable, Frozen
  <2>5. /\ \A l \in Lines : restocked'[l] = 0
        /\ \A q \in Requests : job'[q].todo = {}
    BY <1>3, <2>2, <2>4, NothingBackYet DEF CommitAvailability, Inv
  <2>. QED
    BY <2>3, <2>5 DEF ShelfFits
<1>. QED
  BY <1>4, <1>5 DEF Inv

\* A step that only files a request away, or starts one, keeps it.
LEMMA FiledInv ==
  ASSUME Inv, TypeOK', UNCHANGED <<order, restocked, overtaken>>,
         JobsAccepted', \A r \in Requests : job'[r].todo \subseteq job[r].todo
  PROVE  Inv'
<1>1. \A r \in Requests, l \in Lines : l \in job'[r].todo => l \in job[r].todo
  OBVIOUS
<1>2. ShelfFits => ShelfFits'
  BY <1>1 DEF ShelfFits
<1>3. RowInv(order) => RowInv(order')
  OBVIOUS
<1>. QED
  BY <1>2, <1>3 DEF Inv

\* One turn of the restock loop keeps it: the line leaves the loop it was in,
\* the only one it was in.
LEMMA RestockLineInv ==
  ASSUME Inv, TypeOK', NEW r \in Requests, NEW l \in Lines, RestockLine(r, l)
  PROVE  Inv'
<1>1. /\ \A q \in Requests : q # r => job'[q] = job[q]
      /\ job'[r].phase \in {"idle", "restock"}
      /\ job'[r].phase = "idle" => job'[r].todo = {}
      /\ job'[r].todo = job[r].todo \ {l}
  BY DEF Inv, TypeOK, RestockLine, AfterRestock, Idle
<1>2. JobsAccepted'
  BY <1>1 DEF Inv, JobsAccepted, AskAccepted
<1>3. ASSUME ~overtaken' PROVE RowInv(order') /\ ShelfFits'
  <2>1. RowInv(order) /\ ShelfFits /\ order' = order
    BY <1>3 DEF Inv, RestockLine
  <2>2. /\ l \in job[r].todo
        /\ \A k \in Lines : k # l => restocked'[k] = restocked[k]
        /\ restocked'[l] = restocked[l] + 1 /\ restocked[l] \in Nat
    BY DEF RestockLine, Inv, TypeOK
  <2>3. restocked[l] = 0 /\ \A q \in Requests : l \notin job'[q].todo
    BY <1>1, <2>1, <2>2 DEF ShelfFits
  <2>4. \A q \in Requests : job'[q].todo \subseteq job[q].todo
    BY <1>1
  <2>. QED
    BY <2>1, <2>2, <2>3, <2>4 DEF ShelfFits
<1>. QED
  BY <1>2, <1>3 DEF Inv

\* Every step keeps the invariant.
LEMMA StepInv == Inv /\ TypeOK' /\ [Next]_vars => Inv'
<1>. SUFFICES ASSUME Inv, TypeOK', [Next]_vars PROVE Inv'
  OBVIOUS
<1>0. TypeOK /\ JobsAccepted /\ job \in [Requests -> Job]
  BY DEF Inv, TypeOK
<1>1. ASSUME NEW r \in Requests, NEW next \in OrderStatus, AskMove(r, next)
      PROVE  Inv'
  <2>1. [op |-> "move", next |-> next] \in Move
    BY DEF Move
  <2>2. /\ job' = [job EXCEPT ![r] =
                     Working("commit", [op |-> "move", next |-> next], order)]
        /\ Accepts(order, next)
    BY <1>1 DEF AskMove
  <2>3. AskAccepted(Working("commit", [op |-> "move", next |-> next], order))
    BY <2>1, <2>2 DEF AskAccepted, Working
  <2>4. JobsAccepted'
    BY <1>0, <2>2, <2>3 DEF JobsAccepted
  <2>5. \A q \in Requests : job'[q].todo \subseteq job[q].todo
    BY <1>0, <2>2 DEF Working
  <2>. QED
    BY <1>1, <2>4, <2>5, FiledInv DEF AskMove
<1>2. ASSUME NEW r \in Requests, AskCancel(r) PROVE Inv'
  <2>1. /\ \A q \in Requests : q # r => job'[q] = job[q]
        /\ job'[r].phase = "cancelling" /\ job'[r].todo = {}
    BY <1>0, <1>2 DEF AskCancel, Idle
  <2>2. JobsAccepted'
    BY <1>0, <2>1 DEF JobsAccepted, AskAccepted
  <2>3. \A q \in Requests : job'[q].todo \subseteq job[q].todo
    BY <2>1
  <2>. QED
    BY <1>2, <2>2, <2>3, FiledInv DEF AskCancel
<1>3. ASSUME NEW r \in Requests, ReadToCancel(r) PROVE Inv'
  <2>1. ToCancel \in Move /\ ToCancel.next = "CANCELLED"
    BY DEF ToCancel, Move, OrderStatus
  <2>2. /\ \A q \in Requests : q # r => job'[q] = job[q]
        /\ job'[r] \in {Working("commit", ToCancel, order), Idle}
        /\ job'[r] # Idle => Accepts(order, "CANCELLED")
    BY <1>0, <1>3 DEF ReadToCancel
  <2>3. job'[r].todo = {} /\ AskAccepted(job'[r])
    BY <2>1, <2>2 DEF AskAccepted, Working, Idle
  <2>4. JobsAccepted'
    BY <1>0, <2>2, <2>3 DEF JobsAccepted
  <2>5. \A q \in Requests : job'[q].todo \subseteq job[q].todo
    BY <2>2, <2>3
  <2>. QED
    BY <1>3, <2>4, <2>5, FiledInv DEF ReadToCancel
<1>4. ASSUME NEW r \in Requests, CommitMove(r) PROVE Inv'
  BY <1>4, CommitMoveInv
<1>5. ASSUME NEW r \in Requests, ReadHistory(r) PROVE Inv'
  <2>1. /\ \A q \in Requests : q # r => job'[q] = job[q]
        /\ job'[r].phase = "commit" /\ job'[r].todo = job[r].todo
        /\ job'[r].ask = job[r].ask
        /\ job'[r].snap = [job[r].snap EXCEPT !.lifecycle = order.lifecycle]
        /\ job[r].snap \in Order /\ job[r].phase = "history"
    BY <1>0, <1>5 DEF ReadHistory, Job
  <2>2. job[r].ask \in Availability /\ Reschedulable(job[r].snap, job[r].ask.item)
        /\ job[r].todo = {}
    BY <1>0, <2>1 DEF JobsAccepted, AskAccepted
  <2>3. AskAccepted(job'[r])
    BY <2>1, <2>2 DEF AskAccepted, Reschedulable, Order
  <2>4. JobsAccepted'
    BY <1>0, <2>1, <2>3 DEF JobsAccepted
  <2>5. \A q \in Requests : job'[q].todo \subseteq job[q].todo
    BY <2>1
  <2>. QED
    BY <1>5, <2>4, <2>5, FiledInv DEF ReadHistory
<1>6. ASSUME NEW r \in Requests, CommitAvailability(r) PROVE Inv'
  BY <1>6, CommitAvailabilityInv
<1>7. ASSUME NEW r \in Requests, NEW l \in Lines, RestockLine(r, l) PROVE Inv'
  BY <1>7, RestockLineInv
<1>8. ASSUME NEW r \in Requests, NEW l \in Lines, RestockThrows(r, l) PROVE Inv'
  <2>1. /\ \A q \in Requests : q # r => job'[q] = job[q]
        /\ job'[r].phase = "idle" /\ job'[r].todo = {}
    BY <1>0, <1>8 DEF RestockThrows, Idle
  <2>2. JobsAccepted'
    BY <1>0, <2>1 DEF JobsAccepted, AskAccepted
  <2>3. \A q \in Requests : job'[q].todo \subseteq job[q].todo
    BY <2>1
  <2>. QED
    BY <1>8, <2>2, <2>3, FiledInv DEF RestockThrows
<1>9. ASSUME NEW r \in Requests, NEW l \in Lines, NEW available \in BOOLEAN,
             NEW hold \in BOOLEAN, AskAvailability(r, l, available, hold)
      PROVE  Inv'
  <2>. DEFINE ask == [op |-> "availability", item |-> l,
                      available |-> available, hold |-> hold]
  <2>1. ask \in Availability /\ ask.item = l
    BY DEF Availability
  <2>2. /\ \A q \in Requests : q # r => job'[q] = job[q]
        /\ job'[r].phase \in {"history", "commit"}
        /\ job'[r].ask = ask /\ job'[r].snap = order /\ job'[r].todo = {}
        /\ Reschedulable(order, l)
    BY <1>0, <1>9 DEF AskAvailability, Working
  <2>3. AskAccepted(job'[r])
    <3>. HIDE DEF ask
    <3>. QED
      BY <2>1, <2>2 DEF AskAccepted
  <2>4. JobsAccepted'
    BY <1>0, <2>2, <2>3 DEF JobsAccepted
  <2>5. \A q \in Requests : job'[q].todo \subseteq job[q].todo
    BY <2>2
  <2>. QED
    BY <1>9, <2>4, <2>5, FiledInv DEF AskAvailability
<1>10. CASE Crash
  <2>1. \A q \in Requests : job'[q].phase = "idle" /\ job'[q].todo = {}
    BY <1>10 DEF Crash, Idle
  <2>2. JobsAccepted'
    BY <2>1 DEF JobsAccepted, AskAccepted
  <2>3. \A q \in Requests : job'[q].todo \subseteq job[q].todo
    BY <2>1
  <2>. QED
    BY <1>10, <2>2, <2>3, FiledInv DEF Crash
<1>11. CASE UNCHANGED vars
  <2>1. JobsAccepted'
    BY <1>0, <1>11 DEF vars, JobsAccepted
  <2>. QED
    BY <1>11, <2>1, FiledInv DEF vars
<1>. QED
  BY <1>1, <1>2, <1>3, <1>4, <1>5, <1>6, <1>7, <1>8, <1>9, <1>10, <1>11
  DEF Next, Ask, Handler

\* The inductive invariant holds in every reachable state.
THEOREM Invariant == Spec => []Inv
BY InitInv, StepInv, TypeCorrect, PTL DEF Spec

-----------------------------------------------------------------------------
(* The state properties. *)

\* The order status never misdescribes the lines.
THEOREM StatusIsRight == Spec => []StatusFitsLines
<1>1. Inv => StatusFitsLines
  BY DEF Inv, RowInv, StatusFitsLines
<1>. QED
  BY <1>1, Invariant, PTL

\* An order that waits remembers the step it had reached.
THEOREM PlaceIsKept == Spec => []HeldOrderKeepsItsPlace
<1>1. Inv => HeldOrderKeepsItsPlace
  BY DEF Inv, RowInv, HeldOrderKeepsItsPlace
<1>. QED
  BY <1>1, Invariant, PTL

\* Cash collected at the door is what the delivered lines and the order-level
\* charges come to, however the parcels were split.
THEOREM BooksAreRight == Spec => []BooksFitLines
<1>1. Inv => BooksFitLines
  BY DEF Inv, RowInv, BooksFitLines
<1>. QED
  BY <1>1, Invariant, PTL

\* No line is put back on the shelf twice.
THEOREM NeverBackTwice == Spec => []RestockedOnce
<1>1. Inv => RestockedOnce
  BY DEF Inv, ShelfFits, RestockedOnce
<1>. QED
  BY <1>1, Invariant, PTL

-----------------------------------------------------------------------------
(* The action properties. *)

\* Which steps write the row, and what they make of it.
LEMMA RowStep ==
  ASSUME Inv, Next, ~overtaken'
  PROVE  /\ ~overtaken
         /\ \/ order' = order
            \/ \E next \in OrderStatus :
                 Accepts(order, next) /\ order' = Moved(order, order, next)
            \/ \E ask \in Availability :
                 /\ Reschedulable(order, ask.item)
                 /\ order' = Rescheduled(order, order, ask)
<1>1. ASSUME NEW r \in Requests, CommitMove(r)
      PROVE  /\ ~overtaken
             /\ \E next \in OrderStatus :
                  Accepts(order, next) /\ order' = Moved(order, order, next)
  <2>1. ~overtaken /\ job[r].snap = order
    BY <1>1 DEF CommitMove, Inv, TypeOK
  <2>2. job[r].ask \in Move /\ job[r].ask.next \in OrderStatus
    BY <1>1 DEF Inv, TypeOK, Job, CommitMove, Move, Availability, NoAsk
  <2>3. Accepts(order, job[r].ask.next)
    BY <1>1, <2>1, <2>2
    DEF Inv, JobsAccepted, AskAccepted, CommitMove, Availability, Move
  <2>. QED
    BY <1>1, <2>1, <2>2, <2>3 DEF CommitMove
<1>2. ASSUME NEW r \in Requests, CommitAvailability(r)
      PROVE  /\ ~overtaken
             /\ \E ask \in Availability :
                  /\ Reschedulable(order, ask.item)
                  /\ order' = Rescheduled(order, order, ask)
  <2>1. ~overtaken /\ job[r].snap = order
    BY <1>2 DEF CommitAvailability, Inv, TypeOK
  <2>2. job[r].ask \in Availability
    BY <1>2 DEF Inv, TypeOK, Job, CommitAvailability, Move, NoAsk
  <2>3. Reschedulable(order, job[r].ask.item)
    BY <1>2, <2>1, <2>2
    DEF Inv, JobsAccepted, AskAccepted, CommitAvailability, Availability, Move
  <2>. QED
    BY <1>2, <2>1, <2>2, <2>3 DEF CommitAvailability
<1>3. \/ \E r \in Requests : CommitMove(r) \/ CommitAvailability(r)
      \/ order' = order /\ overtaken' = overtaken
  BY DEF Next, Ask, Handler, AskMove, AskCancel, ReadToCancel, ReadHistory,
         RestockLine, RestockThrows, AskAvailability, Crash
<1>. QED
  BY <1>1, <1>2, <1>3

\* A closed order stays closed.
THEOREM ClosedIsClosed == Spec => ClosedStaysClosed
<1>1. Inv /\ [Next]_vars => [~overtaken' => ClosedStep]_vars
  <2>. SUFFICES ASSUME Inv, Next, ~overtaken', order.status \in Frozen
                PROVE  ClosedStep
    BY DEF ClosedStep
  <2>1. ASSUME NEW next \in OrderStatus, Accepts(order, next),
               order' = Moved(order, order, next)
        PROVE  ClosedStep
    <3>1. next = "REFUNDED" /\ order.status = "RETURNED"
      BY <2>1 DEF Accepts, AllowedTransitions, Frozen
    <3>2. order'.status = next
      BY <2>1, <3>1 DEF Moved, Resolved, Frozen
    <3>. QED
      BY <3>1, <3>2 DEF ClosedStep
  <2>2. ~ \E ask \in Availability : Reschedulable(order, ask.item)
    BY DEF Reschedulable
  <2>. QED
    BY <2>1, <2>2, RowStep DEF ClosedStep
<1>. QED
  BY <1>1, Invariant, PTL DEF Spec, ClosedStaysClosed

\* A line never comes back to the shop.
THEOREM LinesGoForward == Spec => LinesOnlyForward
<1>1. Inv /\ [Next]_vars =>
        [~overtaken' =>
           \A l \in Lines :
             /\ l \in Gone(order.line) => l \in Gone(order'.line)
             /\ order.line[l] = "DELIVERED" => order'.line[l] = "DELIVERED"]_vars
  <2>. SUFFICES ASSUME Inv, Next, ~overtaken', NEW l \in Lines
                PROVE  /\ l \in Gone(order.line) => l \in Gone(order'.line)
                       /\ order.line[l] = "DELIVERED" =>
                            order'.line[l] = "DELIVERED"
    OBVIOUS
  <2>0. order \in Order
    BY DEF Inv, TypeOK
  <2>1. ASSUME NEW next \in OrderStatus, order' = Moved(order, order, next)
        PROVE  /\ l \in Gone(order.line) => l \in Gone(order'.line)
               /\ order.line[l] = "DELIVERED" => order'.line[l] = "DELIVERED"
    BY <2>0, <2>1 DEF Moved, LinesAfter, Shipping, Delivering, linesShippingNow,
                      linesDeliveringNow, Gone, Order
  <2>2. ASSUME NEW ask \in Availability, Reschedulable(order, ask.item),
               order' = Rescheduled(order, order, ask)
        PROVE  /\ l \in Gone(order.line) => l \in Gone(order'.line)
               /\ order.line[l] = "DELIVERED" => order'.line[l] = "DELIVERED"
    <3>1. order'.line = [order.line EXCEPT ![ask.item] = LineFor(ask.available)]
      BY <2>0, <2>2 DEF Rescheduled, Order
    <3>2. ask.item \in Lines /\ ask.item \notin Gone(order.line)
      BY <2>2 DEF Availability, Reschedulable
    <3>. QED
      BY <2>0, <3>1, <3>2 DEF Gone, Order
  <2>. QED
    BY <2>1, <2>2, RowStep
<1>. QED
  BY <1>1, Invariant, PTL DEF Spec, LinesOnlyForward

\* Nothing leaves an order that is held.
THEOREM HeldIsHeld == Spec => HoldHoldsEverything
<1>1. Inv /\ [Next]_vars =>
        [~overtaken' =>
           (order.hold => Gone(order'.line) = Gone(order.line))]_vars
  <2>. SUFFICES ASSUME Inv, Next, ~overtaken', order.hold
                PROVE  Gone(order'.line) = Gone(order.line)
    OBVIOUS
  <2>0. /\ order \in Order /\ ~overtaken /\ RowInv(order)
    BY RowStep DEF Inv, TypeOK
  <2>1. ASSUME NEW next \in OrderStatus, Accepts(order, next),
               order' = Moved(order, order, next)
        PROVE  Gone(order'.line) = Gone(order.line)
    <3>1. Awaiting(order.line) # {}
      BY <2>0 DEF RowInv, StatusFits
    <3>2. next \notin {"SHIPPED", "DELIVERED"}
      BY <2>1, <3>1 DEF Accepts, blocksAdvanceTo, PackedOnwards
    <3>3. order'.line = [k \in Lines |-> order.line[k]]
      BY <2>1, <3>2 DEF Moved, LinesAfter, Shipping, Delivering
    <3>. QED
      BY <2>0, <3>3 DEF Order, Gone
  <2>2. ASSUME NEW ask \in Availability, Reschedulable(order, ask.item),
               order' = Rescheduled(order, order, ask)
        PROVE  Gone(order'.line) = Gone(order.line)
    <3>. DEFINE line == [order.line EXCEPT ![ask.item] = LineFor(ask.available)]
    <3>1. order'.line = line
      BY <2>0, <2>2 DEF Rescheduled, Order
    <3>2. Gone(line) = Gone(order.line)
      BY <2>0, <2>2, RescheduledRow
    <3>. HIDE DEF line
    <3>. QED
      BY <3>1, <3>2
  <2>. QED
    BY <2>1, <2>2, RowStep
<1>. QED
  BY <1>1, Invariant, PTL DEF Spec, HoldHoldsEverything

-----------------------------------------------------------------------------
(* The refinement: a step that finds the row as it was read does to the      *)
(* units and the cash what the contract allows, or nothing.                  *)

Units == [l \in Lines |-> UnitOf(l)]

\* A new order holds everything and has taken nothing.
LEMMA InitContract == Init => Contract!Init
<1>. SUFFICES ASSUME Init PROVE Contract!Init
  OBVIOUS
<1>1. \A l \in Lines : restocked[l] = 0 /\ order.line[l] = "PENDING"
  BY DEF Init, NewOrder
<1>2. order.collected = 0
  BY DEF Init, NewOrder
<1>3. \A l \in Lines : UnitOf(l) = "held"
  BY <1>1 DEF UnitOf
<1>. QED
  BY <1>2, <1>3 DEF Contract!Init

\* Only the restock loop touches the shelf, and it touches nothing else.
LEMMA ShelfStep ==
  ASSUME Next
  PROVE  \/ restocked' = restocked
         \/ order' = order /\ \E r \in Requests, l \in Lines : RestockLine(r, l)
<1>1. ASSUME NEW r \in Requests, Ask(r) PROVE restocked' = restocked
  BY <1>1 DEF Ask, AskMove, AskCancel, AskAvailability
<1>2. ASSUME NEW r \in Requests, NEW l \in Lines, RestockLine(r, l)
      PROVE  order' = order
  BY <1>2 DEF RestockLine
<1>3. ASSUME NEW r \in Requests, Handler(r)
      PROVE  restocked' = restocked \/ \E l \in Lines : RestockLine(r, l)
  BY <1>3 DEF Handler, ReadToCancel, CommitMove, ReadHistory,
              CommitAvailability, RestockThrows
<1>. QED
  BY <1>1, <1>2, <1>3 DEF Next, Crash

\* One turn of the loop gives one line back, of an order nothing of which left.
LEMMA GivesBack ==
  ASSUME Inv, ~overtaken, NEW r \in Requests, NEW l \in Lines, RestockLine(r, l)
  PROVE  Contract!GiveBack(l)
<1>1. /\ l \in job[r].todo /\ order' = order
      /\ restocked' = [restocked EXCEPT ![l] = @ + 1]
      /\ RowInv(order) /\ ShelfFits /\ TypeOK
  BY DEF RestockLine, Inv
<1>2. /\ restocked[l] = 0 /\ order.status = "CANCELLED"
  <2>1. restocked[l] \in Nat
    BY <1>1 DEF TypeOK
  <2>. QED
    BY <1>1, <2>1 DEF ShelfFits
<1>3. Gone(order.line) = {} /\ DOMAIN order.line = Lines
  BY <1>1, <1>2 DEF RowInv, StatusFits, TypeOK, Order
<1>4. \A k \in Lines : order.line[k] \notin {"SHIPPED", "DELIVERED"}
  BY <1>3 DEF Gone
<1>5. \A k \in Lines : UnitOf(k) = IF restocked[k] > 0 THEN "back" ELSE "held"
  BY <1>4 DEF UnitOf
<1>6. \A k \in Lines : UnitOf(k)' = IF restocked'[k] > 0 THEN "back" ELSE "held"
  BY <1>1, <1>4 DEF UnitOf
<1>7. /\ restocked'[l] > 0
      /\ \A k \in Lines \ {l} : restocked'[k] = restocked[k]
  BY <1>1, <1>2 DEF TypeOK
<1>8. Contract!At("out") = {} /\ Contract!At("landed") = {}
  BY <1>5 DEF Contract!At
<1>9. Units[l] = "held"
  BY <1>2, <1>5 DEF Units
<1>10. Units' = [k \in Lines |-> IF k \in {l} THEN "back" ELSE Units[k]]
  BY <1>5, <1>6, <1>7 DEF Units
<1>. QED
  BY <1>1, <1>8, <1>9, <1>10 DEF Contract!GiveBack, Contract!Put, Units

\* A transition sends lines out, lands them, or moves none.
LEMMA MovesUnits ==
  ASSUME Inv, TypeOK', ~overtaken, NEW next \in OrderStatus, Accepts(order, next),
         order' = Moved(order, order, next), restocked' = restocked
  PROVE  \/ \E S \in SUBSET Lines : Contract!Dispatch(S) \/ Contract!Land(S)
         \/ Units' = Units /\ order'.collected = order.collected
<1>. DEFINE line == order.line
            S == Shipping(order, next)
            T == Delivering(order, next)
<1>1. TypeOK /\ RowInv(order) /\ ShelfFits /\ order \in Order
  BY DEF Inv, TypeOK
<1>2. order.status # "CANCELLED"
  BY DEF Accepts, AllowedTransitions
<1>3. /\ \A l \in Lines : restocked[l] = 0
      /\ \A l \in Lines : restocked'[l] = 0
  BY <1>1, <1>2, NothingBackYet
<1>4. /\ S \in SUBSET Lines /\ T \in SUBSET Lines
      /\ \A l \in S : line[l] = "PENDING"
      /\ T = {l \in Lines : next = "DELIVERED" /\ line[l] = "SHIPPED"}
      /\ S # {} => next = "SHIPPED"
  BY <1>1 DEF Shipping, Delivering, linesShippingNow, linesDeliveringNow, Order
<1>5. /\ \A l \in Lines : order'.line[l] = IF l \in S THEN "SHIPPED"
                                           ELSE IF l \in T THEN "DELIVERED"
                                           ELSE line[l]
      /\ order'.collected = IF Collects(order, next)
                            THEN order.collected + Collection(order, next)
                            ELSE order.collected
  BY <1>1 DEF Moved, LinesAfter
<1>6. \A l \in Lines :
        /\ Units[l] = CASE line[l] = "SHIPPED" -> "out"
                        [] line[l] = "DELIVERED" -> "landed"
                        [] OTHER -> "held"
        /\ Units'[l] = CASE order'.line[l] = "SHIPPED" -> "out"
                         [] order'.line[l] = "DELIVERED" -> "landed"
                         [] OTHER -> "held"
  BY <1>3 DEF Units, UnitOf
<1>7. /\ Contract!At("back") = {}
      /\ Contract!At("landed") = Delivered(line)
      /\ Contract!At("out") = {l \in Lines : line[l] = "SHIPPED"}
      /\ Contract!At("held") = {l \in Lines : line[l] \notin {"SHIPPED", "DELIVERED"}}
  BY <1>1, <1>6 DEF Contract!At, Delivered, Order, Units
<1>. HIDE DEF S, T
<1>8. CASE next = "SHIPPED" /\ S # {}
  <2>1. T = {} /\ ~Collects(order, next)
    BY <1>4, <1>8 DEF Collects, T
  <2>2. Units' = [l \in Lines |-> IF l \in S THEN "out" ELSE Units[l]]
    BY <1>4, <1>5, <1>6, <2>1 DEF Units
  <2>3. S \subseteq Contract!At("held") /\ order'.collected = order.collected
    BY <1>4, <1>5, <1>7, <2>1
  <2>4. Contract!Dispatch(S)
    BY <1>7, <1>8, <2>2, <2>3 DEF Contract!Dispatch, Contract!Put, Units
  <2>. QED
    BY <1>4, <2>4
<1>9. CASE next = "DELIVERED" /\ T # {}
  <2>1. S = {}
    BY <1>4, <1>9
  <2>2. Units' = [l \in Lines |-> IF l \in T THEN "landed" ELSE Units[l]]
    BY <1>4, <1>5, <1>6, <1>9, <2>1 DEF Units
  <2>3. T \subseteq Contract!At("out")
    BY <1>4, <1>7
  <2>4. order'.collected = IF PayMethod = "ONLINE" THEN order.collected
                           ELSE order.collected + Value[T]
                                  + (IF Delivered(line) = {} THEN Charges ELSE 0)
    <3>1. CASE PayMethod = "ONLINE"
      BY <1>5, <3>1 DEF Collects
    <3>2. CASE PayMethod # "ONLINE"
      <4>1. BooksFit(order) /\ BooksFit(order')
        BY <1>1, MovedBooksFit DEF RowInv
      <4>2. /\ Delivered(order'.line) = Delivered(line) \cup T
            /\ Delivered(line) \cap T = {} /\ Delivered(line) \in SUBSET Lines
        BY <1>1, <1>4, <1>5, <1>9, <2>1 DEF Delivered, Order, TypeOK
      <4>3. /\ order.collected = IF Delivered(line) = {} THEN 0
                                 ELSE Value[Delivered(line)] + Charges
            /\ order'.collected = Value[Delivered(line) \cup T] + Charges
        BY <1>9, <3>2, <4>1, <4>2 DEF BooksFit
      <4>4. /\ Value[Delivered(line) \cup T] = Value[Delivered(line)] + Value[T]
            /\ Value[Delivered(line)] \in Nat /\ Value[T] \in Nat
        BY <1>4, <4>2, ValueAssumption
      <4>5. Delivered(line) = {} => Value[Delivered(line)] = 0
        BY ValueAssumption
      <4>. QED
        BY <3>2, <4>3, <4>4, <4>5, ChargesAssumption
    <3>. QED
      BY <3>1, <3>2
  <2>5. Contract!Land(T)
    BY <1>7, <1>9, <2>2, <2>3, <2>4 DEF Contract!Land, Contract!Put, Units
  <2>. QED
    BY <1>4, <2>5
<1>10. CASE S = {} /\ T = {}
  <2>1. \A l \in Lines : order'.line[l] = line[l]
    BY <1>5, <1>10
  <2>2. Units' = Units
    BY <1>6, <2>1 DEF Units
  <2>3. ~Collects(order, next)
    BY <1>10 DEF Collects, T
  <2>. QED
    BY <1>5, <2>2, <2>3
<1>11. T # {} => next = "DELIVERED"
  BY <1>4
<1>. QED
  BY <1>4, <1>8, <1>9, <1>10, <1>11

\* A line found or not found to be available stays in the shop.
LEMMA ReschedulesNoUnits ==
  ASSUME Inv, ~overtaken, NEW ask \in Availability, Reschedulable(order, ask.item),
         order' = Rescheduled(order, order, ask), restocked' = restocked
  PROVE  Units' = Units /\ order'.collected = order.collected
<1>1. order \in Order /\ ask.item \in Lines
  BY DEF Inv, TypeOK, Availability
<1>2. /\ order'.line = [order.line EXCEPT ![ask.item] = LineFor(ask.available)]
      /\ order'.collected = order.collected
  BY <1>1 DEF Rescheduled, Order
<1>3. order.line[ask.item] \notin {"SHIPPED", "DELIVERED"}
  BY <1>1 DEF Reschedulable, Gone, Order
<1>4. \A l \in Lines :
        order'.line[l] = order.line[l]
          \/ /\ order'.line[l] \notin {"SHIPPED", "DELIVERED"}
             /\ order.line[l] \notin {"SHIPPED", "DELIVERED"}
  BY <1>1, <1>2, <1>3 DEF Order, LineFor
<1>5. \A l \in Lines : UnitOf(l)' = UnitOf(l)
  BY <1>4 DEF UnitOf
<1>. QED
  BY <1>2, <1>5 DEF Units

\* Every step that finds the row as it was read is one of the contract's, or none.
LEMMA ContractStep ==
  ASSUME Inv, TypeOK', Next, ~overtaken'
  PROVE  Contract!Next \/ (Units' = Units /\ order'.collected = order.collected)
<1>1. ~overtaken
  BY RowStep
<1>2. CASE restocked' # restocked
  <2>1. PICK r \in Requests, l \in Lines : RestockLine(r, l)
    BY <1>2, ShelfStep
  <2>2. Contract!GiveBack(l)
    BY <1>1, <2>1, GivesBack
  <2>. QED
    BY <2>2 DEF Contract!Next
<1>3. CASE restocked' = restocked
  <2>1. CASE order' = order
    BY <1>3, <2>1 DEF Units, UnitOf
  <2>2. ASSUME NEW next \in OrderStatus, Accepts(order, next),
               order' = Moved(order, order, next)
        PROVE  Contract!Next \/ (Units' = Units /\ order'.collected = order.collected)
    BY <1>1, <1>3, <2>2, MovesUnits DEF Contract!Next
  <2>3. ASSUME NEW ask \in Availability, Reschedulable(order, ask.item),
               order' = Rescheduled(order, order, ask)
        PROVE  Units' = Units /\ order'.collected = order.collected
    BY <1>1, <1>3, <2>3, ReschedulesNoUnits
  <2>. QED
    BY <2>1, <2>2, <2>3, RowStep
<1>. QED
  BY <1>2, <1>3

\* The rows of one request at a time are never overtaken.
OneAtATime == \A r, q \in Requests : r = q

SnapsAreCurrent ==
  /\ ~overtaken
  /\ \A r \in Requests : job[r].phase \in {"history", "commit"} => job[r].snap = order

LEMMA SnapsStayCurrent ==
  ASSUME OneAtATime, TypeOK, SnapsAreCurrent, [Next]_vars
  PROVE  SnapsAreCurrent'
<1>0. /\ job \in [Requests -> Job] /\ order \in Order /\ ~overtaken
      /\ \A r \in Requests :
           job[r].phase \in {"history", "commit"} => job[r].snap = order
  BY DEF TypeOK, SnapsAreCurrent
<1>1. ASSUME NEW r \in Requests, NEW next \in OrderStatus, AskMove(r, next)
      PROVE  SnapsAreCurrent'
  BY <1>0, <1>1 DEF AskMove, Working, SnapsAreCurrent
<1>2. ASSUME NEW r \in Requests, AskCancel(r) PROVE SnapsAreCurrent'
  BY <1>0, <1>2 DEF AskCancel, Idle, SnapsAreCurrent
<1>3. ASSUME NEW r \in Requests, NEW l \in Lines, NEW available \in BOOLEAN,
             NEW hold \in BOOLEAN, AskAvailability(r, l, available, hold)
      PROVE  SnapsAreCurrent'
  BY <1>0, <1>3 DEF AskAvailability, Working, SnapsAreCurrent
<1>4. ASSUME NEW r \in Requests, ReadToCancel(r) PROVE SnapsAreCurrent'
  BY <1>0, <1>4 DEF ReadToCancel, Working, Idle, SnapsAreCurrent
<1>5. ASSUME NEW r \in Requests, CommitMove(r) \/ CommitAvailability(r)
      PROVE  SnapsAreCurrent'
  <2>1. job[r].snap = order /\ ~overtaken'
    BY <1>0, <1>5 DEF CommitMove, CommitAvailability
  <2>2. CASE CommitMove(r)
    <3>. DEFINE after == IF job[r].ask.next = "CANCELLED"
                              /\ ToRestock(order'.line) # {}
                         THEN [Idle EXCEPT !.phase = "restock",
                                           !.todo = ToRestock(order'.line)]
                         ELSE Idle
    <3>1. job' = [job EXCEPT ![r] = after]
      BY <2>2 DEF CommitMove
    <3>2. after.phase \in {"idle", "restock"}
      BY DEF Idle
    <3>3. job'[r] = after
      BY <1>0, <3>1
    <3>. QED
      BY <2>1, <3>2, <3>3 DEF SnapsAreCurrent, OneAtATime
  <2>3. CASE CommitAvailability(r)
    <3>1. job'[r] = Idle
      BY <1>0, <2>3 DEF CommitAvailability
    <3>. QED
      BY <2>1, <3>1 DEF SnapsAreCurrent, OneAtATime, Idle
  <2>. QED
    BY <1>5, <2>2, <2>3
<1>6. ASSUME NEW r \in Requests, ReadHistory(r) PROVE SnapsAreCurrent'
  <2>1. /\ job[r].snap = order /\ order' = order /\ overtaken' = overtaken
        /\ job' = [job EXCEPT ![r].phase = "commit",
                              ![r].snap.lifecycle = order.lifecycle]
    BY <1>0, <1>6 DEF ReadHistory
  <2>2. job'[r].snap = [order EXCEPT !.lifecycle = order.lifecycle]
    BY <1>0, <2>1 DEF Job
  <2>3. [order EXCEPT !.lifecycle = order.lifecycle] = order
    BY <1>0 DEF Order
  <2>. QED
    BY <1>0, <2>1, <2>2, <2>3 DEF SnapsAreCurrent, OneAtATime
<1>7. ASSUME NEW r \in Requests, NEW l \in Lines,
             RestockLine(r, l) \/ RestockThrows(r, l)
      PROVE  SnapsAreCurrent'
  <2>1. UNCHANGED <<order, overtaken>>
    BY <1>7 DEF RestockLine, RestockThrows
  <2>2. job'[r] \in {Idle, AfterRestock(job[r].todo \ {l})}
    BY <1>0, <1>7 DEF RestockLine, RestockThrows
  <2>3. \A todo : AfterRestock(todo).phase \in {"idle", "restock"}
    BY DEF AfterRestock, Idle
  <2>4. job'[r].phase \in {"idle", "restock"}
    BY <2>2, <2>3 DEF Idle
  <2>. QED
    BY <1>0, <2>1, <2>4 DEF SnapsAreCurrent, OneAtATime
<1>8. CASE Crash
  BY <1>0, <1>8 DEF Crash, Idle, SnapsAreCurrent
<1>9. CASE UNCHANGED vars
  BY <1>9 DEF vars, SnapsAreCurrent
<1>. QED
  BY <1>1, <1>2, <1>3, <1>4, <1>5, <1>6, <1>7, <1>8, <1>9
  DEF Next, Ask, Handler

\* Whatever requests are in flight, as long as each commit finds the row as it
\* was read, the order keeps its contract step by step: units leave, land or go
\* back, and cash is taken, only as promised.
THEOREM StepsKeepContract ==
  Spec => Contract!Init
            /\ [][~overtaken' => Contract!Next]_<<Units, order.collected>>
<1>1. Inv /\ TypeOK' /\ [Next]_vars
        => [~overtaken' => Contract!Next]_<<Units, order.collected>>
  <2>. SUFFICES ASSUME Inv, TypeOK', [Next]_vars, ~overtaken'
                PROVE  Contract!Next
                         \/ UNCHANGED <<Units, order.collected>>
    OBVIOUS
  <2>1. CASE Next
    BY <2>1, ContractStep
  <2>2. CASE UNCHANGED vars
    BY <2>2 DEF vars, Units, UnitOf
  <2>. QED
    BY <2>1, <2>2
<1>. QED
  BY <1>1, InitContract, Invariant, TypeCorrect, PTL DEF Spec

\* Served one request at a time, Orders implements OrderContract.
THEOREM ContractIsKept ==
  ASSUME \A r, q \in Requests : r = q
  PROVE  Spec => KeepsContract
<1>1. Init => SnapsAreCurrent
  BY DEF Init, Idle, SnapsAreCurrent
<1>2. TypeOK /\ SnapsAreCurrent /\ [Next]_vars => SnapsAreCurrent'
  BY SnapsStayCurrent DEF OneAtATime
<1>3. Inv /\ TypeOK' /\ SnapsAreCurrent' /\ [Next]_vars
        => [Contract!Next]_<<Units, order.collected>>
  <2>. SUFFICES ASSUME Inv, TypeOK', ~overtaken', [Next]_vars
                PROVE  Contract!Next
                         \/ UNCHANGED <<Units, order.collected>>
    BY DEF SnapsAreCurrent
  <2>1. CASE Next
    BY <2>1, ContractStep
  <2>2. CASE UNCHANGED vars
    BY <2>2 DEF vars, Units, UnitOf
  <2>. QED
    BY <2>1, <2>2
<1>. QED
  BY <1>1, <1>2, <1>3, InitContract, Invariant, TypeCorrect, PTL
  DEF Spec, KeepsContract, Contract!Spec, Units
==============================================================================
