--------------------------- MODULE OrderFulfilment ---------------------------
(***************************************************************************)
(* How an order's status follows from its lines: the pure functions of     *)
(* order-fulfilment.ts and the transition tables of orders.service.ts.     *)
(* A bundle of lines is a function from line to line status.               *)
(***************************************************************************)
EXTENDS Integers

OrderStatus ==
  {"PLACED", "CONFIRMED", "PROCESSING", "AWAITING_STOCK", "PACKED", "SHIPPED",
   "PARTIALLY_SHIPPED", "OUT_FOR_DELIVERY", "DELIVERED", "CANCELLED",
   "RETURNED", "REFUNDED"}

LineStatus == {"PENDING", "AWAITING_STOCK", "SHIPPED", "DELIVERED"}

PaymentStatus ==
  {"PENDING", "PARTIALLY_PAID", "PAID", "PARTIALLY_REFUNDED", "REFUNDED"}

\* The statuses from PACKED on: those that imply the goods are in hand.
PackedOnwards == {"PACKED", "SHIPPED", "OUT_FOR_DELIVERY", "DELIVERED"}

Frozen == {"CANCELLED", "RETURNED", "REFUNDED"}

FulfilmentDerived == {"AWAITING_STOCK", "PARTIALLY_SHIPPED"}

AllowedTransitions ==
  [ PLACED            |-> {"CONFIRMED", "CANCELLED"},
    CONFIRMED         |-> {"PROCESSING", "CANCELLED"},
    PROCESSING        |-> {"PACKED", "CANCELLED"},
    AWAITING_STOCK    |-> {"PACKED", "CANCELLED"},
    PACKED            |-> {"SHIPPED", "CANCELLED"},
    SHIPPED           |-> {"OUT_FOR_DELIVERY"},
    PARTIALLY_SHIPPED |-> {"SHIPPED", "OUT_FOR_DELIVERY", "DELIVERED"},
    OUT_FOR_DELIVERY  |-> {"DELIVERED", "PARTIALLY_SHIPPED"},
    DELIVERED         |-> {"RETURNED"},
    CANCELLED         |-> {},
    RETURNED          |-> {"REFUNDED"},
    REFUNDED          |-> {} ]

CustomerCancellable == {"PLACED", "CONFIRMED", "PROCESSING"}

Awaiting(line) == {l \in DOMAIN line : line[l] = "AWAITING_STOCK"}

Gone(line) == {l \in DOMAIN line : line[l] \in {"SHIPPED", "DELIVERED"}}

linesShippingNow(line) == {l \in DOMAIN line : line[l] = "PENDING"}

linesDeliveringNow(line) == {l \in DOMAIN line : line[l] = "SHIPPED"}

blocksAdvanceTo(next) == next \in PackedOnwards

-----------------------------------------------------------------------------
(* Mistakes the functions below could have been written with. *)

\* The AWAITING_STOCK branch asked before the PARTIALLY_SHIPPED one, which the
\* comment in the code warns against.
deriveHoldFirst(intended, line, holdForStock) ==
  CASE intended \in Frozen -> intended
    [] intended \notin Frozen /\ Awaiting(line) # {}
         /\ (holdForStock \/ Awaiting(line) = DOMAIN line) -> "AWAITING_STOCK"
    [] intended \notin Frozen /\ ~(Awaiting(line) # {}
         /\ (holdForStock \/ Awaiting(line) = DOMAIN line))
         /\ Gone(line) # {} /\ Gone(line) # DOMAIN line -> "PARTIALLY_SHIPPED"
    [] OTHER -> intended

\* A tolerance applied on the wrong side: one unit short already reads PAID.
derivePaymentStatusEarly(collected, total) ==
  CASE collected <= 0 -> "PENDING"
    [] collected > 0 /\ collected + 1 >= total -> "PAID"
    [] OTHER -> "PARTIALLY_PAID"

\* The delivery charge asked for again with every parcel.
collectionAmountEveryTime(lineTotals, orderLevelCharges, isFirstCollection) ==
  lineTotals + orderLevelCharges

-----------------------------------------------------------------------------

(***************************************************************************)
(* The order status implied by the lines. `intended' is where the order    *)
(* would be if fulfilment were not a concern.                              *)
(***************************************************************************)
deriveOrderStatus(intended, line, holdForStock) ==
  LET linesAgree == /\ Awaiting(line) = {}
                    /\ Gone(line) \in {{}, DOMAIN line}
  IN  IF intended \in Frozen \/ linesAgree THEN intended
      ELSE IF Gone(line) \notin {{}, DOMAIN line} THEN "PARTIALLY_SHIPPED"
      ELSE IF Awaiting(line) = DOMAIN line \/ holdForStock THEN "AWAITING_STOCK"
      ELSE intended

\* `lineTotals' is the value of the lines landing now.
collectionAmount(lineTotals, orderLevelCharges, isFirstCollection) ==
  IF isFirstCollection THEN lineTotals + orderLevelCharges ELSE lineTotals

\* Amounts are whole paise here, so the half-paisa tolerance of the code
\* disappears.
derivePaymentStatus(collected, total) ==
  IF collected <= 0 THEN "PENDING"
  ELSE IF collected >= total THEN "PAID"
  ELSE "PARTIALLY_PAID"
==============================================================================
