-------------------------------- MODULE Refunds --------------------------------
(***************************************************************************)
(* The refunds recorded against one order (RefundsService), with several   *)
(* requests in flight. A request decides from rows read before its         *)
(* transaction; the transaction writes the refund, reads the order's       *)
(* completed refunds again, its own write included and other open          *)
(* transactions' not, and sets the order's payment status from them.       *)
(***************************************************************************)
EXTENDS OrderFulfilment, Sequences, FiniteSets, Functions

CONSTANTS
  Total,       \* order.totalAmount
  Amounts,     \* the amounts an admin may enter
  NamesDate,   \* whether a request may name the date the money went
  Requests,    \* the requests that can be in flight at the same time
  Statuses,    \* bound: the statuses the order is followed through
  MaxRefunds   \* bound: refunds recorded

ASSUME TotalAssumption == Total \in Nat
ASSUME AmountsAssumption == Amounts \subseteq Nat \ {0}
ASSUME NamesDateAssumption == NamesDate \subseteq BOOLEAN
ASSUME StatusesAssumption == Statuses \subseteq OrderStatus
ASSUME MaxRefundsAssumption == MaxRefunds \in Nat

VARIABLES
  status,   \* order.status
  pay,      \* order.paymentStatus
  refunds,  \* the refund rows in the order they were created
  req,      \* what each request is doing
  raced,    \* history: some commit found other refunds than its request read
  revived   \* history: a failed refund was taken up again, its amount unasked

vars == <<status, pay, refunds, req, raced, revived>>

REFUNDABLE_STATUSES == {"DELIVERED", "RETURNED", "REFUNDED", "CANCELLED"}

RefundStatus == {"PENDING", "COMPLETED", "FAILED"}

COMMITTED_REFUND == {"PENDING", "COMPLETED"}

\* `dated' stands for refundedOn not being null.
Refund == [amount : Amounts, status : RefundStatus, dated : BOOLEAN]

\* A field an edit leaves out.
NoAmount == 0
Same == "as it is"

Edit == [amount : Amounts \cup {NoAmount}, status : RefundStatus \cup {Same},
         dated : NamesDate]

Idle == [phase |-> "idle"]

\* The id of a refund still to be created.
New == 0

\* `stale' is history: the refunds have changed since the request read them.
Request ==
  {Idle}
    \cup [phase : {"checking", "writing"}, id : Nat,
          row : Refund, lifts : BOOLEAN, stale : BOOLEAN]
    \cup [phase : {"closing"}, id : Nat, row : Refund,
          lifts : BOOLEAN, stale : BOOLEAN, pay : PaymentStatus \cup {Same}]

Become(r, what) == req' = [req EXCEPT ![r] = what]

-----------------------------------------------------------------------------

AmountOf(rows, ids) ==
  SumFunctionOnSet([i \in DOMAIN rows |-> rows[i].amount], ids)

Committed(rows) == {i \in DOMAIN rows : rows[i].status \in COMMITTED_REFUND}

Completed(rows) == {i \in DOMAIN rows : rows[i].status = "COMPLETED"}

\* Mistake: only money that was sent counts, not money agreed.
withinCompleted(rows, others, amount) ==
  amount <= Total - AmountOf(rows, others \cap Completed(rows))

\* The ceiling, counting the refunds of `others'.
assertWithinOrderTotal(rows, others, amount) ==
  amount <= Total - AmountOf(rows, others)

\* Mistakes: a refund undone forgets that the order was paid; a completed
\* partial refund read as the whole.
syncForgetting(rows, current) ==
  LET refunded == AmountOf(rows, Completed(rows))
  IN  IF refunded <= 0 THEN "PENDING"
      ELSE IF refunded >= Total THEN "REFUNDED"
      ELSE "PARTIALLY_REFUNDED"

syncAllCommitted(rows, current) ==
  LET refunded == AmountOf(rows, Committed(rows))
  IN  IF refunded <= 0
      THEN IF current \in {"REFUNDED", "PARTIALLY_REFUNDED"} THEN "PAID"
           ELSE current
      ELSE IF refunded >= Total THEN "REFUNDED"
      ELSE "PARTIALLY_REFUNDED"

\* The payment status that follows from the completed refunds.
syncOrderPaymentStatus(rows, current) ==
  LET refunded == AmountOf(rows, Completed(rows))
  IN  IF refunded <= 0
      THEN IF current \in {"REFUNDED", "PARTIALLY_REFUNDED"} THEN "PAID"
           ELSE current
      ELSE IF refunded >= Total THEN "REFUNDED"
      ELSE "PARTIALLY_REFUNDED"

\* Mistakes: a field left out of the request written all the same; the date
\* only ever taken from the request.
editedBlank(existing, edit) ==
  LET next == IF edit.status = Same THEN existing.status ELSE edit.status
  IN  [amount |-> edit.amount,
       status |-> next,
       dated  |-> edit.dated \/ existing.dated \/ next = "COMPLETED"]

editedUndated(existing, edit) ==
  [amount |-> IF edit.amount = NoAmount THEN existing.amount ELSE edit.amount,
   status |-> IF edit.status = Same THEN existing.status ELSE edit.status,
   dated  |-> edit.dated \/ existing.dated]

\* The row an edit writes: every field, those not edited as they were read.
edited(existing, edit) ==
  LET next == IF edit.status = Same THEN existing.status ELSE edit.status
  IN  [amount |-> IF edit.amount = NoAmount THEN existing.amount ELSE edit.amount,
       status |-> next,
       dated  |-> edit.dated \/ existing.dated \/ next = "COMPLETED"]

\* The rows with a request's own write over them, or after them.
With(rows, id, row) == IF id = New THEN Append(rows, row)
                       ELSE [rows EXCEPT ![id] = row]

\* The refund a request's open transaction has locked.
Locks(r) == IF req[r].phase = "closing" THEN req[r].id ELSE New

\* An edit that takes up a failed refund without naming its amount.
Lifts(existing, edit) ==
  existing.status = "FAILED" /\ edit.status \in COMMITTED_REFUND
    /\ edit.amount = NoAmount

-----------------------------------------------------------------------------

\* An order at any point of its life; cash was collected where it was delivered,
\* unless it was paid for in another way.
Init ==
  /\ status \in Statuses
  /\ pay \in IF status \in {"DELIVERED", "RETURNED", "REFUNDED"}
             THEN {"PAID", "PENDING"} ELSE {"PENDING"}
  /\ refunds = <<>>
  /\ req = [r \in Requests |-> Idle]
  /\ raced = FALSE
  /\ revived = FALSE

\* A status change of the order (Orders has the whole of it).
Progress(next) ==
  /\ next \in AllowedTransitions[status]
  /\ status' = next
  /\ pay' \in IF next = "DELIVERED" THEN {"PAID", pay} ELSE {pay}
  /\ UNCHANGED <<refunds, req, raced, revived>>

Working(phase, id, row, lifts) ==
  [phase |-> phase, id |-> id, row |-> row, lifts |-> lifts, stale |-> FALSE]

Creating == {r \in Requests : req[r].phase # "idle" /\ req[r].id = New}

\* create: the order is read with its committed refunds, and the amount checked
\* against them. A refused request changes nothing.
AskCreate(r, amount, state, dated) ==
  /\ req[r].phase = "idle"
  /\ Len(refunds) + Cardinality(Creating) < MaxRefunds
  /\ status \in REFUNDABLE_STATUSES
  /\ assertWithinOrderTotal(refunds, Committed(refunds), amount)
  /\ Become(r, Working("writing", New,
                       [amount |-> amount, status |-> state,
                        dated |-> dated \/ state = "COMPLETED"], FALSE))
  /\ UNCHANGED <<status, pay, refunds, raced, revived>>

\* update: the refund is read. Only an amount in the request leads to a check.
AskUpdate(r, id, edit) ==
  /\ req[r].phase = "idle"
  /\ id \in DOMAIN refunds
  /\ Become(r, Working(IF edit.amount = NoAmount THEN "writing" ELSE "checking",
                       id, edited(refunds[id], edit), Lifts(refunds[id], edit)))
  /\ UNCHANGED <<status, pay, refunds, raced, revived>>

\* The check: a second read, of the order and its other committed refunds.
CheckAmount(r) ==
  /\ req[r].phase = "checking"
  /\ LET others == Committed(refunds) \ {req[r].id}
     IN  Become(r, IF assertWithinOrderTotal(refunds, others, req[r].row.amount)
                   THEN [req[r] EXCEPT !.phase = "writing"]
                   ELSE Idle)
  /\ UNCHANGED <<status, pay, refunds, raced, revived>>

\* The transaction writes the refund, waiting for the row's lock, and reads the
\* order back with its completed refunds. Its write is seen by itself alone
\* until the commit, so the two statements are one step.
WriteRefund(r) ==
  LET rows == With(refunds, req[r].id, req[r].row)
      owed == syncOrderPaymentStatus(rows, pay)
  IN  /\ req[r].phase = "writing"
      /\ req[r].id = New \/ \A q \in Requests : Locks(q) # req[r].id
      /\ Become(r, [phase |-> "closing", id |-> req[r].id, row |-> req[r].row,
                    lifts |-> req[r].lifts, stale |-> req[r].stale,
                    pay |-> IF owed = pay THEN Same ELSE owed])
      /\ UNCHANGED <<status, pay, refunds, raced, revived>>

\* The order is updated and everything commits. An order whose status was right
\* when it was read is not written.
\* (What history has noted once, no request need note again.)
Commit(r) ==
  /\ req[r].phase = "closing"
  /\ refunds' = With(refunds, req[r].id, req[r].row)
  /\ pay' = IF req[r].pay = Same THEN pay ELSE req[r].pay
  /\ raced' = (raced \/ req[r].stale)
  /\ revived' = (revived \/ req[r].lifts)
  /\ req' = [q \in Requests |->
               IF q = r \/ req[q].phase = "idle" THEN Idle
               ELSE [req[q] EXCEPT
                       !.stale = ~raced' /\ (@ \/ refunds' # refunds),
                       !.lifts = ~revived' /\ @]]
  /\ UNCHANGED status

\* The process dies: open transactions roll back.
Crash ==
  /\ \E r \in Requests : req[r].phase # "idle"
  /\ req' = [r \in Requests |-> Idle]
  /\ UNCHANGED <<status, pay, refunds, raced, revived>>

-----------------------------------------------------------------------------

Handler(r) == CheckAmount(r) \/ WriteRefund(r) \/ Commit(r)

Ask(r) ==
  \/ \E amount \in Amounts, state \in RefundStatus, dated \in NamesDate :
       AskCreate(r, amount, state, dated)
  \/ \E id \in DOMAIN refunds, edit \in Edit : AskUpdate(r, id, edit)

Next ==
  \/ \E r \in Requests : Ask(r) \/ Handler(r)
  \/ \E next \in Statuses : Progress(next)
  \/ Crash

Spec == Init /\ [][Next]_vars

-----------------------------------------------------------------------------
(* Properties. *)

TypeOK ==
  /\ status \in OrderStatus
  /\ pay \in PaymentStatus
  /\ refunds \in Seq(Refund)
  /\ req \in [Requests -> Request]
  /\ raced \in BOOLEAN
  /\ revived \in BOOLEAN

\* "Total refunds on an order can never exceed the order total."
RefundsWithinTotal == AmountOf(refunds, Committed(refunds)) <= Total

\* The ceiling as far as the code holds it: between requests that do not
\* overlap, as long as no failed refund is taken up again without its amount
\* being asked for.
CeilingHolds == ~raced /\ ~revived => RefundsWithinTotal

\* The order's payment status says what its completed refunds come to, whatever
\* was completed, failed, raised or undone before.
PayFollowsRefunds ==
  LET sent == AmountOf(refunds, Completed(refunds))
  IN  ~raced =>
        /\ sent = 0 => pay \notin {"REFUNDED", "PARTIALLY_REFUNDED"}
        /\ sent > 0 => pay = IF sent >= Total THEN "REFUNDED"
                             ELSE "PARTIALLY_REFUNDED"

\* "A completed refund always carries the date the money went", in every
\* interleaving: an edit writes status and date from the same reading.
CompletedIsDated ==
  \A i \in DOMAIN refunds : refunds[i].status = "COMPLETED" => refunds[i].dated

Settled == {"PAID", "PARTIALLY_REFUNDED", "REFUNDED"}

\* An order that was paid is paid or refunded for good, in every interleaving:
\* undoing its refunds, in whatever order, brings it back to PAID, no further.
PaidStaysSettled == [][(pay \in Settled) => (pay' \in Settled)]_vars
==============================================================================
