----------------------------- MODULE RefundsProofs -----------------------------
(***************************************************************************)
(* Proofs about Refunds, for every order total, every set of amounts and   *)
(* every number of requests in flight. What is proved holds in every       *)
(* interleaving: it rests on what a request carries from its own reading   *)
(* to its own commit, and on nothing another request could change between. *)
(***************************************************************************)
EXTENDS Refunds, SumTheorems, SequenceTheorems

Dated(row) == row.status = "COMPLETED" => row.dated

\* A row about to be written is dated like one that is, and a payment status
\* about to be written is one of an order that was paid.
CarriesInv ==
  \A r \in Requests :
    /\ req[r].phase # "idle" => Dated(req[r].row)
    /\ req[r].phase = "closing" => req[r].pay \in Settled \cup {Same}

Inv == TypeOK /\ CompletedIsDated /\ CarriesInv

-----------------------------------------------------------------------------

\* The row an edit writes is a refund, and dated if it is completed.
LEMMA EditedRow ==
  ASSUME NEW existing \in Refund, NEW edit \in Edit
  PROVE  edited(existing, edit) \in Refund /\ Dated(edited(existing, edit))
<1>1. /\ existing.amount \in Amounts /\ existing.status \in RefundStatus
      /\ existing.dated \in BOOLEAN
  BY DEF Refund
<1>2. /\ edit.amount \in Amounts \cup {NoAmount}
      /\ edit.status \in RefundStatus \cup {Same}
      /\ edit.dated \in BOOLEAN
  BY NamesDateAssumption DEF Edit
<1>3. Same \notin RefundStatus
  BY DEF Same, RefundStatus
<1>. QED
  BY <1>1, <1>2, <1>3 DEF edited, Refund, Dated

\* What syncOrderPaymentStatus answers, if it is not the status there was.
LEMMA SyncSettles ==
  ASSUME NEW rows, NEW current
  PROVE  syncOrderPaymentStatus(rows, current) \in Settled \cup {current}
BY DEF syncOrderPaymentStatus, Settled

\* A committed write leaves the rows well typed and dated.
LEMMA WithRows ==
  ASSUME NEW rows \in Seq(Refund), NEW id \in Nat, NEW row \in Refund,
         \A i \in DOMAIN rows : Dated(rows[i]), Dated(row)
  PROVE  /\ With(rows, id, row) \in Seq(Refund)
         /\ \A i \in DOMAIN With(rows, id, row) : Dated(With(rows, id, row)[i])
<1>1. CASE id = New
  <2>1. With(rows, id, row) = Append(rows, row)
    BY <1>1 DEF With
  <2>2. /\ Append(rows, row) \in Seq(Refund)
        /\ DOMAIN Append(rows, row) = 1 .. Len(rows) + 1
        /\ \A i \in 1 .. Len(rows) : Append(rows, row)[i] = rows[i]
        /\ Append(rows, row)[Len(rows) + 1] = row
        /\ DOMAIN rows = 1 .. Len(rows) /\ Len(rows) \in Nat
    OBVIOUS
  <2>. QED
    BY <2>1, <2>2
<1>2. CASE id # New
  <2>1. With(rows, id, row) = [rows EXCEPT ![id] = row]
    BY <1>2 DEF With
  <2>2. [rows EXCEPT ![id] = row] \in Seq(Refund)
    <3>1. rows \in [1 .. Len(rows) -> Refund] /\ Len(rows) \in Nat
      OBVIOUS
    <3>2. [rows EXCEPT ![id] = row] \in [1 .. Len(rows) -> Refund]
      BY <3>1
    <3>. QED
      BY <3>1, <3>2, SeqDef
  <2>3. \A i \in DOMAIN rows :
          [rows EXCEPT ![id] = row][i] = IF i = id THEN row ELSE rows[i]
    OBVIOUS
  <2>4. DOMAIN [rows EXCEPT ![id] = row] = DOMAIN rows
    OBVIOUS
  <2>. QED
    BY <2>1, <2>2, <2>3, <2>4
<1>. QED
  BY <1>1, <1>2

-----------------------------------------------------------------------------

\* Nothing was refunded yet.
LEMMA InitInv == Init => Inv
<1>. SUFFICES ASSUME Init PROVE Inv
  OBVIOUS
<1>1. refunds = <<>> /\ refunds \in Seq(Refund) /\ DOMAIN refunds = {}
  BY DEF Init
<1>2. \A r \in Requests : req[r] = Idle
  BY DEF Init
<1>3. Idle \in Request /\ Idle.phase = "idle"
  BY DEF Idle, Request
<1>4. status \in OrderStatus /\ pay \in PaymentStatus
  BY StatusesAssumption DEF Init, PaymentStatus
<1>5. req \in [Requests -> Request]
  BY <1>3, Zenon DEF Init
<1>6. raced \in BOOLEAN /\ revived \in BOOLEAN
  BY Zenon DEF Init
<1>7. CarriesInv
  BY <1>2, <1>3 DEF CarriesInv
<1>. QED
  BY <1>1, <1>4, <1>5, <1>6, <1>7 DEF Inv, TypeOK, CompletedIsDated

\* A step that writes nothing keeps the invariant if what it notes of one
\* request is well typed and dated.
LEMMA NotedInv ==
  ASSUME Inv, UNCHANGED <<status, pay, refunds, raced, revived>>,
         NEW r \in Requests, NEW what \in Request, Become(r, what),
         what.phase # "idle" => Dated(what.row),
         what.phase = "closing" => what.pay \in Settled \cup {Same}
  PROVE  Inv'
<1>1. req' \in [Requests -> Request]
  BY DEF Inv, TypeOK, Become
<1>2. \A q \in Requests : req'[q] = IF q = r THEN what ELSE req[q]
  BY DEF Inv, TypeOK, Become
<1>3. CarriesInv'
  BY <1>2 DEF Inv, CarriesInv
<1>. QED
  BY <1>1, <1>3 DEF Inv, TypeOK, CompletedIsDated

\* Every step keeps the invariant.
LEMMA StepInv == Inv /\ [Next]_vars => Inv'
<1>. SUFFICES ASSUME Inv, [Next]_vars PROVE Inv'
  OBVIOUS
<1>0. /\ status \in OrderStatus /\ pay \in PaymentStatus
      /\ refunds \in Seq(Refund) /\ req \in [Requests -> Request]
      /\ raced \in BOOLEAN /\ revived \in BOOLEAN
      /\ CompletedIsDated /\ CarriesInv
  BY DEF Inv, TypeOK
<1>i. Idle \in Request /\ Idle.phase = "idle"
  BY DEF Idle, Request
<1>1. ASSUME NEW r \in Requests, NEW amount \in Amounts,
             NEW state \in RefundStatus, NEW dated \in NamesDate,
             AskCreate(r, amount, state, dated)
      PROVE  Inv'
  <2>. DEFINE row == [amount |-> amount, status |-> state,
                      dated |-> dated \/ state = "COMPLETED"]
              what == Working("writing", New, row, FALSE)
  <2>1. row \in Refund /\ Dated(row)
    BY DEF Refund, Dated
  <2>2. what \in Request /\ what.phase = "writing" /\ what.row = row
    <3>. HIDE DEF row
    <3>. QED
      BY <2>1 DEF Working, Request, New
  <2>3. Become(r, what) /\ UNCHANGED <<status, pay, refunds, raced, revived>>
    BY <1>1 DEF AskCreate
  <2>. HIDE DEF what, row
  <2>. QED
    BY <2>1, <2>2, <2>3, NotedInv
<1>2. ASSUME NEW r \in Requests, NEW id \in DOMAIN refunds, NEW edit \in Edit,
             AskUpdate(r, id, edit)
      PROVE  Inv'
  <2>. DEFINE row == edited(refunds[id], edit)
              phase == IF edit.amount = NoAmount THEN "writing" ELSE "checking"
              what == Working(phase, id, row, Lifts(refunds[id], edit))
  <2>1. refunds[id] \in Refund /\ id \in Nat
    BY <1>0
  <2>2. row \in Refund /\ Dated(row)
    BY <2>1, EditedRow
  <2>3. Lifts(refunds[id], edit) \in BOOLEAN
    BY DEF Lifts
  <2>4. what \in Request /\ what.phase \in {"writing", "checking"}
        /\ what.row = row
    <3>. HIDE DEF row
    <3>. QED
      BY <2>1, <2>2, <2>3 DEF Working, Request
  <2>5. Become(r, what) /\ UNCHANGED <<status, pay, refunds, raced, revived>>
    BY <1>2 DEF AskUpdate
  <2>. HIDE DEF what, row
  <2>. QED
    BY <2>2, <2>4, <2>5, NotedInv
<1>3. ASSUME NEW r \in Requests, CheckAmount(r) PROVE Inv'
  <2>. DEFINE on == [req[r] EXCEPT !.phase = "writing"]
  <2>1. req[r] \in Request /\ req[r].phase = "checking" /\ Dated(req[r].row)
    BY <1>0, <1>3 DEF CheckAmount, CarriesInv
  <2>2. on \in Request /\ on.phase = "writing" /\ on.row = req[r].row
    BY <2>1 DEF Request, Idle
  <2>3. \E what \in {on, Idle} :
          Become(r, what) /\ UNCHANGED <<status, pay, refunds, raced, revived>>
    BY <1>3 DEF CheckAmount
  <2>. HIDE DEF on
  <2>. QED
    BY <1>i, <2>1, <2>2, <2>3, NotedInv
<1>4. ASSUME NEW r \in Requests, WriteRefund(r) PROVE Inv'
  <2>. DEFINE rows == With(refunds, req[r].id, req[r].row)
              owed == syncOrderPaymentStatus(rows, pay)
              new == IF owed = pay THEN Same ELSE owed
              what == [phase |-> "closing", id |-> req[r].id,
                       row |-> req[r].row, lifts |-> req[r].lifts,
                       stale |-> req[r].stale, pay |-> new]
  <2>1. req[r] \in Request /\ req[r].phase = "writing" /\ Dated(req[r].row)
    BY <1>0, <1>4 DEF WriteRefund, CarriesInv
  <2>2. new \in Settled \cup {Same}
    BY SyncSettles
  <2>3. what \in Request /\ what.phase = "closing" /\ what.row = req[r].row
        /\ what.pay = new
    <3>. HIDE DEF new
    <3>. QED
      BY <2>1, <2>2 DEF Request, Idle, Settled, PaymentStatus
  <2>4. Become(r, what) /\ UNCHANGED <<status, pay, refunds, raced, revived>>
    BY <1>4 DEF WriteRefund
  <2>. HIDE DEF what, new
  <2>. QED
    BY <2>1, <2>2, <2>3, <2>4, NotedInv
<1>5. ASSUME NEW r \in Requests, Commit(r) PROVE Inv'
  <2>1. req[r] \in Request /\ req[r].phase = "closing" /\ Dated(req[r].row)
        /\ req[r].pay \in Settled \cup {Same}
    BY <1>0, <1>5 DEF Commit, CarriesInv
  <2>2. /\ req[r].id \in Nat /\ req[r].row \in Refund
        /\ req[r].stale \in BOOLEAN /\ req[r].lifts \in BOOLEAN
    BY <2>1 DEF Request, Idle
  <2>3. refunds' \in Seq(Refund) /\ CompletedIsDated'
    BY <1>0, <1>5, <2>1, <2>2, WithRows DEF Commit, CompletedIsDated, Dated
  <2>4. pay' \in PaymentStatus
    BY <1>0, <1>5, <2>1 DEF Commit, Settled, PaymentStatus
  <2>5. /\ raced' \in BOOLEAN /\ revived' \in BOOLEAN /\ status' \in OrderStatus
    BY <1>0, <1>5, <2>2 DEF Commit
  <2>6. \A q \in Requests :
          /\ req'[q] \in Request
          /\ req'[q].phase # "idle" =>
               /\ req'[q].phase = req[q].phase /\ req'[q].row = req[q].row
               /\ req[q].phase = "closing" => req'[q].pay = req[q].pay
    <3>. SUFFICES ASSUME NEW q \in Requests
                  PROVE  /\ req'[q] \in Request
                         /\ req'[q].phase # "idle" =>
                              /\ req'[q].phase = req[q].phase
                              /\ req'[q].row = req[q].row
                              /\ req[q].phase = "closing" =>
                                   req'[q].pay = req[q].pay
      OBVIOUS
    <3>1. req[q] \in Request
      BY <1>0
    <3>2. CASE q = r \/ req[q].phase = "idle"
      BY <1>5, <1>i, <3>2 DEF Commit
    <3>3. CASE ~(q = r \/ req[q].phase = "idle")
      <4>. DEFINE stale == (~raced' /\ (req[q].stale \/ refunds' # refunds))
                  lifts == (~revived' /\ req[q].lifts)
      <4>1. req'[q] = [req[q] EXCEPT !.stale = stale, !.lifts = lifts]
        BY <1>5, <3>3 DEF Commit
      <4>2. stale \in BOOLEAN /\ lifts \in BOOLEAN
        OBVIOUS
      <4>. HIDE DEF stale, lifts
      <4>. QED
        BY <3>1, <3>3, <4>1, <4>2 DEF Request, Idle
    <3>. QED
      BY <3>2, <3>3
  <2>7. req' \in [Requests -> Request]
    BY <1>5, <2>6 DEF Commit
  <2>8. CarriesInv'
    BY <1>0, <2>6 DEF CarriesInv
  <2>. QED
    BY <2>3, <2>4, <2>5, <2>7, <2>8 DEF Inv, TypeOK
<1>6. ASSUME NEW next \in Statuses, Progress(next) PROVE Inv'
  <2>1. status' \in OrderStatus /\ pay' \in PaymentStatus
    BY <1>0, <1>6, StatusesAssumption DEF Progress, PaymentStatus
  <2>2. UNCHANGED <<refunds, req, raced, revived>>
    BY <1>6 DEF Progress
  <2>. QED
    BY <1>0, <2>1, <2>2 DEF Inv, TypeOK, CompletedIsDated, CarriesInv
<1>7. CASE Crash
  <2>1. /\ UNCHANGED <<status, pay, refunds, raced, revived>>
        /\ req' = [r \in Requests |-> Idle]
    BY <1>7 DEF Crash
  <2>2. CarriesInv'
    BY <1>i, <2>1 DEF CarriesInv
  <2>. QED
    BY <1>0, <1>i, <2>1, <2>2 DEF Inv, TypeOK, CompletedIsDated
<1>8. CASE UNCHANGED vars
  BY <1>0, <1>8 DEF vars, Inv, TypeOK, CompletedIsDated, CarriesInv
<1>. QED
  BY <1>1, <1>2, <1>3, <1>4, <1>5, <1>6, <1>7, <1>8 DEF Next, Ask, Handler

\* The inductive invariant holds in every reachable state.
THEOREM Invariant == Spec => []Inv
BY InitInv, StepInv, PTL DEF Spec

\* Every reachable state is well typed, in every interleaving.
THEOREM TypeCorrect == Spec => []TypeOK
<1>1. Inv => TypeOK
  BY DEF Inv
<1>. QED
  BY <1>1, Invariant, PTL

\* A completed refund always carries the date the money went, however many
\* requests edit it at once.
THEOREM DateIsKept == Spec => []CompletedIsDated
<1>1. Inv => CompletedIsDated
  BY DEF Inv
<1>. QED
  BY <1>1, Invariant, PTL

\* An order that was paid never reads unpaid again, in any interleaving.
THEOREM PaidIsSettled == Spec => PaidStaysSettled
<1>1. Inv /\ [Next]_vars => [(pay \in Settled) => (pay' \in Settled)]_vars
  <2>. SUFFICES ASSUME Inv, Next, pay \in Settled PROVE pay' \in Settled
    OBVIOUS
  <2>1. ASSUME NEW r \in Requests, Commit(r) PROVE pay' \in Settled
    BY <2>1 DEF Inv, CarriesInv, Commit
  <2>2. ASSUME NEW next \in Statuses, Progress(next) PROVE pay' \in Settled
    BY <2>2 DEF Progress, Settled
  <2>3. \/ \E r \in Requests : Commit(r)
        \/ \E next \in Statuses : Progress(next)
        \/ UNCHANGED pay
    BY DEF Next, Ask, Handler, AskCreate, AskUpdate, CheckAmount, WriteRefund,
           Crash
  <2>. QED
    BY <2>1, <2>2, <2>3
<1>. QED
  BY <1>1, Invariant, PTL DEF Spec, PaidStaysSettled

-----------------------------------------------------------------------------
(***************************************************************************)
(* The ceiling and the payment status, which hold between requests that do *)
(* not overlap: what a request that nothing overtook has decided is right  *)
(* for the rows as they are.                                               *)
(***************************************************************************)

\* The place a request's row takes.
At(rows, id) == IF id = New THEN Len(rows) + 1 ELSE id

\* What a row counts towards the ceiling.
Worth(row) == IF row.status \in COMMITTED_REFUND THEN row.amount ELSE 0

Held(rows) == AmountOf(rows, Committed(rows))

Sent(rows) == AmountOf(rows, Completed(rows))

PayIs(rows, p) ==
  /\ Sent(rows) = 0 => p \notin {"REFUNDED", "PARTIALLY_REFUNDED"}
  /\ Sent(rows) > 0 => p = IF Sent(rows) >= Total THEN "REFUNDED"
                           ELSE "PARTIALLY_REFUNDED"

\* There is nothing to refund until the order has arrived or was cancelled,
\* and it never arrives again.
OnlyAfterwards ==
  (refunds # <<>> \/ \E r \in Requests : req[r].phase # "idle")
    => status \in REFUNDABLE_STATUSES

IdsExist ==
  \A r \in Requests :
    req[r].phase # "idle" => req[r].id \in {New} \cup DOMAIN refunds

Written(r) == With(refunds, req[r].id, req[r].row)

\* Past its check, the rows a request would leave are within the total.
FitsInv ==
  \A r \in Requests :
    /\ req[r].phase \in {"writing", "closing"}
    /\ ~raced /\ ~revived /\ ~req[r].stale /\ ~req[r].lifts
    => Held(Written(r)) <= Total

\* The payment status it would leave follows from the rows it would leave.
PaysInv ==
  \A r \in Requests :
    req[r].phase = "closing" /\ ~raced /\ ~req[r].stale
    => PayIs(Written(r), IF req[r].pay = Same THEN pay ELSE req[r].pay)

SumsInv ==
  OnlyAfterwards /\ IdsExist /\ CeilingHolds /\ PayFollowsRefunds
    /\ FitsInv /\ PaysInv

-----------------------------------------------------------------------------

\* A committed write leaves the other rows alone.
LEMMA WithShape ==
  ASSUME NEW rows \in Seq(Refund), NEW id \in {New} \cup DOMAIN rows,
         NEW row \in Refund
  PROVE  /\ With(rows, id, row) \in Seq(Refund)
         /\ DOMAIN With(rows, id, row) = DOMAIN rows \cup {At(rows, id)}
         /\ With(rows, id, row)[At(rows, id)] = row
         /\ \A i \in DOMAIN rows \ {At(rows, id)} :
              With(rows, id, row)[i] = rows[i]
<1>1. CASE id = New
  <2>1. With(rows, id, row) = Append(rows, row) /\ At(rows, id) = Len(rows) + 1
    BY <1>1 DEF With, At
  <2>2. /\ Append(rows, row) \in Seq(Refund)
        /\ DOMAIN Append(rows, row) = 1 .. Len(rows) + 1
        /\ \A i \in 1 .. Len(rows) : Append(rows, row)[i] = rows[i]
        /\ Append(rows, row)[Len(rows) + 1] = row
        /\ DOMAIN rows = 1 .. Len(rows) /\ Len(rows) \in Nat
    OBVIOUS
  <2>. QED
    BY <2>1, <2>2
<1>2. CASE id # New
  <2>1. /\ With(rows, id, row) = [rows EXCEPT ![id] = row]
        /\ At(rows, id) = id /\ id \in DOMAIN rows
    BY <1>2 DEF With, At
  <2>2. [rows EXCEPT ![id] = row] \in Seq(Refund)
    <3>1. rows \in [1 .. Len(rows) -> Refund] /\ Len(rows) \in Nat
      OBVIOUS
    <3>2. [rows EXCEPT ![id] = row] \in [1 .. Len(rows) -> Refund]
      BY <3>1
    <3>. QED
      BY <3>1, <3>2, SeqDef
  <2>. QED
    BY <2>1, <2>2
<1>. QED
  BY <1>1, <1>2

\* No refund is ever taken away.
LEMMA WithGrows ==
  ASSUME NEW rows \in Seq(Refund), NEW id \in {New} \cup DOMAIN rows,
         NEW row \in Refund
  PROVE  \A i \in DOMAIN rows : i \in DOMAIN With(rows, id, row)
<1>. DEFINE new == With(rows, id, row)
            at == At(rows, id)
<1>1. /\ new \in Seq(Refund) /\ DOMAIN new = DOMAIN rows \cup {at}
      /\ new[at] = row /\ \A i \in DOMAIN rows \ {at} : new[i] = rows[i]
  BY WithShape
<1>. HIDE DEF new, at
<1>2. \A i \in DOMAIN rows : i \in DOMAIN new
  BY <1>1
<1>. QED
  BY <1>2 DEF new

\* The rows there are can be added up: amounts are positive integers.
LEMMA RowsAddUp ==
  ASSUME NEW rows \in Seq(Refund), NEW ids \in SUBSET DOMAIN rows
  PROVE  /\ IsFiniteSet(ids)
         /\ \A i \in ids : [j \in DOMAIN rows |-> rows[j].amount][i] \in Nat
         /\ AmountOf(rows, ids) \in Nat
<1>1. IsFiniteSet(DOMAIN rows)
  <2>1. DOMAIN rows = 1 .. Len(rows) /\ Len(rows) \in Nat
    OBVIOUS
  <2>. QED
    BY <2>1, FS_Interval
<1>2. IsFiniteSet(ids)
  BY <1>1, FS_Subset
<1>. DEFINE f == [j \in DOMAIN rows |-> rows[j].amount]
<1>3. \A i \in ids : f[i] \in Nat
  <2>. SUFFICES ASSUME NEW i \in ids PROVE f[i] \in Nat
    OBVIOUS
  <2>1. i \in DOMAIN rows /\ rows[i] \in Refund
    OBVIOUS
  <2>2. rows[i].amount \in Nat
    BY <2>1, AmountsAssumption DEF Refund
  <2>. QED
    BY <2>1, <2>2
<1>4. AmountOf(rows, ids) = SumFunctionOnSet(f, ids)
  BY DEF AmountOf
<1>. HIDE DEF f
<1>5. SumFunctionOnSet(f, ids) \in Nat
  BY <1>2, <1>3, SumCovers
<1>. QED
  BY <1>2, <1>3, <1>4, <1>5 DEF f

\* Leaving one row out of what is held.
LEMMA HeldWithout ==
  ASSUME NEW rows \in Seq(Refund), NEW i
  PROVE  AmountOf(rows, Committed(rows) \ {i})
           = Held(rows) - (IF i \in Committed(rows) THEN rows[i].amount ELSE 0)
<1>. DEFINE f == [j \in DOMAIN rows |-> rows[j].amount]
            all == Committed(rows)
<1>1. /\ IsFiniteSet(all) /\ \A j \in all : f[j] \in Nat
      /\ AmountOf(rows, all \ {i}) \in Nat
      /\ all \subseteq DOMAIN rows
  <2>1. all \in SUBSET DOMAIN rows /\ all \ {i} \in SUBSET DOMAIN rows
    BY DEF Committed
  <2>. HIDE DEF all
  <2>. QED
    BY <2>1, RowsAddUp
<1>2. /\ AmountOf(rows, all \ {i}) = SumFunctionOnSet(f, all \ {i})
      /\ Held(rows) = SumFunctionOnSet(f, all)
  BY DEF AmountOf, Held
<1>3. CASE i \in all
  <2>1. f[i] = rows[i].amount /\ f[i] \in Nat
    BY <1>1, <1>3
  <2>. HIDE DEF f, all
  <2>2. SumFunctionOnSet(f, all) = SumFunctionOnSet(f, all \ {i}) + f[i]
    BY <1>1, <1>3, SumRemove
  <2>. QED
    BY <1>1, <1>2, <1>3, <2>1, <2>2 DEF all
<1>4. CASE i \notin all
  <2>1. all \ {i} = all
    BY <1>4
  <2>2. Held(rows) \in Nat /\ AmountOf(rows, all \ {i}) = Held(rows)
    BY <1>1, <1>2, <2>1
  <2>. HIDE DEF f
  <2>. QED
    BY <1>4, <2>2
<1>. QED
  BY <1>3, <1>4

\* What is held once a request has written: the other rows and its own.
LEMMA HeldWith ==
  ASSUME NEW rows \in Seq(Refund), NEW id \in {New} \cup DOMAIN rows,
         NEW row \in Refund
  PROVE  Held(With(rows, id, row))
           = AmountOf(rows, Committed(rows) \ {At(rows, id)}) + Worth(row)
<1>. DEFINE at == At(rows, id)
            new == With(rows, id, row)
            others == Committed(rows) \ {at}
            f == [j \in DOMAIN rows |-> rows[j].amount]
            g == [j \in DOMAIN new |-> new[j].amount]
<1>1. /\ new \in Seq(Refund) /\ DOMAIN new = DOMAIN rows \cup {at}
      /\ new[at] = row /\ \A i \in DOMAIN rows \ {at} : new[i] = rows[i]
  BY WithShape
<1>2. row.amount \in Nat /\ row.status \in RefundStatus
  BY AmountsAssumption DEF Refund
<1>. HIDE DEF new, at
<1>3. others \in SUBSET DOMAIN rows /\ others \in SUBSET DOMAIN new
  BY <1>1 DEF Committed
<1>4. AmountOf(new, others) = AmountOf(rows, others)
  <2>1. \A i \in others : f[i] \in Int /\ g[i] = f[i]
    <3>1. \A i \in others : f[i] \in Nat
      <4>. HIDE DEF others
      <4>. QED
        BY <1>3, RowsAddUp
    <3>2. \A i \in others : g[i] = f[i]
      BY <1>1, <1>3
    <3>. HIDE DEF f, g, others
    <3>. QED
      BY <3>1, <3>2
  <2>2. IsFiniteSet(others)
    BY <1>3, RowsAddUp
  <2>. HIDE DEF f, g, others
  <2>3. SumFunctionOnSet(g, others) = SumFunctionOnSet(f, others)
    BY <2>1, <2>2, SumSame
  <2>. QED
    BY <2>3 DEF AmountOf, f, g
<1>5. Committed(new) \ {at} = others
  BY <1>1 DEF Committed
<1>6. at \in Committed(new) <=> row.status \in COMMITTED_REFUND
  BY <1>1 DEF Committed
<1>7. AmountOf(new, others)
        = Held(new) - (IF at \in Committed(new) THEN new[at].amount ELSE 0)
  BY <1>1, <1>5, HeldWithout
<1>8. Held(new) \in Nat
  <2>1. Committed(new) \in SUBSET DOMAIN new
    BY DEF Committed
  <2>. QED
    BY <1>1, <2>1, RowsAddUp DEF Held
<1>9. Held(new) = AmountOf(rows, others) + Worth(row)
  <2>. HIDE DEF others
  <2>. QED
    BY <1>1, <1>2, <1>4, <1>6, <1>7, <1>8 DEF Worth
<1>. QED
  BY <1>9 DEF new, at

\* The status the transaction computes follows from the rows it computes it of.
LEMMA SyncIsRight ==
  ASSUME NEW rows \in Seq(Refund), NEW current
  PROVE  PayIs(rows, syncOrderPaymentStatus(rows, current))
<1>1. Sent(rows) \in Nat
  <2>1. Completed(rows) \in SUBSET DOMAIN rows
    BY DEF Completed
  <2>. QED
    BY <2>1, RowsAddUp DEF Sent
<1>2. syncOrderPaymentStatus(rows, current) =
        IF Sent(rows) <= 0
        THEN IF current \in {"REFUNDED", "PARTIALLY_REFUNDED"} THEN "PAID"
             ELSE current
        ELSE IF Sent(rows) >= Total THEN "REFUNDED"
        ELSE "PARTIALLY_REFUNDED"
  BY DEF syncOrderPaymentStatus, Sent
<1>. QED
  BY <1>1, <1>2 DEF PayIs

\* Two statuses right for the same rows are right for the same others.
LEMMA RightForOthers ==
  ASSUME NEW now \in Seq(Refund), NEW rows, NEW p, NEW q,
         PayIs(now, p), PayIs(now, q), PayIs(rows, p),
         rows \in Seq(Refund)
  PROVE  PayIs(rows, q)
<1>1. Sent(now) \in Nat /\ Sent(rows) \in Nat
  <2>1. /\ Completed(now) \in SUBSET DOMAIN now
        /\ Completed(rows) \in SUBSET DOMAIN rows
    BY DEF Completed
  <2>. QED
    BY <2>1, RowsAddUp DEF Sent
<1>. QED
  BY <1>1 DEF PayIs

-----------------------------------------------------------------------------

\* Nothing was refunded yet.
LEMMA InitSums == Init => SumsInv
<1>. SUFFICES ASSUME Init PROVE SumsInv
  OBVIOUS
<1>1. refunds = <<>> /\ DOMAIN refunds = {}
  BY DEF Init
<1>2. \A r \in Requests : req[r].phase = "idle"
  BY DEF Init, Idle
<1>3. pay \notin {"REFUNDED", "PARTIALLY_REFUNDED"}
  BY DEF Init
<1>4. \A f : SumFunctionOnSet(f, {}) = 0
  BY SumOfNone
<1>5. Committed(refunds) = {} /\ Completed(refunds) = {}
  BY <1>1 DEF Committed, Completed
<1>6. AmountOf(refunds, {}) = 0
  BY <1>4 DEF AmountOf
<1>7. CeilingHolds /\ PayFollowsRefunds
  BY <1>3, <1>5, <1>6, TotalAssumption
    DEF CeilingHolds, RefundsWithinTotal, PayFollowsRefunds
<1>. QED
  BY <1>1, <1>2, <1>7 DEF SumsInv, OnlyAfterwards, IdsExist, FitsInv, PaysInv

\* A step that writes nothing keeps it if what it notes of one request is right
\* for the rows as they are.
LEMMA NotedSums ==
  ASSUME Inv, SumsInv, UNCHANGED <<status, pay, refunds, raced, revived>>,
         NEW r \in Requests, NEW what \in Request, Become(r, what),
         what.phase # "idle" => /\ status \in REFUNDABLE_STATUSES
                                /\ what.id \in {New} \cup DOMAIN refunds,
         /\ what.phase \in {"writing", "closing"}
         /\ ~raced /\ ~revived /\ ~what.stale /\ ~what.lifts
         => Held(With(refunds, what.id, what.row)) <= Total,
         what.phase = "closing" /\ ~raced /\ ~what.stale
         => PayIs(With(refunds, what.id, what.row),
                  IF what.pay = Same THEN pay ELSE what.pay)
  PROVE  SumsInv'
<1>1. \A q \in Requests : req'[q] = IF q = r THEN what ELSE req[q]
  BY DEF Inv, TypeOK, Become
<1>2. /\ refunds' = refunds /\ pay' = pay /\ status' = status
      /\ raced' = raced /\ revived' = revived
  OBVIOUS
<1>3. OnlyAfterwards' /\ IdsExist'
  BY <1>1, <1>2 DEF SumsInv, OnlyAfterwards, IdsExist
<1>4. CeilingHolds' /\ PayFollowsRefunds'
  BY <1>2 DEF SumsInv, CeilingHolds, RefundsWithinTotal, PayFollowsRefunds
<1>5. FitsInv'
  BY <1>1, <1>2 DEF SumsInv, FitsInv, Written
<1>6. PaysInv'
  BY <1>1, <1>2 DEF SumsInv, PaysInv, Written
<1>. QED
  BY <1>3, <1>4, <1>5, <1>6 DEF SumsInv

\* Every step keeps it.
LEMMA StepSums == Inv /\ SumsInv /\ [Next]_vars => SumsInv'
<1>. SUFFICES ASSUME Inv, SumsInv, [Next]_vars PROVE SumsInv'
  OBVIOUS
<1>0. /\ pay \in PaymentStatus /\ refunds \in Seq(Refund)
      /\ req \in [Requests -> Request] /\ raced \in BOOLEAN
      /\ revived \in BOOLEAN
  BY DEF Inv, TypeOK
<1>i. Idle \in Request /\ Idle.phase = "idle"
  BY DEF Idle, Request
<1>h. /\ Committed(refunds) \in SUBSET DOMAIN refunds /\ Held(refunds) \in Nat
      /\ ~raced /\ ~revived => Held(refunds) <= Total
  <2>1. Committed(refunds) \in SUBSET DOMAIN refunds
    BY DEF Committed
  <2>2. Held(refunds) \in Nat
    BY <1>0, <2>1, RowsAddUp DEF Held
  <2>. QED
    BY <2>1, <2>2 DEF SumsInv, CeilingHolds, RefundsWithinTotal, Held
<1>1. ASSUME NEW r \in Requests, NEW amount \in Amounts,
             NEW state \in RefundStatus, NEW dated \in NamesDate,
             AskCreate(r, amount, state, dated)
      PROVE  SumsInv'
  <2>. DEFINE row == [amount |-> amount, status |-> state,
                      dated |-> dated \/ state = "COMPLETED"]
              what == Working("writing", New, row, FALSE)
  <2>1. row \in Refund /\ row.amount = amount /\ amount \in Nat
    BY AmountsAssumption DEF Refund
  <2>2. Held(With(refunds, New, row)) <= Total
    <3>1. Held(With(refunds, New, row))
            = AmountOf(refunds, Committed(refunds) \ {At(refunds, New)})
              + Worth(row)
      <4>. HIDE DEF row
      <4>. QED
        BY <1>0, <2>1, HeldWith
    <3>2. Committed(refunds) \ {At(refunds, New)} = Committed(refunds)
      BY <1>0, <1>h DEF At
    <3>3. Worth(row) = 0 \/ Worth(row) = amount
      BY DEF Worth
    <3>4. amount <= Total - Held(refunds)
      BY <1>1 DEF AskCreate, assertWithinOrderTotal, Held
    <3>5. Held(With(refunds, New, row)) = Held(refunds) + Worth(row)
      BY <3>1, <3>2 DEF Held
    <3>. HIDE DEF row
    <3>. QED
      BY <1>h, <2>1, <3>3, <3>4, <3>5, TotalAssumption
  <2>3. what \in Request /\ what.phase = "writing" /\ what.row = row
        /\ what.id = New
    <3>. HIDE DEF row
    <3>. QED
      BY <2>1 DEF Working, Request, New
  <2>4. /\ Become(r, what) /\ UNCHANGED <<status, pay, refunds, raced, revived>>
        /\ status \in REFUNDABLE_STATUSES
    BY <1>1 DEF AskCreate
  <2>. HIDE DEF what, row
  <2>. QED
    BY <2>2, <2>3, <2>4, NotedSums
<1>2. ASSUME NEW r \in Requests, NEW id \in DOMAIN refunds, NEW edit \in Edit,
             AskUpdate(r, id, edit)
      PROVE  SumsInv'
  <2>. DEFINE row == edited(refunds[id], edit)
              phase == IF edit.amount = NoAmount THEN "writing" ELSE "checking"
              what == Working(phase, id, row, Lifts(refunds[id], edit))
  <2>1. refunds[id] \in Refund /\ id \in Nat /\ id # New /\ id \in DOMAIN refunds
    BY <1>0 DEF New
  <2>2. row \in Refund
    BY <2>1, EditedRow
  <2>3. Lifts(refunds[id], edit) \in BOOLEAN
    BY DEF Lifts
  <2>4. what \in Request /\ what.phase = phase /\ what.row = row
        /\ what.id = id /\ what.lifts = Lifts(refunds[id], edit)
    <3>. HIDE DEF row
    <3>. QED
      BY <2>1, <2>2, <2>3 DEF Working, Request
  <2>5. Become(r, what) /\ UNCHANGED <<status, pay, refunds, raced, revived>>
    BY <1>2 DEF AskUpdate
  <2>6. status \in REFUNDABLE_STATUSES
    <3>1. refunds # <<>>
      BY <2>1
    <3>. QED
      BY <3>1 DEF SumsInv, OnlyAfterwards
  <2>7. ASSUME phase = "writing", ~raced, ~revived, ~Lifts(refunds[id], edit)
        PROVE  Held(With(refunds, id, row)) <= Total
    <3>1. /\ refunds[id].amount \in Nat /\ refunds[id].status \in RefundStatus
          /\ edit.status \in RefundStatus \cup {Same}
      BY <2>1, AmountsAssumption DEF Refund, Edit
    <3>2. edit.amount = NoAmount
      BY <2>7
    <3>3. row.amount = refunds[id].amount
      BY <3>2 DEF edited
    <3>4. row.status = IF edit.status = Same THEN refunds[id].status
                       ELSE edit.status
      BY DEF edited
    <3>5. row.status \in COMMITTED_REFUND
            => refunds[id].status \in COMMITTED_REFUND
      BY <2>7, <3>1, <3>2, <3>4
        DEF Lifts, COMMITTED_REFUND, RefundStatus, Same
    <3>6. Held(With(refunds, id, row))
            = AmountOf(refunds, Committed(refunds) \ {id}) + Worth(row)
      <4>1. At(refunds, id) = id
        BY <2>1 DEF At
      <4>. HIDE DEF row
      <4>. QED
        BY <1>0, <2>1, <2>2, <4>1, HeldWith
    <3>7. AmountOf(refunds, Committed(refunds) \ {id}) = Held(refunds)
            - (IF id \in Committed(refunds) THEN refunds[id].amount ELSE 0)
      BY <1>0, HeldWithout
    <3>8. id \in Committed(refunds)
            <=> refunds[id].status \in COMMITTED_REFUND
      BY DEF Committed
    <3>. HIDE DEF row
    <3>. QED
      BY <1>h, <2>7, <3>1, <3>3, <3>5, <3>6, <3>7, <3>8, TotalAssumption
        DEF Worth
  <2>8. phase \in {"writing", "checking"}
    OBVIOUS
  <2>. HIDE DEF what, row, phase
  <2>. QED
    BY <2>1, <2>4, <2>5, <2>6, <2>7, <2>8, NotedSums
<1>3. ASSUME NEW r \in Requests, CheckAmount(r) PROVE SumsInv'
  <2>. DEFINE others == Committed(refunds) \ {req[r].id}
              on == [req[r] EXCEPT !.phase = "writing"]
              fits == assertWithinOrderTotal(refunds, others, req[r].row.amount)
              what == IF fits THEN on ELSE Idle
  <2>1. /\ req[r] \in Request /\ req[r].phase = "checking"
        /\ req[r].id \in {New} \cup DOMAIN refunds
        /\ status \in REFUNDABLE_STATUSES
    BY <1>0, <1>3 DEF CheckAmount, SumsInv, IdsExist, OnlyAfterwards
  <2>2. /\ on \in Request /\ on.phase = "writing" /\ on.row = req[r].row
        /\ on.id = req[r].id /\ req[r].row \in Refund
    BY <2>1 DEF Request, Idle
  <2>3. Become(r, what) /\ UNCHANGED <<status, pay, refunds, raced, revived>>
    BY <1>3 DEF CheckAmount
  <2>4. ASSUME fits PROVE Held(With(refunds, on.id, on.row)) <= Total
    <3>1. Held(With(refunds, req[r].id, req[r].row))
            = AmountOf(refunds, Committed(refunds) \ {At(refunds, req[r].id)})
              + Worth(req[r].row)
      BY <1>0, <2>1, <2>2, HeldWith
    <3>2. Committed(refunds) \ {At(refunds, req[r].id)} = others
      BY <1>0, <1>h DEF At, New
    <3>3. AmountOf(refunds, others) \in Nat
      <4>1. others \in SUBSET DOMAIN refunds
        BY <1>h
      <4>. QED
        BY <1>0, <4>1, RowsAddUp
    <3>4. req[r].row.amount \in Nat
      BY <2>2, AmountsAssumption DEF Refund
    <3>5. req[r].row.amount <= Total - AmountOf(refunds, others)
      BY <2>4 DEF assertWithinOrderTotal
    <3>6. Worth(req[r].row) = 0 \/ Worth(req[r].row) = req[r].row.amount
      BY DEF Worth
    <3>7. Held(With(refunds, req[r].id, req[r].row))
            = AmountOf(refunds, others) + Worth(req[r].row)
      BY <3>1, <3>2
    <3>. HIDE DEF others
    <3>8. Held(With(refunds, req[r].id, req[r].row)) <= Total
      BY <3>3, <3>4, <3>5, <3>6, <3>7, TotalAssumption
    <3>. QED
      BY <2>2, <3>8
  <2>5. what = on \/ what = Idle
    OBVIOUS
  <2>6. CASE fits
    <3>1. what = on
      BY <2>6
    <3>. HIDE DEF on, what, fits
    <3>. QED
      BY <2>1, <2>2, <2>3, <2>4, <2>6, <3>1, NotedSums
  <2>7. CASE ~fits
    <3>1. what = Idle
      BY <2>7
    <3>. HIDE DEF on, what, fits
    <3>. QED
      BY <1>i, <2>3, <3>1, NotedSums
  <2>. QED
    BY <2>6, <2>7
<1>4. ASSUME NEW r \in Requests, WriteRefund(r) PROVE SumsInv'
  <2>. DEFINE rows == With(refunds, req[r].id, req[r].row)
              owed == syncOrderPaymentStatus(rows, pay)
              new == IF owed = pay THEN Same ELSE owed
              what == [phase |-> "closing", id |-> req[r].id,
                       row |-> req[r].row, lifts |-> req[r].lifts,
                       stale |-> req[r].stale, pay |-> new]
  <2>1. /\ req[r] \in Request /\ req[r].phase = "writing"
        /\ req[r].id \in {New} \cup DOMAIN refunds
        /\ status \in REFUNDABLE_STATUSES
    BY <1>0, <1>4 DEF WriteRefund, SumsInv, IdsExist, OnlyAfterwards
  <2>2. req[r].row \in Refund
    BY <2>1 DEF Request, Idle
  <2>3. new \in Settled \cup {Same} /\ Same \notin PaymentStatus
    BY SyncSettles DEF Same, PaymentStatus
  <2>4. /\ what \in Request /\ what.phase = "closing" /\ what.row = req[r].row
        /\ what.id = req[r].id /\ what.lifts = req[r].lifts
        /\ what.stale = req[r].stale /\ what.pay = new
    <3>. HIDE DEF new
    <3>. QED
      BY <2>1, <2>3 DEF Request, Idle, Settled, PaymentStatus
  <2>5. Become(r, what) /\ UNCHANGED <<status, pay, refunds, raced, revived>>
    BY <1>4 DEF WriteRefund
  <2>6. PayIs(rows, IF new = Same THEN pay ELSE new)
    <3>1. rows \in Seq(Refund)
      BY <1>0, <2>1, <2>2, WithShape
    <3>2. PayIs(rows, owed)
      BY <3>1, SyncIsRight
    <3>3. owed \in Settled \cup {pay}
      BY SyncSettles
    <3>4. owed # Same
      BY <1>0, <3>3 DEF Settled, PaymentStatus, Same
    <3>5. (IF new = Same THEN pay ELSE new) = owed
      <4>. HIDE DEF owed
      <4>. QED
        BY <3>4
    <3>. HIDE DEF owed, new
    <3>. QED
      BY <3>2, <3>5
  <2>7. ~raced /\ ~revived /\ ~req[r].stale /\ ~req[r].lifts
          => Held(rows) <= Total
    BY <2>1 DEF SumsInv, FitsInv, Written
  <2>. HIDE DEF what, new
  <2>. QED
    BY <2>1, <2>4, <2>5, <2>6, <2>7, NotedSums
<1>5. ASSUME NEW r \in Requests, Commit(r) PROVE SumsInv'
  <2>. DEFINE pays == IF req[r].pay = Same THEN pay ELSE req[r].pay
  <2>1. /\ req[r] \in Request /\ req[r].phase = "closing"
        /\ req[r].id \in {New} \cup DOMAIN refunds
        /\ status \in REFUNDABLE_STATUSES
    BY <1>0, <1>5 DEF Commit, SumsInv, IdsExist, OnlyAfterwards
  <2>2. /\ req[r].row \in Refund
        /\ req[r].stale \in BOOLEAN /\ req[r].lifts \in BOOLEAN
    BY <2>1 DEF Request, Idle
  <2>3. /\ refunds' = Written(r) /\ pay' = pays /\ status' = status
        /\ raced' = (raced \/ req[r].stale)
        /\ revived' = (revived \/ req[r].lifts)
    BY <1>5 DEF Commit, Written
  <2>4. /\ refunds' \in Seq(Refund)
        /\ \A i \in DOMAIN refunds : i \in DOMAIN refunds'
    <3>1. Written(r) \in Seq(Refund)
      BY <1>0, <2>1, <2>2, WithShape DEF Written
    <3>2. \A i \in DOMAIN refunds : i \in DOMAIN Written(r)
      BY <1>0, <2>1, <2>2, WithGrows DEF Written
    <3>. QED
      BY <2>3, <3>1, <3>2
  <2>5. ~raced' => ~raced /\ ~req[r].stale
    BY <2>3
  <2>6. ~revived' => ~revived /\ ~req[r].lifts
    BY <2>3
  <2>7. ~raced' /\ ~revived' => Held(refunds') <= Total
    BY <2>1, <2>3, <2>5, <2>6 DEF SumsInv, FitsInv
  <2>8. ~raced' => PayIs(refunds', pay')
    BY <2>1, <2>3, <2>5 DEF SumsInv, PaysInv
  <2>9. \A q \in Requests :
          req'[q].phase # "idle" =>
            /\ req[q].phase = req'[q].phase /\ req'[q].id = req[q].id
            /\ req'[q].row = req[q].row
            /\ req'[q].stale = (~raced' /\ (req[q].stale \/ refunds' # refunds))
            /\ req'[q].lifts = (~revived' /\ req[q].lifts)
            /\ req[q].phase = "closing" => req'[q].pay = req[q].pay
    <3>. SUFFICES ASSUME NEW q \in Requests, req'[q].phase # "idle"
                  PROVE  /\ req[q].phase = req'[q].phase
                         /\ req'[q].id = req[q].id
                         /\ req'[q].row = req[q].row
                         /\ req'[q].stale =
                              (~raced' /\ (req[q].stale \/ refunds' # refunds))
                         /\ req'[q].lifts = (~revived' /\ req[q].lifts)
                         /\ req[q].phase = "closing" =>
                              req'[q].pay = req[q].pay
      OBVIOUS
    <3>1. req[q] \in Request
      BY <1>0
    <3>2. ~(q = r \/ req[q].phase = "idle")
      BY <1>5, <1>i DEF Commit
    <3>. DEFINE stale == (~raced' /\ (req[q].stale \/ refunds' # refunds))
                lifts == (~revived' /\ req[q].lifts)
    <3>3. req'[q] = [req[q] EXCEPT !.stale = stale, !.lifts = lifts]
      BY <1>5, <3>2 DEF Commit
    <3>. HIDE DEF stale, lifts
    <3>4. /\ req'[q].phase = req[q].phase /\ req'[q].id = req[q].id
          /\ req'[q].row = req[q].row
          /\ req'[q].stale = stale /\ req'[q].lifts = lifts
          /\ req[q].phase = "closing" => req'[q].pay = req[q].pay
      BY <3>1, <3>2, <3>3 DEF Request, Idle
    <3>. QED
      BY <3>4 DEF stale, lifts
  <2>10. OnlyAfterwards'
    BY <2>1, <2>3 DEF OnlyAfterwards
  <2>11. IdsExist'
    BY <2>4, <2>9 DEF SumsInv, IdsExist
  <2>12. CeilingHolds' /\ PayFollowsRefunds'
    BY <2>7, <2>8 DEF CeilingHolds, RefundsWithinTotal, PayFollowsRefunds,
                      Held, Sent, PayIs
  <2>13. FitsInv'
    <3>. SUFFICES ASSUME NEW q \in Requests,
                         req'[q].phase \in {"writing", "closing"},
                         ~raced', ~revived', ~req'[q].stale, ~req'[q].lifts
                  PROVE  Held(Written(q)') <= Total
      BY DEF FitsInv
    <3>1. refunds' = refunds /\ ~req[q].stale /\ ~req[q].lifts
      BY <2>9
    <3>2. Written(q)' = Written(q)
      BY <2>9, <3>1 DEF Written
    <3>. QED
      BY <2>5, <2>6, <2>9, <3>1, <3>2 DEF SumsInv, FitsInv
  <2>14. PaysInv'
    <3>. SUFFICES ASSUME NEW q \in Requests, req'[q].phase = "closing",
                         ~raced', ~req'[q].stale
                  PROVE  PayIs(Written(q)', IF req'[q].pay = Same THEN pay'
                                            ELSE req'[q].pay)
      BY DEF PaysInv
    <3>1. /\ refunds' = refunds /\ ~req[q].stale /\ req[q].phase = "closing"
          /\ req'[q].pay = req[q].pay
      BY <2>9
    <3>2. Written(q)' = Written(q)
      BY <2>9, <3>1 DEF Written
    <3>3. PayIs(Written(q), IF req[q].pay = Same THEN pay ELSE req[q].pay)
      BY <2>5, <3>1 DEF SumsInv, PaysInv
    <3>4. CASE req[q].pay # Same
      BY <3>1, <3>2, <3>3, <3>4
    <3>5. CASE req[q].pay = Same
      <4>1. PayIs(refunds, pay) /\ PayIs(refunds, pay')
        <5>1. PayIs(refunds, pay)
          BY <2>5 DEF SumsInv, PayFollowsRefunds, PayIs, Sent
        <5>. QED
          BY <2>8, <3>1, <5>1
      <4>2. PayIs(Written(q), pay)
        BY <3>3, <3>5
      <4>3. Written(q) \in Seq(Refund)
        <5>1. /\ req[q].id \in {New} \cup DOMAIN refunds
              /\ req[q] \in Request
          BY <1>0, <3>1 DEF SumsInv, IdsExist
        <5>2. req[q].row \in Refund
          BY <3>1, <5>1 DEF Request, Idle
        <5>. QED
          BY <1>0, <5>1, <5>2, WithShape DEF Written
      <4>4. PayIs(Written(q), pay')
        BY <1>0, <4>1, <4>2, <4>3, RightForOthers
      <4>. QED
        BY <3>1, <3>2, <3>5, <4>4
    <3>. QED
      BY <3>4, <3>5
  <2>. QED
    BY <2>10, <2>11, <2>12, <2>13, <2>14 DEF SumsInv
<1>6. ASSUME NEW next \in Statuses, Progress(next) PROVE SumsInv'
  <2>1. /\ UNCHANGED <<refunds, req, raced, revived>> /\ status' = next
        /\ next \in AllowedTransitions[status]
        /\ next # "DELIVERED" => pay' = pay
        /\ pay' \in {"PAID", pay}
    BY <1>6 DEF Progress
  <2>2. status \in REFUNDABLE_STATUSES
          => next \in REFUNDABLE_STATUSES /\ next # "DELIVERED"
    BY <2>1 DEF REFUNDABLE_STATUSES, AllowedTransitions
  <2>3. OnlyAfterwards' /\ IdsExist' /\ CeilingHolds' /\ FitsInv'
    BY <2>1, <2>2 DEF SumsInv, OnlyAfterwards, IdsExist, CeilingHolds,
                      RefundsWithinTotal, FitsInv, Written
  <2>4. CASE status \in REFUNDABLE_STATUSES
    <3>1. pay' = pay
      BY <2>1, <2>2, <2>4
    <3>. QED
      BY <2>1, <2>3, <3>1 DEF SumsInv, PayFollowsRefunds, PaysInv, Written
  <2>5. CASE status \notin REFUNDABLE_STATUSES
    <3>1. refunds = <<>> /\ \A r \in Requests : req[r].phase = "idle"
      BY <2>5 DEF SumsInv, OnlyAfterwards
    <3>2. PaysInv'
      BY <2>1, <3>1 DEF PaysInv
    <3>3. AmountOf(refunds, Completed(refunds)) = 0
      <4>1. Completed(refunds) = {}
        BY <3>1 DEF Completed
      <4>. QED
        BY <4>1, SumOfNone DEF AmountOf
    <3>4. PayFollowsRefunds'
      BY <2>1, <3>3 DEF SumsInv, PayFollowsRefunds
    <3>. QED
      BY <2>3, <3>2, <3>4 DEF SumsInv
  <2>. QED
    BY <2>4, <2>5
<1>7. CASE Crash
  <2>1. /\ UNCHANGED <<status, pay, refunds, raced, revived>>
        /\ req' = [r \in Requests |-> Idle]
    BY <1>7 DEF Crash
  <2>2. \A r \in Requests : req'[r].phase = "idle"
    BY <1>i, <2>1
  <2>. QED
    BY <2>1, <2>2 DEF SumsInv, OnlyAfterwards, IdsExist, CeilingHolds,
         RefundsWithinTotal, PayFollowsRefunds, FitsInv, PaysInv
<1>8. CASE UNCHANGED vars
  BY <1>8 DEF vars, SumsInv, OnlyAfterwards, IdsExist, CeilingHolds,
     RefundsWithinTotal, PayFollowsRefunds, FitsInv, PaysInv, Written
<1>. QED
  BY <1>1, <1>2, <1>3, <1>4, <1>5, <1>6, <1>7, <1>8 DEF Next, Ask, Handler

\* Both hold in every reachable state.
THEOREM SumsInvariant == Spec => []SumsInv
<1>1. Inv /\ SumsInv /\ [Next]_vars => SumsInv'
  BY StepSums
<1>. QED
  BY <1>1, InitSums, Invariant, PTL DEF Spec

\* "Total refunds on an order can never exceed the order total": not as long as
\* no request's reading was overtaken and no failed refund was taken up again
\* without its amount.
THEOREM CeilingIsHeld == Spec => []CeilingHolds
<1>1. SumsInv => CeilingHolds
  BY DEF SumsInv
<1>. QED
  BY <1>1, SumsInvariant, PTL

\* The order's payment status says what its completed refunds come to, for any
\* number of refunds created, edited, completed and undone.
THEOREM PayIsFollowed == Spec => []PayFollowsRefunds
<1>1. SumsInv => PayFollowsRefunds
  BY DEF SumsInv
<1>. QED
  BY <1>1, SumsInvariant, PTL
==============================================================================
