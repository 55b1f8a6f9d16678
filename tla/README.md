# TLA+ models of the Retail Shop backend

Specifications, TLC runs and TLAPS proofs for the NestJS/Prisma backend in
`src/`. At the centre is the part where a wrong step costs money or goods:
orders and their lines, cash on delivery, stock, carts, checkout and refunds, and
on the buying side bills, payments and the cost of materials. Around it are the
services that keep the shop's other promises: sign-in, reviews, tickets,
addresses, the catalogue, cost sheets, roles, media, the site's content and the
reports. Every definition is translated from the code; `PROJECT.json` (`map`)
gives the lines behind each one.

## The system

One Node process serves HTTP requests; PostgreSQL keeps the state. Every
request runs a service method: it reads rows, decides, and writes them back,
sometimes inside `prisma.$transaction`. Three facts make this hard:

* **Nothing is locked while a handler decides.** The read that the decision is
  made from comes before the transaction. Between any two awaits other requests
  run, and the code uses neither version columns nor conditional updates.
* **Transactions are read committed.** A statement sees what is committed when
  it starts and its own transaction's writes; an update waits for the row's lock.
* **Not everything is inside one.** The restock loop of a cancellation follows
  the commit, one update per line, and can throw or be lost in a crash.

### Components

| Component | State | Operations | Hard part | What makes it right |
|---|---|---|---|---|
| Orders (`orders.service.ts`) | order row, lines, payments, history | `updateStatus`, `cancelByCustomer`, `setItemAvailability`, restock loop | stale reads, two reads in one handler, loop outside the transaction | status fits the lines, closed stays closed, each line is restocked once, cash fits what landed |
| Order fulfilment (`order-fulfilment.ts`) | none | derivations of status, parcel, collection, payment status | order of the branches | as above |
| Checkout (`OrdersService.checkout`) | cart, stock, orders | `checkout` | stock checked on a reading before the transaction, row locks in cart order | no unit lost or doubled, the order is the cart, it ends |
| Cart (`cart.service.ts`) | cart rows | `addItem`, `updateItem`, `removeItem`, `clear` | lookup by a null variant, read then write | a row is bought once |
| Products (`products.service.ts`) | stock, listing, variants | `updateStock`, `update`, `remove`, `restore` | absolute stock, variants replaced under new ids | stock adds up after the count |
| Refunds (`refunds.service.ts`) | refunds, order's payment status | `create`, `update` | ceiling checked before the transaction, write skew in the sum | refunds within the total, payment status follows them |
| Purchase bills, raw materials (`purchase-bills`, `raw-materials`) | bills and lines, stock, average cost, last price | `create`, `update`, `remove`, `recomputeMaterialCosts`, stock and unit edits | the stock of the old lines is reversed as read before the transaction; the cost is recomputed from a history others are changing | stock is what was counted and bought, cost is the history's |
| Vendor payments, vendors | payments on a bill or on account | `create`, `update`, `remove`, `ledger` | checked, then written, without a transaction | no bill overpaid, a paid bill stays, a statement adds up |
| Costing (`costing.service.ts`) | versions of a product's cost sheet | `create`, `update`, `remove`, `margins` | number and active flag read before the transaction; a pick before the wait for a lock | the margin is the newest version's |
| Codes and sessions (`otp`, `tokens`, `auth`) | codes, attempts, refresh tokens, passwords | request, verify, reset, login, rotate, logout | compared, then counted or consumed | attempts bounded, one session per code |
| Reviews | reviews, their images | `create`, `moderate`, `reply`, `remove`, upload | two reads before the insert, no unique index | one earned review, nothing private shown |
| Support tickets | status, messages | messages of both sides, `updateTicket` | the status follows from one read before the message | nobody's last word is lost in a closed ticket |
| Addresses | default flags | `create`, `update`, `remove` | cleared, then written | one default |
| Categories, ingredients, recipes, products' links | what refers to what | save, `remove`, `restore` | counted, then deleted; the database cascades | nothing in use goes |
| Site content, wishlist | posts, slugs, dates, pages, banners, questions, settings, wishes | save, publish, `remove`, `add` | a loop of queries picks the slug | one post per slug, a public post is dated |
| Reports, dashboard, expenses | expenses | `profitAndLoss`, `vendorPayables`, `purchaseSummary`, `stockValuation` | one report from several queries | figures agree with the rows and each other |
| Roles, permissions, admin users, seed | roles, grants, admins | `create`, `update`, `remove`, the guards, the seed | an edit revokes, grants and renames in three calls | nobody gets more than was last granted |
| Media, uploads, storage | files, asset rows | upload, record, stream, remove | the file goes before the row | an asset has its file |
| Notifications, application shell | none | mail, wiring | | |

Orders, refunds and checkout meet in three places: a checkout creates the order
that `Orders` begins with; a cancellation's loop puts back the stock that
`Checkout` took; and `Orders` and `Refunds` both write an order's payment
status. Bills, payments and materials meet in one module,
`Purchasing`. The other services share no rows with each other in any operation
modelled here; what reaches them from outside (an order delivered, a price that
moves, a product withdrawn) is an action of theirs.

## The modules

| Module | Lines of code it stands for | What it is |
|---|---|---|
| `OrderFulfilment` | `order-fulfilment.ts`, the transition tables | pure functions of a bundle of lines |
| `Orders` | `orders.service.ts` without checkout | one order and the requests in flight on it |
| `OrderContract` | (abstract) | what an order promises: units held, out, landed or back, and the cash for what landed |
| `Checkout` | `checkout`, `cart.service.ts`, the stock side of `products.service.ts` | carts, stock, transactions with row locks |
| `Refunds` | `refunds.service.ts` | the refunds of one order and its payment status |
| `MaterialCosting` | `material-costing.ts`, totals and outstanding amounts, `ledger`, three reports | pure functions of bills, payments and materials |
| `Purchasing` | `purchase-bills`, `raw-materials`, `vendors`, `vendor-payments` | bills statement by statement, payments, materials |
| `Requests` | (shared) | a request: the step its handler is at, what it has read, the rows it has locked |
| `CostSheets` | `costing.service.ts` | the cost sheets of one product |
| `SignIn` | `customer-auth`, `auth`, `otp`, `tokens` | codes, passwords and sessions of one address |
| `Reviews`, `SupportTickets`, `Addresses` | the services of these names | one customer's review of one product, one ticket, one customer's addresses |
| `Catalogue` | deletion and links in categories, ingredients, recipes, products | what may go and what comes back |
| `Reports` | `profitAndLoss`, `dashboard`, expenses | a report read while the rows move |
| `Access` | roles, admin users, guards, the seed script | who may do what |
| `Media` | uploads, media assets, streaming | files and the rows that name them |
| `Content` | blogs, pages, banners, FAQs, settings, wishlist | what the site shows beside the catalogue |
| `Services` | (composition) | the ten modules above, which share no rows; one followed per behaviour |
| `OrdersProofs`, `CheckoutProofs`, `RefundsProofs`, `PurchasingProofs` | | theorems about the modules of these names |
| `CustomerProofs` | | theorems about `SignIn`, `Addresses`, `Reviews`, `SupportTickets` |
| `BackOfficeProofs` | | theorems about `Catalogue`, `Media`, `Access`, `CostSheets`, `Reports`, `Content` and `Services` |
| `RequestsProofs` | | what a step of `Requests` keeps, cited by the last two |
| `SumTheorems` | | what a sum over a finite set of rows is, cited wherever money or units are added up |
| `MCOrders`, `MCCheckout`, `MCRefunds`, `MCPurchasing`, `MCServices` | | values and symmetry for TLC |

### Orders

`order` is the row with its items: `line` their `fulfilmentStatus`, `hold` is
`holdForStock`, `parcels` and `collected` are the number and the sum of its
payments, and `lifecycle` is what `lastLifecycleStatus` would find in the
history. `lifecycle` begins as PLACED and is never empty, since checkout writes
the first row of the history: the fallback to PROCESSING is never taken.
A request is a record in `job`: what it was asked, the row as it was read
(`snap`), and how far it has come. `AskMove`, `AskCancel`, `AskAvailability`
are the reads with all the guards that follow them; `ReadToCancel` the second
read of a customer's cancellation; `ReadHistory` the second read of an
availability change; `CommitMove` and `CommitAvailability` the transactions,
which apply what was decided from `snap` to the row as it is. `RestockLine` is
one turn of the loop and `RestockThrows` its end on a variant that is gone.
`Crash` forgets everything that is in flight.

A transaction is one step here: its updates name rows by id, none of them reads,
and they become visible together. That two transactions on one order cannot
interleave follows from the lock on the order row or, where a line is updated
first, changes nothing, since every value written was decided before. Amounts
are whole paise in `Value`, so the half-paisa tolerance has no counterpart.

### Checkout

`stock` is what is committed; a checkout's decrements are in its `taken` until
it commits, and `taken[s] > 0` is the lock of row `s`. `ReadCart` keeps the rows
and, for each product, the stock and the listing as they were (`include:
{ product: true }`); `CheckRow` compares a product with that and a variant with
what the transaction reads now; `TakeRow` decrements what is there, when the
lock is free; `RefuseRow` and `ThrowInside` roll back, the second also where
the database breaks a ring of waiting transactions. `PlaceOrder` is the end of
the transaction. The rows come in no particular order because the query names
none. Prices and cost snapshots are left out. `AskAdd` models the lookup by
`variantId: null` by what it does: it throws inside Prisma, `.catch(() => null)`
hides it, and the same product gets a second row.
`Cancel` and `RestockRow` are the part of `Orders` that moves stock.
Prisma reads the cart and its products by two queries in a row; they are one
step here, as are the lookup and the update of `updateItem` and `removeItem`,
whose update by id fails where the row has gone. `listed` stands for `isActive`
and `deletedAt` together, which `remove` and `restore` set together.

### Refunds

`AskCreate` and `AskUpdate` read and decide, `CheckAmount` is the second read of
an edit that names an amount, `WriteRefund` the writing of the refund and the
sum read back in the transaction, `Commit` the update of the order and the
commit. Two statements of a transaction are one step where the first is not yet
visible to anybody; the commit is a step of its own, so two transactions can
each miss the other's refund. `Progress` is the order moving underneath.

### Purchasing

`AskCreateBill`, `AskUpdateBill` and `AskRemoveBill` are the reads and guards. A
bill's transaction is three kinds of step. `OpenBill` is its first statements,
the bill, its lines and the stock, after which the rows of its materials are
locked; of those rows nobody else can change the history any more, so
`recomputeMaterialCosts` may as well have read it there. An edit that leaves the
lines alone has locked nothing, and reads each material's history (`ReadHistory`)
and writes its cost (`WriteCost`) in two steps that another commit can come
between. `CommitBill` makes all of it visible. A payment is `AskPayment` or
`AskPaymentEdit` and later one statement, `WritePayment`. `Fail` is any throw,
timeout, broken lock ring or crash.

What is stored is `vendors`, `materials`, `bills` and `payments`; the statement
and the reports are functions of them in `MaterialCosting`. Money and quantities
are whole numbers there and an average cost is in ten-thousandths, which keeps
the only rounding the code does. A material's cost is whichever of the day's last
prices the query returns first: bills of one day come in no order. `RemoveMaterial`
models the foreign key of the bills' lines; that of the cost sheets' lines is not
here, since sheets are in `CostSheets`.

### The services on Requests

`Requests` is the part all of them share. `Begin` is the arrival of a request,
`Continue` and `Proceed` a call after which the handler goes on, `End` and `Settle`
the last one; `Proceed` and `Settle` say whether what was decided is stale.
`Interrupt` is a throw, a crash or a transaction the database cancels, after any
call. `held` are the rows an open transaction has locked.

* `CostSheets`. In `create` the statement that deactivates picks its rows
  (`PickActive`) before it waits for their locks (`Deactivate`), as read committed
  does: a sheet activated while it waits is not among them. The version number is
  unique in the database (`VersionTaken`). `remove` writes, looks for the newest
  left and activates it.
* `SignIn`. `age` stands for the clock: before the resend cooldown ends, after,
  and expired. `FindCode` is the read and the comparison, whose outcome decides
  the next call, `CountAttempt` or `Consume`. `code` in a token is a history: what
  the session goes back to, through every `Rotate`.
* `Reviews`. A read for an earlier review, a read for a delivered order with the
  check of the image keys, then the insert. A key is told by its visibility, its
  folder and its kind.
* `SupportTickets`. `WriteMessage` then `WriteStatus`, from the status read first.
* `Addresses`. `ClearDefaults` then `WriteAddress`, where the flag was asked for.
* `Catalogue`. Each removal counts in one step and deletes in another. `Stripped`
  is the cascade of link rows; a category's products are set to none.
* `Reports`. Orders are one query, refunds and expenses the next. The outline of
  an order's life is only what a report tells apart: placed, delivered, returned.
* `Access`. `update` revokes, grants and renames in three calls; the seed walks
  through its roles in the same way while requests are served.
* `Media`. `StoreFile` and `CreateAsset` are requests of their own; a removal
  deletes the file (`AskRemoveAsset`) and then the row (`DeleteAsset`).
* `Content`. `ensureUniqueSlug` is one turn of the loop that looks for a free slug,
  and the insert after it is refused where the slug has been taken.

## What is claimed, and when

The handlers lock nothing, so most promises cannot hold in every interleaving.
Each module has a history variable saying whether that has happened:
`overtaken` in `Orders` is set by the first commit whose snapshot is no longer
the row, `overtaken` in `Checkout` collects the products decremented after their
stock had moved, `raced` in `Refunds` is set by the first commit of a request
that read other refunds. Requests do interleave in these runs, in every way; the
claim ends only with a commit that used an old reading. What holds without such
a condition is stated without it: `CompletedIsDated`, `PaidStaysSettled`,
`StockAddsUp`, `CheckoutEnds`, `AttemptsBounded`, the first two parts of
`ReviewIsEarned` and the type invariants, which hold the references together.

What sets `overtaken` in the other modules:

| Module | A stale write is |
|---|---|
| `Purchasing` | a bill edited or deleted whose lines are not those that were read, a deletion whose bill has other payments than were counted, a cost from a history that has moved, a payment of a bill whose vendor, total or payments have changed, a unit given to a material whose unit or stock has |
| `CostSheets` | a `create` or `remove` after another has committed, a correction without lines of a sheet whose lines were replaced |
| `SignIn` | a code consumed twice, a token rotated that was revoked meanwhile |
| `Reviews` | an insert after another of the same customer |
| `SupportTickets` | a message whose ticket has changed its status since |
| `Addresses` | a default written when the others are not as it left them |
| `Catalogue` | a deletion or a restore of something referred to, or gone, since it was looked at |
| `Reports` | an order delivered or returned between the queries of a report |
| `Access` | two edits of one role, or an edit beside the seed |
| `Media` | a removal of an asset that was already removed |

Three claims have another exception, which is a history too. `repriced` are the
bills lowered, or given to another vendor, under their payments: `update` does
not look at payments at all, so they can be overpaid with one request at a time.
`unfinished` in `SupportTickets`, `halfway` in `Access` and `cutShort` in `Media`
are handlers that stopped between two calls: a message without its status, a role
without its permissions, a row without its file.

What the conditions exclude is real. Without `~overtaken`, `StockIsCountPlusBills`
fails with two edits of one bill, both of which reverse the same old lines, and
`CostIsHistory` when an edit of a bill's tax reads a material's history while
another bill of that material commits. `PROJECT.json` lists these under `hazards`,
each at its line.

## The runs

| Run | Instance | Shows |
|---|---|---|
| `orders_races` | 2 lines (one a variant), COD, 2 requests | the invariants of `Orders` and its action properties until the first overtaken commit |
| `orders_contract` | 3 lines, COD, 1 request, fair | `Orders` implements `OrderContract`; a hold holds everything; a cancelled order is restocked |
| `orders_reopened` | as `orders_races` | violated: a stale confirmation reopens a cancelled order |
| `orders_parcel` | 2 lines, 1 request | violated: a hold set after the first parcel left keeps that parcel from being delivered |
| `checkout` | 1 product, 1 variant, 2 customers, 3 cart rows of up to 2 units, stock 2, 2 orders, 1 edit | stock adds up, debts come from stale checks only, a row is bought once, the order is the cart |
| `checkout_ends` | 4 cart rows of 1 unit, stock 1, no edits, fair | every checkout ends, also from the lock ring |
| `checkout_oversold` | 1 customer, 2 rows | violated: two rows of one product sell more than there is |
| `refunds` | total 2, amounts 1 and 2, 2 refunds, 2 requests | ceiling, payment status, dates |
| `refunds_overrun` | 1 request | violated: a failed refund taken up again passes no ceiling |
| `purchasing` | 2 vendors, 2 materials, 2 bills, 2 payments, 2 edits, 2 requests | stock, cost, spend, payments and statements follow from the bills and payments there are |
| `purchasing_payables` | 1 request | violated: what is paid on account is not in the payables report |
| `services` | the ten services, one per behaviour, 2 requests | each one's promise until its first stale write |

`services` is one run because its services are independent: no one reads what
another writes, so a behaviour of all of them is an interleaving of one of each,
and nothing is lost by following one (`focus`).

### The five violations

* `ClosedStaysClosedAlways`. A confirmation reads PLACED, a cancellation commits,
  the confirmation commits: CONFIRMED, while the loop restocks. The comment on
  `FROZEN` rules this out.
* `ParcelCanLand`. Ship one of two lines, then mark the other unavailable with
  hold. DELIVERED is refused for the parcel in the van, although the table's
  comment calls it reachable.
* `NoOversell`. The comment on the transaction and the README promise a check
  and a decrement with nothing in between; the product's check reads a row from
  before the transaction.
* `RefundsWithinTotal`. Fail a refund, create another for the full amount, set
  the first back to PENDING without an amount.
* `PayablesAgree`. Pay a vendor on account: the ledger's balance falls, the
  payables report's does not, although the report's comment says such payments
  are "already counted inside `paid`".

### Bounds

`MaxPayments` and `MaxRestocks` stop new deliveries or cancellations beyond
what `overtaken` histories could pile up; without a stale commit an order
has at most one payment per line and one cancellation, so in the runs' claims
nothing is cut off. Two lines give every mixture of two lines' statuses, three
lines also the third parcel and a hold between two; prices 1, 2 and 4 make all
parcels cost differently, and `Charges` is 1 so that a charge asked for twice
shows. Two requests are enough for every pairwise race. `UntilOvertaken` follows
`orders_races` no further than the claim reaches.

In `Checkout` two units and rows of one or two make both a fitting and an
oversold order; two orders allow one to be cancelled while another is placed;
`MaxEdits` is 1, since an edit matters by falling between two steps. In
`checkout_ends` four rows allow both customers the product and the variant,
which is what the ring needs. In `Refunds` a total of 2 with amounts 1 and 2
has a partial refund, a full one and an excess. `MaxRefunds`, `MaxRows` and
`MaxOrders` bound the rows that can be created. `NamesDate` is `{FALSE}`:
a date in the request only makes `CompletedIsDated` easier; the theorem allows
both.

In `Purchasing` one paper has a material twice at two prices, so that an average
is not one of them and rounds; the other has a free sample, an amount of nothing
that still has a price, and taxes and discount that differ. Both have the number
1, so an edit of the vendor meets the uniqueness of the number. Due dates put an
unpaid bill in different columns of the payables report on `Today`. `Few` follows
a behaviour for four requests and until `overtaken`, past which every claim but
the types is void; the types hold there by the proof.

In `services`, `MaxAttempts` 1 is passed by two guesses at once; two codes give a
resend; three tokens a refresh of a refresh. A product starts with no cost sheet
or with three, so that deleting the active one has two to choose from. Two admins
and two roles are enough to grant what somebody else holds. `Few` bounds what
grows without an end: three requests on the content, addresses or a product
without sheets, two on one with three sheets, messages up to four, one report at
a time, roles and requests together up to four; rows of `Content` written by
single queries are written before its first request only.

`CHECK_DEADLOCK FALSE` in every run: an order that is REFUNDED, a shop out of
rows to create, or an order with all its refunds recorded may stop.

Requests are interchangeable, and so are customers together with their
requests, categories, and products in the catalogue (`Swaps`); symmetry is used
in safety runs only.

### Fairness

`FairSpec` in `Orders` asks for weak fairness of each started handler: Node runs
what was awaited. Nobody has to send a request. `FairSpec` in `Checkout` adds
strong fairness of `TakeRow`, the waiting for a row's lock, because PostgreSQL
grants a lock in turn and the row may be locked and freed many times meanwhile.
Prisma also gives up a transaction after five seconds, which is not needed for
`CheckoutEnds` and left out. The other services have no liveness claim: nothing
waits for anything there but a lock, and a handler that stops is not taken up
again by anybody.

## The proofs

Checked with tlapm for every value of the constants: any number of lines,
requests, customers, rows, bills, refunds, any prices. Each property below is
one that a run checks too, and `PROJECT.json` (`theorems`) pairs them.

### Sums

Most promises here are about a sum: stock, what was refunded, what a vendor is
owed. The prover has no induction over data with an operator as a parameter, so
`SumTheorems` does without one. `ElementInduction` is about a set `Good` of
subsets of a finite set: it holds the empty one, and with a subset also that
subset and one more element; then it holds them all. With
`Good` the subsets for which a fact about `SumFunctionOnSet` is so, this gives
that a sum is a number (`SumIsInt`), splits (`SumSplit`), adds (`SumPlus`),
changes with one of its terms (`SumChange`), may be taken over an image
(`SumImage`), group by group (`SumUnion`) or by a key (`SumByKey`). The models'
own sums are `SumFunction`s so that these apply as they stand.

### Orders

`OrdersProofs` proves all that `orders_races` checks, and `HoldHoldsEverything`.
None of these is inductive alone. A commit writes what was decided from
a snapshot, so the invariant `Inv` says of every job that its snapshot was
itself an order with fitting status, place and books, that a job to commit had been
accepted on it, and that a restock loop's lines are those of a cancelled order
not yet put back. If the commit is not overtaken the snapshot is the row, and
the three facts about it carry over; if it is, the claim ends. The cash part
rests on the additivity of `Value` (`ValueAssumption`): the parcels' values add
up to that of what was delivered.

It also proves that `Orders` implements `OrderContract`. `StepsKeepContract` is
the simulation with any requests in flight: the first state maps to the contract's
first, and every step before the first overtaken commit maps to a step of the
contract or to a stutter. One commit may move several units, and maps to the one
contract step that moves them. `ContractIsKept` is the refinement itself, for a
shop in which requests come one at a time, as `orders_contract` runs it:
there `SnapsAreCurrent` holds, so no commit is ever overtaken.

### Checkout

`CheckoutProofs` proves every invariant of `checkout` and `OrderIsTheCart`, in
four layers. `TypeInv` has the type of every variable and of each job, and that
there is room for the rows that requests are about to add. `StockInv` adds to
`StockAddsUp` that what a transaction has taken so far is what the rows it has
been through name. `LocksInv` says that no two transactions hold one
sku, and that of a sku nobody took on a stale reading no more is taken than there
is; `OversoldOnlyWhenStale` follows. `RowsInv`, for customers who send one request
at a time, says that row ids are given out once and that the cart of a customer
who is buying is the cart that was read; `RowOrderedOnce` and `OrderIsTheCart`
follow. `StockAddsUp` and `OversoldOnlyWhenStale` need no condition: they hold
through every interleaving of checkouts, cancellations, edits and crashes.

### Refunds

`RefundsProofs` proves `TypeCorrect`, `DateIsKept`, `PaidIsSettled`,
`CeilingIsHeld` and `PayIsFollowed`. The first three rest on an invariant which
says that what an edit is about to write is dated if completed, and that a payment
status about to be written is a settled one. The last two rest on `SumsInv`: a
request that read what is still there writes an amount that fits beside the others
(`FitsInv`), and the payment status it is about to commit follows from the rows as
they will be (`PaysInv`). The sum read back inside the transaction, before the
other's commit, is why the second has to speak of rows nobody else sees yet.

### Purchasing

`PurchasingProofs` goes up in layers as well. `Inv` carries the types and the
references: `OpenFits` says that what an open transaction refers to is still
there, `Distinct` that no two of them write one bill or hold one material;
`PaidBillStays` and `UnitKeepsStock` follow. `FiguresInv` and `DecidedInv` say that
every row is made of whole figures and that what a request is about to write was
worked out from what it read. Then, each until a stale write: `StockInv`, that the
stock of a material is its last count and what its bills bought since, since an
edit takes back just what the bill had brought; `CostsFit`, that the average
cost and last price are those of the history, which a commit changes only for
the materials it has locked; `TotalsFit` and `SpendAddsUp`; `HomeInv` and
`RoomInv`, that a payment is for a bill of its own vendor and fits in what is
outstanding, unless the bill was changed under it. `StatementAgrees` needs no step
of its own: where every payment is for a bill of its vendor the rows are as
`LedgerFits` says, and of any such rows the ledger, the outstanding amounts
and what was paid on account come to one balance.

### Customers

`CustomerProofs` proves of `SignIn` `AttemptsBounded` and `OneSessionPerCode`. The
first is not inductive: a request that is about to count has compared already.
What is kept is that a code's attempts, together with the requests about to count
on it, are at most `MaxAttempts` plus the requests beside the first
(`AttemptsInv`). For the second, `SessionOf` says that a code not consumed has no
session, and that of a consumed one the session is in one live token or carried
by one request, never both. It also proves `OneDefaultAddress`, `ReviewIsEarned`
and `CustomerIsHeard`.

### Back office

`BackOfficeProofs` proves `CatalogueStaysWhole`, `MediaHasItsFile`,
`GrantsAreAsAsked`, `MarginIsTheNewest` and `ReportIsTrue`. Each invariant says of a
request in flight that what it found is still so, or that the write to come will
be called stale. Of a role it says that it never grants more than was last asked
for it, and no less unless an edit is between its calls or was stopped there. Of
cost sheets (`SheetsInv`), that a request whose `was` is still the revision has
the highest number of all, has picked exactly the active sheets, or has found the
newest of what a removal leaves. Of a report (`ReportsInv`), that the sums a
request carries are those of the orders it read, whose lines never change, and
that refunds stay within their order's total; if the delivered orders are still
those, the net revenue regrouped by order (`NetIsKept`), the costs
regrouped by line (`CostsAreLines`) and the days put together (`DaysAddUp`) give
the report.

Beside these it proves the types, and what they say of references and keys.
`CatalogueRefersToWhatIs`: no product or recipe refers to what is gone, whatever
any request has read, since each write is checked by its own query.
`PostsAreFound`: no two posts share a slug and none is public without a date. A
post being created is in no other request (`Apart`), so nothing it is about to
write can be changed or removed first; an edit that read a date, and so will set
none, finds the post still dated when it writes (`ContentJobFits`), since no
write takes a date away. The slug is checked again by the write itself.
For roles, the names are unique among those there are. `ServicesKeepTheirTypes`
puts all ten together: the service followed keeps its own invariant, with
`AddressesFit`, `ReviewsFit`, `SignInFits` and the tickets' from `CustomerProofs`,
and the nine others are left as they began.

### What is assumed, and what is only checked

Assumed are the named assumptions of the modules. Some say what kind of value a
constant is: amounts, counts, prices and quantities are not negative, a refund
is not nothing, a yield is not zero, an order has lines, `Value` is
additive, a variant is of a product, each request is some customer's, a paper has
a vendor, the seed begins with SUPER_ADMIN, names each role once and grants only
permissions there are. The DTOs, the schema and the seed
justify these. Others say that a bound is a number, or that requests are finite
where they are counted. TLC evaluates all of them in the runs.

Only model-checked: liveness (`CheckoutEnds`, `CancelledIsRestocked`), which is
beyond the prover. Every invariant and action property that a passing run checks
is also a theorem.

## Not modelled

Mail is sent after the fact, tried twice and given up; no handler's state depends
on its arrival. The application shell has no state. `prisma/seed-demo-content.ts`
fills a demonstration shop once. Lists, searches, paging, invoices and the counts
of the dashboard only read one row or one query at a time. Texts, names, phone
numbers, ratings, notes, attachments, reasons and expected dates are kept by the
code and decide nothing; so is the log of sign-ins. Recognising a file by its
bytes, its size limit and image conversion depend on the file alone. Payment
status FAILED is declared in the schema and assigned nowhere.

Nothing is claimed of two things the code leaves open. `addItem` of the cart
loses one of two clicks at once, and no document promises otherwise. The last
active admin can be removed or deactivated (`admin-users.service.ts`, `remove`),
even by themselves.
The rule for deleting a post is that of a recipe and is claimed there
(`CatalogueStaysWhole`); in `Content` it is an action without a property.

## Plan

Done: the order's life with its contract, checkout, refunds, purchasing, the ten
services, and the proofs above. What could follow:

* `Shop`: `Orders` composed with the stock of `Checkout`, if the state space
  allows it, with `RestockedOnce` and `StockAddsUp` stated across the two.
