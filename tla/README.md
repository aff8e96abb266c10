# Verification of the merchandising system

TLA+ models of the parts of this repository where several processes, retries
and restarts meet, TLC configurations that check them, and TLAPS proofs of
their most important properties for every value of the constants.

Paths below are relative to the repository; `svc` stands for `services/<name>/src`.

## 1. The system

Nine NestJS services, each with its own Postgres database (Prisma), talk in two
ways: synchronous REST or gRPC calls, and events on one RabbitMQ topic exchange
(`mms.events`) through durable queues, one per consumer
(`libs/shared/src/event-bus`). A handler is an async function; between any two
`await`s the handlers and requests of the same process interleave, and queues
have no prefetch, so the handlers of one queue overlap as well. Most operations
read a row, decide, and write it in a later statement without a lock.

| Event | From | To |
| --- | --- | --- |
| PurchaseOrderApproved | Procurement | Receiving |
| GoodsReceived | Receiving | Procurement, Inventory, Warehouse Operations, Financials |
| ItemSold | Retail Sales | Inventory, Sales Audit, Financials |
| ItemReturned | Retail Sales | Inventory, Financials |
| StockTransferred | Warehouse Operations | Inventory |
| StockLow | Inventory | Procurement |
| StockAdjusted | Inventory | Financials |
| DayClosed | Sales Audit | Financials |

### Components

For each: the state it keeps, its operations, what is hard about it, and what
makes it correct.

**Event bus** (`libs/shared/src/event-bus`). Durable queues, unacknowledged
messages. `publish` (after the caller has committed, no outbox), `handleMessage`
(acknowledge, or requeue once and then drop). Hard: redelivery while the first
handler still runs, loss between commit and publish, loss after the second
failure. Correct: consumers get each message at least once or it is dropped.

**Retail Sales, checkout** (`retail-sales/src/checkout`). POS transactions.
`checkout` reserves line by line over gRPC, compensates on failure, saves,
publishes ItemSold. Hard: partial failure at every point, a lost reply, a
restart between save and publish. Correct: a rejected cart holds nothing, the
stock of a saved sale is never given back.

**Inventory, reservations** (`inventory/src/stock`). Stock levels, reservations,
the journal of transactions. `reserve`, `releaseReservation`,
`consumeReservationForSale`, `recomputeVelocityAndMaybePublishStockLow`. Hard:
none of these runs in a transaction; check and increment are separate. Correct:
level and rows agree, a sale is taken once, nothing is promised twice.

**Inventory, movements and counts** (`inventory/src/stock`, `stock-counts`).
`applyGoodsReceived`, `applyStockTransfer`, `applyItemReturn`, `adjust`; counts
with `create`, `recordCount`, `submit`, `post`, `cancel`. Hard: duplicates are
looked for outside the transaction and nothing is unique behind the look;
`post` and `cancel` act on a status read earlier. Correct: each document moves
stock once; a posted count is posted once and stays posted. Master data,
valuation and reports are CRUD and queries.

**Procurement, purchase orders** (`procurement/src/purchase-orders`). Orders and
their lines, `ProcessedGoodsReceipt`. `create`, `submit`, `approve`, `markSent`,
`findByPoNumber`, `applyGoodsReceived`. Hard: requests check a status and write
it later; receipts write absolute totals computed from an earlier read. Correct:
only approved orders are received, totals count every receipt once, CLOSED means
received. Reorder suggestions are one row per StockLow; supplier performance is
a pure aggregation.

**Receiving** (`receiving/src`). Expected deliveries, goods received notes.
`record`, `create`, `recordScan`, `finalize`. Hard: a truck may be earlier than
the event of its order; two dock workers on one note. Correct: Receiving's
totals are what its final notes say; only final notes leave the service.

**Warehouse Operations** (`warehouse-operations/src`). Bins and their capacity,
putaway tasks, transfers and picks. Hard: capacity and promised quantities are
compared before they are reserved; StockTransferred is published before the
transfer is completed. Correct: no bin over capacity, no unit promised twice,
each transfer moves once.

**Sales Audit** (`sales-audit/src`). Day ledgers, daily closes, log entries.
`applySale`, `recordCount`, `explainDiscrepancy`, `close`. Hard: recount of a
closed day, two managers closing, late sales. Correct: each sale in its day
total once, no unexplained discrepancy in a closed day, one DayClosed a day.

**Retail Sales, returns and prices** (`retail-sales/src/returns`, `products`).
`processReturn` compares each entry with what remains, increments in a transaction,
reads again and marks the sale: other tills, a second entry for the line, an error or a
restart come between. Correct: never more returned than sold, a sale that is all back
is RETURNED. Prices and reports are pure or read-only.

**Financials** (`financials/src`). Inbox, journal entries, payable bills, sale
facts, payments. The consumer stores then processes, a sweep and a clerk retry,
payables pay. Hard: three kinds of workers on one event, lookups that fail,
restarts. Correct: each document booked once, bills and facts exist with their
entry, a refund reverses its sale. Reports are read-only.

**Directory** (`directory/src`). Staff, sessions, locations, lock-out counters in
memory. `login`, `me`, `changePassword`, `create`, `update`, `resetPassword`,
deactivation of a location. Hard: rights and the end of sessions are decided on a
row read earlier, two owners at it at once; sign-ins of one person overlap while the
password is hashed; a location is checked over the
network and deactivated afterwards. Correct: an ended session is never accepted
again, an owner remains, a store out of use is settled.

**Vendor Management** (`vendor-management/src`). Supplier records, delivery
records, an on-time ratio: CRUD and a pure aggregation.

**Frontends** (`frontends`, `libs/ui`). Nine Next.js applications of about
fifty screens. Each keeps the answers of its reads in component state, asks again
after its own calls, on a choice of the person, or every few seconds. Hard: the
answers of one read overtake each other, calls and reads cross, reads fail, other
people change the same data, and every page does this by hand. Correct: what is on
show belongs to what is chosen, contains what this page itself has done, and catches
up where the page polls.

**Shared sessions and flags, contracts, deployment**: no state of their own that
two actors change.

## 2. The modules

| Module | Models |
| --- | --- |
| `ReservationBook` | abstract: open, commit, drop and take reservations, each in one step |
| `InventoryStock` | Inventory's three reservation handlers, one action per database statement |
| `Checkout` | tills, the item-sold queue and faults around `InventoryStock`; implements `ReservationBook` |
| `CheckoutProofs` | proofs about `Checkout` |
| `Books` | abstract: documents booked and bills paid, each in one step |
| `FinancialsInbox` | inbox, workers, ledger transaction, payables, queues, faults; implements `Books` |
| `FinancialsInboxProofs` | proofs about `FinancialsInbox` |
| `PurchaseOrders` | Procurement's orders, requests and GoodsReceived handler |
| `GoodsReceivedNotes` | Receiving's expected deliveries and notes, on top of the orders it asks about |
| `Inbound` | both services joined by the two queues between them, with faults |
| `InboundProofs` | proofs about `Inbound` |
| `Sums` | facts about sums over finite sets, which the proofs below cite |
| `StockMovements` | Inventory's handlers of receipts, sales, transfers and returns, statement by statement, and adjustments, with the queue and its faults |
| `StockCounts` | stocktakes by users of two roles, on top of the levels `StockMovements` moves |
| `Warehouse` | bins, putaway tasks, transfers and picks, and Inventory's copy of the bins |
| `Distribution` | `StockCounts` and `Warehouse` joined by GoodsReceived and StockTransferred |
| `WarehouseProofs`, `DistributionProofs` | proofs about `Warehouse` and `Distribution` |
| `StoreDay` | returns, the ledger of a day and the daily close |
| `Directory` | sign-in, sessions, staff and locations |
| `Stores` | `StoreDay` and `Directory` joined by the deactivation of a store |
| `StoresProofs` | proofs about `Stores` |
| `ScreenKit` | what a screen is made of: reads, calls, and what is done with answers |
| `SalesScreens`, `StockScreens`, `OfficeScreens` | the screens of the nine frontends, one definition per component |
| `Screens` | the behaviour of any one of those reads with any call that touches it |
| `ScreensProofs` | proofs about `Screens` |
| `MCCheckout`, `MCFinancialsInbox`, `MCInbound`, `MCDistribution`, `MCStores` | small instances for TLC |

### How state and actions correspond to the code

Tables are variables named after their column or row (`onHand`, `allocated`,
`resv`, `entries`, `bills`, `order`, `note`, `expected`). A running request or
handler is a record of what it remembers between statements: `pc`/`at` of a till,
`con[c][d]` of one delivery of a message, `job`/`step`/`seen` of a worker of the
inbox, `desk`, `dock`, `intake` and `awaiting` in the inbound model. Each
statement that reads or writes shared state is an action; statements in one
`$transaction` are one action; code between two awaits belongs to the action of
the await before it. A value read early and used late is kept in the handler's
record, which is how stale reads are modelled.

*Checkout.* `CallReserve` .. `Publish` follow `checkout.service.ts` line by line.
The handlers `Reserve`, `Release` and `Consume` are disjunctions of their
statements. `ReplyLost` is a gRPC call that fails at the client while the handler
goes on; `RetailFails` is a restart of Retail Sales or an error outside the
`try`. `Deliver`, `Ack`, `Nack`, `ChannelLost` and `InventoryCrash` are the bus:
a message may be delivered again while its first handler is still running.

*Financials.* A worker is a consumer handler, a clerk's request or the sweep.
`Store` is `storeIfNew`, `Read`/`Plan` the processor and the plan with its
lookups, `Find`/`WriteNothing`/`WriteEntry`/`WriteConflicts` are the two halves
of `commit`, where the unique constraint on the source document decides.
`ScheduleRetry` and `Elapse` are the backoff, `GoDown`/`ComeBack` the services
looked up, `Fix` the person who repairs what an event was flagged for.
`FindOpenBill`/`PayBill` are the two halves of a payment.

*Inbound.* `CheckOrder`/`WriteOrder` are the two halves of submit, approve and
markSent; `ApplyRead`/`ApplyWrite`/`ApplySkip` of `applyGoodsReceived`, with the
unique note number as the guard of the last two. `AskProcurement`,
`FindExpected`, `SeedExpected`, `InsertNote` are the statements of a note's
`create`; `ScanRead`/`ScanUpsert` of a scan; `FinalizeRead`, `FinalizeTotal`,
`FinalizeCommit`, `Announce` of `finalize`. A message names its order, or its
note and the request that finalized it, because a note can be finalized twice; `twice`
names the notes to which a second request wrote FINALIZED.

*Distribution.* A document (receipt, transfer, return, sale, adjustment) has lines
that move places, a place being a product at a location; a handler of its message is
a `job` with a step per statement: `FindProduct`, `CreateStub`, `RaiseLevel`,
`WriteRow` for a receipt, which has no transaction; `FindReservation`, `MarkConsumed`,
`RaiseLevel`, `WriteRow` for a line of a sale, which has none either and is skipped when
its reservation is CONSUMED (`consumed`); `Look` and `Apply` for transfer
and return, whose look is outside their transaction. `lost` keeps what a handler moved
and broke off before it wrote the row, `torn` the lines of sales broken off behind the
mark. Counts are requests with one action per
statement (`FreezeLines` .. `InsertCount`, `UpdateLine`, `FindAdded`/`AddLine`,
`WriteSubmitted`, `CommitPost`/`TellPosted`, `WriteCancelled`). A `hand` is a
request or handler of Warehouse Operations: it asks, writes and tells Inventory in
separate steps. The last pick publishes StockTransferred, which is the message
`StockMovements` handles: the two services are composed through it and through
GoodsReceived.

*Stores.* `desk` is the request of a return, `job` a handler of ItemSold, `ask` a
request of the daily close, `admin` a request of the staff pages, `trying` the sign-ins
of a person past their read, which may overlap (`Tries`): each that fails is counted, so
the count can pass the limit by the others under way (`MostFails`). A return names
lines in entries, two of which may name one line; `ReadSale`, `CreateReturn`,
`LookAgain`, `MarkReturned`, `TellReturned` are its statements, and `BreakOff` is an
error or a restart of Retail Sales between any two of them (`cut`).
`AskClosePlace` of a location it reads as inactive asks nobody (`asks`) and is written
all the same; `unasked` says that such a write closed the store. Retail Sales' expected total is the difference of two sums read at
two moments. `Midnight` moves the business date: a sale counts for the day its
checkout started on in the ledger, and for the day it was written in Retail
Sales' own sum. `Restarts` of Directory lose the lock-out counters.

*Screens.* A read is described by the kinds of server data it asks for, its parts (a
`Promise.all` is served part by part), how answers are taken (`Fetched`: only the
newest request's, as in `usePagedList` and `useLoader`; `Loaded`: any), what it
depends on (`Chosen`), whether it is polled, and what a failed read leaves. A call is
described by what it changes and by what the component does with the outcome:
ask again, put the answer in place, clear, leave the page. `Screens` gives both
their behaviour once: `Choose`, `Poll`, `Serve`, `Answer`, `Fail`, `Edit` (somebody
else), `Click`, `Commit`, `Hear`. Data is a version per kind.
`Unchoose` takes a choice back without a request (`Optional` reads; a `ChosenLater` read
starts with nothing chosen). The callback of a call belongs to the render that was
clicked: `AskAgain` reloads for the choice of that time, except where a version counter
makes the effect of the newest render read. `Filled` puts an answer beside the other
kinds of a record and leaves those as they were, and a call may share the place where the
read's error is shown. `crossed` and `astray` say that what is on show is an older answer
than one shown before, or was asked for another choice. The reads of a screen
never look at each other, so a behaviour follows one read and one call that touches
it; the initial state chooses which, among all there are.

### What is abstracted

- Prices, amounts and payment sums: they match or they do not; a journal entry
  is known by its document, its event and the VAT split it used.
- One location for stock, one currency.
- Annotations nothing depends on: names, notes, discrepancy types, timestamps.
- Every SALE row lies in the velocity window.
- A query with an `include` reads its rows in one step, although Prisma may issue
  several statements for it.
- `findDue` returns every due event; the code takes 25 at a time.
- An order approved twice announces itself in one message, not two.
- A scan is of one unit.
- Volume and weight of a bin are one dimension; its location is not varied.
- What a sale does to `allocated` is in `InventoryStock`, not in `StockMovements`; a
  document there names a good at a place once.
- Staff have a role, a password that is right or wrong, flags and a session version;
  names, home locations, sign-out and the 12 hours of a token are left out. Two roles
  stand for six: one that may manage everybody and one that may be managed.
- A page's reads of several pages (`fetchAllPages`) are one read. Layout, forms,
  charts, exports, and which role sees which button are left out of the screens. So are
  the pauses of polling while a product is edited and once a count is no longer open.

A definition whose comment starts with *Mutant* is a plausible slip in the
definition below it. It is no part of the model; replacing the definition by it
makes the property named in `PROJECT.json` fail, which is how we know that the
property watches that code.

## 3. What the runs check

All runs allow deadlock: a behaviour may end with every till closed, every queue
empty, every bound used up or every page left.

| Run | Instance | Shows |
| --- | --- | --- |
| `checkout_normal` | 3 tills, 2 SKUs, lines of 1 and 2 units, no faults | `TypeOK`, `RejectedHoldsNothing`, `LevelsMatchReservations`, `LowStockReported`: all interleavings of three tills and their consumers |
| `checkout_faults` | 2 tills, up to 3 deliveries, two faults of any of four kinds | `SoldLinesStayHeld`, `SoldOnce`, `AckedSalesLeftStock` (but for torn lines), `BookSpec` (refinement of `ReservationBook`) |
| `checkout_live` | 2 crossed carts on scarce stock, one lost channel | `CheckoutEnds`, `SaleReachesStock` |
| `inbox_safety` | one receipt under two event ids, consumer, sweep, clerk, two payers, one fault, one flagged event | `TypeOK`, `BooksAgree`, `PaidOnce`, `BooksSpec` (refinement of `Books`) |
| `inbox_live` | a receipt and a balanced day close, one restart, one outage | `PublishedIsBooked`, `EventSettles` |
| `inbound_docks` | an owner and a manager, an order of two units above the threshold, one note and two dock workers, both of whom may finalize it | `TypeOK`, `NothingReceivedUnapproved`, `ClosedMeansReceived` |
| `inbound_receipts` | an order of two units, two notes, two handlers at a time, one fault of any kind | `NeverMoreThanArrived`, `ExpectedTotals`, `ClosedMeansReceived` |
| `distribution` | twelve scenarios: a receipt, a return and a sale under two failures, a count by two beside a sale and beside an adjustment, a count by one beside a receipt and beside a sale with a restart, a transfer picked by two under a failure on either side and by one under both, two transfers, two putaways from one note | `TypeOK`, `MovedOnce`, `CountCorrects`, `JournalExplains`, `RoomIsAccounted`, `PromisesAreKept`, `CopyIsRight`, `TransfersInOrder` |
| `store` | seventeen scenarios: three returns of one sale, two with an error or restart between their statements, one that lists a line twice beside another, two sales over midnight, overlapping handlers with two mishaps, two people counting, explaining and closing, two owners administering each other, wrong passwords in two sign-ins at a time, a newcomer, a store taken out of use by one owner or by two during its day | `TypeOK`, `SalesCountedOnce`, `ReturnsFitTheSale`, `ClosedOnItsCount`, `SessionsTellTheTruth`, `OwnerRemains`, `SettledBeforeClosed` |
| `screens` | every read of 44 screens with each call that touches it (79 pairs), two requests in flight, two changes or clicks, one new choice or a choice taken back, one failed read | `OwnWritesShown`, `ChosenIsShown`, `PolledCatchUp` |

Two runs show a disagreement between the code and what it says of itself; each
checks one property and ends in a counterexample. Section 5 lists more of them.

| Run | The code says | What happens |
| --- | --- | --- |
| `checkout_oversell` | `inventory.proto`: "Atomically checks availability and reserves stock" | two tills read the level before either increments; both get the last unit |
| `inbox_refund` | D-14, a refund reverses the VAT split of its sale | return and sale travel on two queues; the refund is planned before the facts of the sale exist |

### Why the bounds are enough

The properties relate at most two carts, two workers on one document or two
receipts of one order, so two of each (three tills in `checkout_normal`) already
produce every conflict between them. One fault puts each race into its worst
state; `checkout_faults` allows two because a message is dropped only after two
failures. `Deliveries`, `MaxScans`, `MaxRetries`, `MaxOutages` and `MaxFaults` are
guards on counters, named as bounds in the modules. The quantities 1 and 2
distinguish a partial from a full allocation, and a GOOD from a DAMAGED unit
distinguishes the two lines a note can hold for a SKU. Symmetry is used only in
runs of safety properties, over sets whose elements play one role.

`distribution` and `store` bound what happens in one behaviour by a *plan* chosen in
the initial state: a plan names the documents, people, faults and requests of a
scenario, and `Within` keeps the behaviour inside it. The plans together are one
instance, so what a scenario leaves out is idle, not assumed away: the guards of the
actions are the code's. Each plan puts together the two or three actors a property
relates; pairs that share no table (a putaway and a count, a return and a
password) are left apart.

`Entries` and `Tries` number what one request lists and the sign-ins of one person that
overlap; two of each are enough for an entry compared without the other and for a failure
counted past the limit. An order of two units tells a double count of one from a full
delivery, which is why both runs of `Inbound` have one. Two workers at one note and two
notes by one worker are checked apart; their mixture is left to the proof.

Several properties except rows that were written over or broken off (`stale`,
`crossed`, `raced`, `mixed`, `overlapped`, `twice`, `torn`, `cut`, `unasked`) or a line
listed twice: the code reads a row, decides and writes later
without a lock, and two requests that cross on one row break the property. The
history variables say exactly which crossings these are, and the property claims
everything else: any other interleaving, redelivery, failure or restart. Section 5
says what happens in the excepted cases.

In `screens` two requests in flight are enough for every reversal of two answers,
and one choice for every answer that comes for an earlier one. Excused are an error
on show, a blank, and in a component that shows any answer one that came after a newer
one (`crossed`) or was asked for another choice (`astray`); that neither happens in
a component that keeps only the newest answer is part of `ChosenIsShown`.

`ExpectedTotals` is claimed for one dock worker; with two finalizing one note
it does not hold, since `finalize` is not guarded against a second one (section
5). `ClosedMeansReceived` compares RECEIVED with what the final notes hold,
not with Receiving's counter, and excepts an order one of whose notes is in `twice`. `SoldOnce` is claimed without lost channels, where two handlers of one message may
overlap.

### Fairness

Only the liveness properties assume it. In `checkout_live` and `inbox_live`: weak fairness of every started request,
handler, delivery and acknowledgement: Node runs every ready callback and the
broker delivers to a connected consumer. Weak fairness of the sweep's timer, of
a backoff running out and of an outage ending. Customers, clerks, payers,
repairs, publications and faults need not happen. No strong fairness is used there.

In `screens`: weak fairness of the interval of `usePolling`, which fires for ever
while the page is open and visible, of the service's work on a call, and of the
oldest request being served and answered. Strong fairness of the newest request being
served and answered and of a call's answer being heard: a request
is not for ever overtaken by the next poll before its answer comes, that is, answers
take less than the interval, though not every time. Without it a list that keeps only
the newest answer and polls every five seconds would show nothing when every answer
took six, which is what that code does. Choices, clicks, other people's changes and
failures need not happen.

## 4. What is proved

With TLAPS, for any carts, tills, events, workers, orders, notes, handlers, bins,
documents, counts, people and any number of faults, from the named assumptions on
the constants in the modules. `CartAssumption`, `NumbersAssumption`,
`FaultAssumption`, `EventAssumption`, `WorkerAssumption`, `BoundAssumption`,
`OrderAssumption`, `ScanAssumption`, `InboundAssumption`: checkouts and notes are
finite in number, carts are not empty, bounds are numbers, events on one document are of one kind, names of workers
differ. `DirectoryAssumption`: somebody is an owner when the service starts, which
`bootstrapOwner` of `seed.service.ts` sees to. `DocumentAssumption` and
`CountAssumption`: places, documents and users are finite in number, a document has one line
for a place and condition, and a line of a receipt in good condition brings units.
`WarehouseAssumption`: what is stored at the start fits, and names of bins and tasks
differ. `DistributionAssumption`: a transfer has two lines, one that takes its
quantity out of a location and one that puts it into another. `StoreDayAssumption`:
sales, lines and returns are finite in number, a sale has lines, and a return wants
units of lines of one sale. The theorems about `Screens` need no assumption: the
tables of the screens are definitions, and what the proof needs of them is proved of
each.

**Checkout** (`CheckoutProofs`): `TypeCorrect`, `SoldStaysHeld`, `ImplementsBook`,
`RejectedKeepsNothing`, `LevelsAlwaysMatch`, `AckedSalesLeave`, `LowIsReported`,
`EachSoldOnce`. `SoldLinesStayHeld` alone is not inductive: it says nothing of a release
handler that has already read its row. The invariant ties the ends together. A released
row has a release handler past its read (`RowsOfHandlers`); such a handler
belongs to a checkout that gave up before saving (`ReleasesAreAbandoned`); a
checkout saves only after its last line (`CartPlaces`, `SavedPlaces`), when each
line was granted (`AskedInOrder`); consumers work only for saved sales and inside
the cart (`ConsumersOfSales`, `DeliveriesInCart`). From it, each step maps to a
step of the atomic book or leaves it alone.

The levels rest on a second invariant, `LInv`. A row and the level it stands for are
written by separate statements, so between them the sum over the rows is not the
level: `LevelsInv` counts a line as allotted or gone by its row *and* by how far its
handlers are (`AllottedLines`, `GoneLines`), and then holds at every step, in any
interleaving. `ConsumersGetOn` says a delivery has taken the lines before the one it is at, and
`TakenOnce` that one delivery of a message works at a time and only on lines still ACTIVE;
that fails when a closing channel redelivers under a handler that still runs, which is why
`EachSoldOnce` and `AckedSalesLeave` hold while the system is `Calm`; the latter under any
restart and failure, but for `TornLines`, whose mark is written and whose handler is
gone. `NothingFailed`, `GivenUp` and `LowInv` hold until something fails: a checkout that gave up releases its earlier lines, and the last
consumer to count the sales of a product has seen all of them.

**Financials** (`FinancialsInboxProofs`): `TypeCorrect`, `BookedOnce`,
`BooksAlwaysAgree`, `PostedMeansBooked`, `AckedMeansStored`, `BillsPaidOnce`,
`ImplementsBooks`. The invariant adds what a worker remembers: its event is stored
once it is past storing, and an entry it found is still there (`WorkerInv`); the
batch of a sweep holds stored events (`BatchInv`); a bill a payer found open
exists (`PayerInv`); rows of the ledger belong to the document of their event
(`LedgerInv`).

**Inbound** (`InboundProofs`): `TypeCorrect`, `UnloadedMeansApproved`,
`ClosedIsReceived`, `OnlyFinalCounted`, `CreditIsBacked`, `ReceivingCountsItsNotes`. Statuses are written over each other here,
so the argument does not rest on the order of statuses but on what only grows
(`Grows`): an approval is never taken back, a note keeps its order, a final note
stays final. `OrdersInv` ties an open status to an approval by the right role;
`DeskInv`, `DockInv`, `IntakeInv` and `MailInv` say that what requests, dock
workers, handlers and messages remember was true when they read it and, being
something that only grows, still is; a handler that read CLOSED read totals that
were complete, so the sum it writes is complete too. `FinalInv` is the half of
`ClosedIsReceived` that is about RECEIVED: what Receiving has counted of an order, and what
a dock worker read of that, is on final notes (`Backed`, `DockBacked`) unless one
of them is in `twice`; with two workers and any number of notes, totals may fall behind
the notes but not run ahead of them.

The totals need two more invariants. Procurement writes totals back from old reads, so
what it credits is no function of what was counted; but lines of a note only grow and
a counted note stays counted (`Climbs`), so whatever was read is a lower bound of what
the counted notes say now (`CreditInv`: events and dock workers hold at most the lines
of their note, `LowLines`; a handler's read is at most the counted total, `LowRead`),
and one more note is added only when it was not counted. Receiving's own totals are
exact as long as one dock works (`ExpectedInv`): then the note a worker is at is still a
draft and its lines and the totals are what he read (`DockReads`). With two docks they
are not, see section 5.

**Sums** (`Sums`): the value of `SumFunctionOnSet` when a term changes, is added or
is removed, for two functions that agree, and its bounds. The fold it is defined by
is a recursive function over subsets, and induction is not available here; each fact
is proved by taking a smallest set on which it fails, which a finite set has because
its subsets are well founded under inclusion.

**Stores** (`StoresProofs`): `TypeCorrect`, `EndedSessionsStayEnded`, `AnOwnerIsLeft`,
`ClosedStoreIsSettled`, `EachSaleCountedOnce`, `ReturnsKeepToTheSale`,
`DaysCloseOnTheirCount`. A session is as old as its version. The invariant says of
each session that its version is at most its person's, below it once the session has been
ended, and that with equal versions session and row say the same role
(`SessionInv`); and it says the same of what a sign-in or a request read earlier and
will write from (`TryingInv`, `UpdateInv`, `AdminInv`), unless two writes crossed on the
row. `ThrottleInv` bounds the failures: those counted past the limit are of sign-ins that
had begun before it was reached, and with those still under way they are fewer than
`Tries`. That an owner remains rests on who may write: a request that takes an owner's
rights away was asked by another owner, whose row still says so. `HeardInv` says of
the two answers a location's deactivation waits for that they are still true, or
that something came late; a request that asked nobody has no answers, and its write is
the one exception (`unasked`).

The day of a store has an invariant of its own, `DayInv`. `SaleInv`: a message is on
its queue only for a saved sale, a handler that is about to acknowledge has its sale applied,
and the ledger is the sum over the applied sales. `ReturnInv`: a till about to
write saw room for each entry, what is back is the sum of the entries written, and refunds
stay within half a cent of the line's share for each entry (`ShareOfEntries`); `crossed`
names the lines on which another till wrote in between, and a line that one request
names twice is excepted as well. A sale whose last unit is back is RETURNED unless a
request that saw it so runs or was cut off before the mark. A count remembers the sums
it asked for, and the day has not fallen below them since (`CountInv`, `AskInv`); unless
somebody wrote over a record he had not read, a record is explained before it is closed,
and the log of a CLOSED day ends with its count, once (`CloseInv`).

**Warehouse** (`WarehouseProofs`): `RoomStaysAccounted`, `PromisesStayKept`,
`CopyStaysRight`. Every hand reads, decides and writes in separate steps, so the
invariant is about what hands remember: as long as nobody else touched the bins,
tasks and transfers a hand works on (`Apart`), what it read is still so (`View`, by
operation). Room is a sum over tasks and over goods, promises one over picks; each
step changes one or two terms of them. `TaskRows` and `TransferRows` keep rows and
hands together: a task is in a bin as crossed as itself, an inserted transfer is
promised as its picks say.

**Distribution** (`DistributionProofs`): `DistributionTyped`, `AnnouncedMovesOnce`,
`LevelsAreExplained`, `CountsCorrectTheBooks`, `TransfersKeepTheirOrder`.
`BooksInv` ties the journal to the handlers: which rows a document has follows
from the steps of its handlers and from its message, unless two overlapped. For a sale
that is `SalesInv`: a marked line is in the books, still handled, or torn (`MarkInv`),
moved at most once (`OnceInv`), and not written and broken off both. `BalanceInv` is the
balance: on-hand is the opening plus the journal, plus what handlers of receipts and sales
moved and are still to write down, plus what they broke off with (`lost`). `CountsInv`
says of an open count that a line nobody disturbed still differs from the books by
what they were wrong by when it was frozen, and of requests that what they read of the
count is so unless it was written over; `ToldInv` balances what Financials was told and is about to be
told with what counts moved; `AnnouncedInv` that what a transfer takes it also puts.
With `HouseInv` of the warehouse these are inductive together: a transfer is applied
only if announced, and announced only when picked.

**Screens** (`ScreensProofs`): `OwnWritesAreShown`, `ChosenStaysShown`. The first half is
about the tables: no call of any of the 44 screens changes what a read of it shows
without asking again, filling or clearing it, or leaving the page, unless the read is
polled (`PanesAnswer`, from a lemma for each screen with calls); and a component that
keeps the newest answer only never clears what it shows. The second half is about time. A request is fresh while its answer will be shown and is not
overtaken (`Fresh`). If any request is fresh then the last one is, it is for what is
chosen now unless it is stray, and it is sure to bring what the page has been told, since it was asked, or is still to be
served, after that (`AskedInv`, `Current`); if none is, what is on show has it
(`ShownInv`, `Settled`), for what is chosen unless it is astray. A component that keeps the
newest answer only has dropped every request but the last, and that one is not stray
(`NewestInv`).

Only model-checked: liveness, which is out of reach of the prover, as is ENABLED
(`PolledCatchUp` and the other leads-to properties of section 3). Every invariant a run
checks is also a theorem; those about faults are stated with the same
premise as in the run (`faults = 0`, `Calm`, `OneDock`).
`PostedIsBooked`, `AckedIsStored` and `CountedNotesAreFinal` are proved
and not checked by a run any more; `OneEntryPerDocument` is a part of `BooksAgree`.

## 5. What the models say beyond the runs

- `finalize` of a goods received note is not guarded against a second finalize
  that read the note while it was a draft. Procurement is safe from it (the note
  number is unique there); Receiving's own expected totals are not, and say RECEIVED of an
  order of two of which one arrived, though its `schema.prisma:64-65` calls them the
  "running total across finalized GRNs" of "everything that physically arrived".
- `approve` and `markSent` write over whatever the status has become; an order
  can be CLOSED and then APPROVED again. Safe for the properties proved, since an
  approval was given and totals are kept.
- GoodsReceived, PurchaseOrderApproved and ItemSold are published after the
  commit with no outbox: a restart in between loses them.
- A reservation whose reply is lost is not known to the compensating loop and never
  expires (`Checkout`: `ReplyLost`); `inventory/prisma/schema.prisma` says a
  reservation is resolved by its sale or by being abandoned.
- Inventory marks a reservation CONSUMED, takes the unit from the level and writes the
  row in three statements, and a redelivery skips a line that is marked: an error or a
  restart in between loses the decrement or the row for good, and the sale is acknowledged
  with its unit still on hand (`stock.service.ts:414`: "decrease stock on ItemSold").
  `AckedSalesLeftStock`, `MovedOnce` and `JournalExplains` except exactly these lines.
- Two receipts of one order handled at once both read the totals; the later write
  drops the other delivery (`Inbound`), though `procurement/prisma/schema.prisma`
  calls the column a running total of everything that arrived.
- Two handlers of one transfer or return that overlap both find nothing and both
  apply it; a receipt redelivered after a failure raises the earlier lines again,
  without a row for what the first attempt did not get to write (`StockMovements`).
- Two managers posting one count apply its variances twice; a cancellation written
  over a posted count leaves a cancelled count that moved stock (`StockCounts`).
- Two hands assigning into one bin exceed its capacity or lose room; two transfers
  created at once are promised the same units (`Warehouse`).
- Tills returning one line at once, or one request that lists a line twice, give back more
  than was sold (`StoreDay`), though `returns.service.ts:21-22` promises at most the quantity
  sold. A return that breaks off after its
  increments leaves a sale COMPLETED with all its lines back, and no ItemReturned.
- A recount crossing an explanation or a close can leave a CLOSED day whose log
  tells of another count, and two managers closing at once write two log entries
  (`StoreDay`).
- Crossing updates of one person can leave a session valid that an update ended, and
  two owners can deactivate each other (`Directory`).
- Wrong passwords sent at once all pass the lock and are all counted, past the limit;
  they are bounded only by how many overlap (`Directory`).
- A deactivation that read the location as inactive asks nobody, and closes a location that
  was reactivated meanwhile with stock or open days (`Stores`: `unasked`).
- A plain load of a page shows an answer to an earlier choice if it comes last, until
  the next read (`Screens`, reads of the "any" kind). The same happens without any
  overtaking when the choice changes while a call runs: its callback is the old render's and
  reloads for the old choice (warehouse `bins/page.tsx:57-64`, `returns/page.tsx:107` of the
  till), and when a transaction is deselected while it is still being fetched
  (`returns/page.tsx:50-53`).
- A recount answered after the date was changed puts the old day's close beside the new
  day's lines, and clears an error of the new day's read (`close/page.tsx:56-63`).

## 6. Not modelled

- Reorder suggestions, suppliers, sales and financial reports, stock movement and
  valuation reports: one row per request, or aggregates that only read.
- Price lists and price arithmetic: upserts of one row, and a pure function of it.
- The cart of a till, forms, tables, charts, exports and layouts of the frontends;
  which role sees which button.
- Creation of bins, locations and registers, names and home locations of staff.
- Signing and expiry of tokens, feature flags, health endpoints, contracts,
  deployment.

## 7. Plan

All components of the plan are modelled and checked, and every invariant that a run
checks is proved. What is left to prove, in this order:
1. The action properties: what a step may never do, from the invariants above.
2. That the premises are needed: for each of `Calm`, `OneDock` and the crossings
   in `Stores` and `Screens`, that a step outside the premise is the only way to lose
   the property.
