# A TLA+ model of the RemoteOrder server

The RemoteOrder server keeps the stock, the debts, the prices and the orders of a trading company:
documents bring goods into warehouses and take them out again, first-in first-out, payments are
allocated to the documents that are owed, price documents set the prices of products, and mobile
clients push orders. Every document can be posted, unposted and edited. This directory models that
core in TLA+, checks it with TLC on small instances and, with TLAPS, proves for instances of every
size what TLC checks, all but liveness.

## The system

All state lives in PostgreSQL. Each HTTP request runs one handler (Express), most of them in
one transaction at the default isolation level, READ COMMITTED. There is no other shared state but
the pool of connections, so components interact through tables, row locks, foreign keys and that
pool.

| Component | State (tables) | Operations | What makes it correct |
|---|---|---|---|
| Inventory (`services/inventoryService.ts`, `controllers/inventoryController.ts`) | `ProductBatch` | `addStock`, `deductStock`, `returnStock`, arrival | FIFO; no batch is taken below zero; all or nothing |
| Goods receipts (`services/goodsReceiptService.ts`) | `GoodsReceipt`, items | create, update (also when POSTED), post, unpost, delete | batches agree with the lines; sold goods are not lost |
| Buyer returns (`services/buyerReturnService.ts`) | `BuyerReturn`, items | create, update, post, unpost, delete | same |
| Realizations (`services/realizationService.ts`, `routes/realization.ts`) | `Realization`, items, `RealizationItemBatch`, `Order.status` | create, from order, edit, post, unpost, delete | a POSTED sale holds its goods, once; unpost gives all back |
| Supplier returns (`services/supplierReturnService.ts`) | `SupplierReturn`, items, `SupplierReturnItemBatch` | create, update, post, unpost, delete | same |
| Bulk reposting (`services/documentRepostingService.ts`, `middleware/lockMiddleware.ts`) | `DocumentLock`, all documents | unpost everything, post it again by date | every document restored or nothing changed; nobody else edits meanwhile; lock released |
| Finance (`routes/finance.ts`) | `CashTransaction`, `PaymentAllocation`, `paidAmount` | create, edit, delete with FIFO allocation | paid = sum of allocations, at most the amount |
| Price documents (`controllers/priceDocumentController.ts`, `services/priceDocumentService.ts`) | `PriceDocument`, `PriceJournal`, `Product.prices` | create, edit, copy, apply, reset | the journal knows every price; other prices untouched |
| Sync (`routes/sync.ts`) | `Order`, `OrderItem` | pull, push, full | success means stored; one set of lines |
| Administration (`routes/admin.ts`) | `Order`, `Product` | create, edit, delete | lines, prices and journal agree |
| Reports (`routes/reports.ts`) | none | stock balances, inventory movement, sales, reconciliation act, cash flow | agree with the tables and with each other |
| Document numbers (`utils/docNumberGenerator.ts`) | none | COUNT + 1 on a second connection | unique numbers; no pool exhaustion |
| Auth, users, counterparties, schedule, picking list | own tables | CRUD, reads | independent single statements |

Hard behaviours: concurrent handlers on the same rows (status read before or without a lock, check
and write in separate statements, different lock orders), failures that roll back half-done loops
or, where there is no transaction, leave them half done; long sequences of post / edit / unpost
that shift quantities between batches; cascades of foreign keys that delete another document's
rows; JSON values that are read, changed and written back as a whole; the system lock of
reposting across a stop of the server; calls that need two connections at once. They are listed
line by line under `hazards` in `PROJECT.json`.

## Modules

| Module | Models |
|---|---|
| `Quantities` | sums of quantities (`Total`) and of signed amounts (`Net`), tables as functions from ids to rows |
| `Fifo` | what `deductStock` and the allocation of a payment may take: the relation `FifoTake` |
| `StockLedger` | all four kinds of documents and the batches, one action per committed call |
| `StockReports` | the reports on stock, over `StockLedger` |
| `AtomicPosting` | the promise of post and unpost to one caller: one step or a refusal |
| `PostingLoop` | the loops behind them, one action per query; implements `AtomicPosting` |
| `ConcurrentPosting` | several clients, row locks, READ COMMITTED, failures, deadlock detection |
| `Repost` | bulk reposting, its lock, and the calls that come in meanwhile |
| `Payments` | cash transactions and allocations, statement by statement |
| `FinanceReports` | the reports on money, over `Payments` |
| `Prices` | price documents, product prices and the journal |
| `Orders` | push, full sync and administration of orders over a pool of connections |
| `QuantitiesProofs` | theorems about sums |
| `StockLedgerProofs` | theorems about `StockLedger` and `StockReports` |
| `PostingLoopProofs` | theorems about `PostingLoop`, and that it implements `AtomicPosting` |
| `ConcurrentPostingProofs`, `RepostProofs`, `PricesProofs`, `OrdersProofs` | theorems about the module they are named after |
| `PaymentsProofs` | theorems about `Payments` and `FinanceReports` |
| `MC...` | values of constants and symmetry sets for TLC |

**StockLedger.** `inbound` holds receipts and buyer returns, `outbound` realizations and supplier
returns, `ProductBatch` the batches, `deducted[d][b]` the rows of `RealizationItemBatch` /
`SupplierReturnItemBatch` added up per document and batch, `orderStatus` the status of orders. An
action is a call that commits: its guards are the code's checks, and a call that throws changes
nothing, so it is not an action. The lines of an outgoing document are added up per product
(`PostingLoop` shows that this is what the line-by-line loop amounts to); lines of an incoming
document are kept apart, because each becomes a batch and `update` of a posted receipt merges them.
A batch's warehouse is its document's (`COALESCE` in `deductStock`); an arrival has none and can
never be sold. Foreign keys are part of the actions: deleting batches or lines deletes the rows
that point at them (`CascadeDeleted`). No handler and no column refuses a negative quantity
(`AddArrival` refuses 0), so incoming lines have quantities of either sign: one that is negative
makes a batch that is negative from the start, which `quantityLeft > 0` in `deductStock` never
selects. An outgoing line of 0 or less asks for nothing there and moves nothing; outgoing quantities
are naturals. Left out: prices, amounts, profit, comments, numbers.

**StockReports.** Adds `saleDate`, the date of an outgoing document, which posting ignores and
the reports rely on. `StockBalance`, `MovementEnd` and `SalesQuantity` are the queries; none reads
`quantityLeft`, and the last one adds up lines where the others add up rows, which is why their
agreement is worth checking. Lines and rows part where a buyer return is unposted whose goods
were resold, as `SalesAreMoved` says, and would for an outgoing line below zero, which the sales
report subtracts and posting ignores.

**PostingLoop / AtomicPosting.** A document with a sequence of lines and a set of batches. `post`
selects the batches of a line in date order (any order among equal dates, and it may differ from
line to line), takes the minimum of what is missing and what is left, goes on, and commits or
throws; `unpost` returns row by row. Any query may fail, which rolls back. The refinement maps
`held[b]` to the sum of the committed rows of `b`. The model showed that with two lines of one
product two batches of the same date may both be left split, which is why `OldestFirst` says
nothing about batches of equal date.

**ConcurrentPosting.** A client's call is a record `txn[c]`: operation, document, what it has read,
which rows it still has to lock and which it holds. A plain SELECT never waits; `FOR UPDATE`, UPDATE
and DELETE wait for the holder and look at the row again. Writes are applied at COMMIT, from what
the call *read* earlier, so a missing lock shows as a lost update. Transactions may fail at any
point, and PostgreSQL breaks circles of waiting. The lines of a receipt are read in a step of their
own (`ReadLines`), before post waits for the receipt's row. One product, one warehouse, one line per receipt;
a receipt is named by its date, which is also the FIFO order. Buyer returns (same unlocked
status check as receipts), deletes and the `Order` row are left out. PostgreSQL itself (locks,
cascades, deadlock detection, fresh ids) is modelled from how the code uses it.

**Repost.** A reposting `run[p]` reads the lock, sets it (two autocommitted statements), selects
the documents its filters name, unposts them, posts them again by date and kind, and commits;
the `finally` block unlocks, after a refusal too; its UPDATE may fail, which is only logged and
leaves the system locked (`UnlockFails`). What it has written is invisible until COMMIT
(`mine`, `dropped`). A call on a realization passes `lockMiddleware` in one action (`Admit`) and
does its work in a later one (`Serve`), so a call can be admitted before the lock and served in the
middle of the run; supplier returns never ask (`ServeReturn`). `Stop` is the server stopping and
starting again: the transaction is gone, the lock row stays. Documents are of one unit: an
incoming document is a batch, an outgoing one points at the batch it took. A price document
has no stock; that it is applied in its place in the order is what matters here, what applying
does is in `Prices`.

**Payments.** A call is a transaction in progress: `delta[d]` is what it has added to `paidAmount`
of `d`, `added` and `dropped` its allocations; COMMIT makes them visible. `paidAmount` is updated
in place (`paidAmount = paidAmount - x`), under the row's lock, while the allocations of an edited
transaction are read without one. The documents change underneath: posting, unposting and editing
never look at what is paid. `OneCallPerTransaction` is an assumption about users, not a lock in the
code: nobody edits or deletes a transaction while another call does. Set it to FALSE and TLC
violates `PaidIsAllocated` (two edits both revert the same allocations).

**FinanceReports.** The reconciliation act and the cash flow as operators over the tables of
`Payments`. Opening balance and movements come from different queries of the code and are
different operators here. Amounts are signed: a document or a payment is worth a positive or a
negative amount to a counterparty, zero included, and `Net` adds them up.

**Prices.** A product's prices are one JSON value. Applying a document reads it without a lock and
writes it back in one transaction; creating and editing a product are statements that commit one
by one, so a failure leaves prices the journal does not know (`unlogged` records for which).
A document may be edited and applied again however often (the code's status checks are commented
out). Bulk reposting resets a document first: it deletes the journal entries whose `createdAt` is
the document's, but the `createdAt` of an entry is the *date* of the document that wrote it. The two
coincide when a document got no date, or is a copy, and was inserted within the same millisecond
(`Inserted`), or when a date was given that happens to be such an instant; so a reset may delete
nothing, its own entries, or those of another document. `forgotten` records the prices it took from
the journal. Time is in milliseconds, each call has one of its own. A reset alone is
`resetDocument`, one before the document is applied again is part of that call's transaction
(`gone`); a run over several documents is modelled document by document.

**Orders.** `order[o]` is the JSON list of lines in the order's row, `rows[o]` the `OrderItem` rows,
each marked with the call that wrote it. The writers are `/sync/push` (INSERT, UPDATE, DELETE), the
office (create, edit, soft and hard delete), the creation of a realization from an order, and
`/sync/full` with several changes in one transaction, whose errors are caught change by change.
`held` counts a call's connections; a document number and the final read of a full sync need a
second one. `pool` has no timeout in the code, so waiting for a connection has none here. After a
statement of a full sync has failed, each later one fails, too; an INSERT that names the table
executes none (`Silent`) and is still answered with success.

## Runs

| Run | Checks | Shows |
|---|---|---|
| `ledger_receipts` | `TypeOK`, `StockConserved`, `ReceiptAccounted`, `SalesAreMoved`, `SoldStockSurvives` | editing, posting and unposting a receipt around sales keeps stock accounted for, no document takes a batch below zero, and the sales report shows what was taken |
| `ledger_returns` | `HoldsAtMostItsLines`, `StockConserved`, `BalanceIsStockLeft`, `MovementEndsInBalance` | two warehouses, both kinds of incoming documents, a return to the supplier: round trips, and the stock reports |
| `ledger_buyer_return_unpost` | `PostedSaleCovered` (violated) | unposting a buyer return strips a POSTED sale of its goods |
| `posting_loop` | `GoodsMoved`, `ImplementsAtomic` | the loops implement the atomic FIFO step |
| `concurrent` | `TypeOK`, `TakesOnce`, `SoldQuantityKept`, `PostedReturnKept` | the row locks that are there suffice |
| `concurrent_live` | `EveryCallReturns` | no posting call waits forever |
| `payments` | `TypeOK`, `PaidIsAllocated`, `SpentOnce` | no revert and no allocation is lost or made twice |
| `finance_reports` | `PeriodsJoin`, `BalanceIsOpenDebt` | reports of adjacent periods fit together and agree with the allocations |
| `repost` | `TypeOK`, `SoldOnce`, `RepostRestores`, `LockReleased` | a reposting restores every document or changes nothing, sells no unit twice, and gives the lock back unless the UPDATE that does so fails or the server stops |
| `prices` | `TypeOK`, `EveryPriceJournaled` | every price is in the journal unless the call that set it failed or a reset deleted the entry |
| `orders` | `TypeOK`, `OneSetOfRows`, `PushedIsStored`, `EveryCallReturns` | overlapping and retried pushes leave one set of lines, success means stored, and calls wait for ever only when all connections are held by calls that wait for a second one |
| `orders_full_sync` | `FullSyncedIsStored` (violated) | a full sync reports success for an order it has not stored |

The two violated properties are findings: the code does something else than a comment beside it
says (`findings` in `PROJECT.json`).

### Counterexamples

More configurations keep behaviours of the code that a reader should know of: each states
what one could wish, and `tlc -config <file> <module>` prints how the code departs from it.

| Configuration | Module | Property | The behaviour |
|---|---|---|---|
| `LedgerEditedReceipt.cfg` | `MCStockLedger` | `UnsoldReceiptUnpostable` | an edited receipt cannot be unposted even when its sales are |
| `ConcurrentDoublePost.cfg` | `MCConcurrentPosting` | `ReceiptPostedOnce` | a receipt can be posted twice at once |
| `ConcurrentReceiptUnpost.cfg` | `MCConcurrentPosting` | `PostedSaleCovered` | a sale can slip between check and DELETE |
| `ConcurrentReceiptLines.cfg` | `MCConcurrentPosting` | `PostedReceiptCounted` | an edit that overtakes the posting of a receipt changes its line and not its batch |
| `ConcurrentEdit.cfg` | `MCConcurrentPosting` | `PostedRealizationKept` | an edit can overtake the posting of a realization |
| `RepostLateCall.cfg` | `MCRepost` | `LateCallKeepsItsUnit` | a sale admitted before the lock is served in the middle of the run and loses its goods |
| `RepostTwice.cfg` | `MCRepost` | `LockCoversRun` | with two repostings, the one that was refused unlocks the other |
| `PricesApply.cfg` | `MCPrices` | `OnlyNamedPrices` | applying a document writes back an old price of another type |
| `PricesReset.cfg` | `MCPrices` | `ResetTakesOwn` | resetting a document leaves its entries in the journal, or deletes another document's |
| `OrdersPool.cfg` | `MCOrders` | `PoolSuffices` | with as many calls that need a second connection as the pool has connections, they wait for each other for ever |

### Bounds

`ledger_receipts` has one receipt with up to two lines over two products (so a product can
have two batches, and a line can be dropped or added), three batch ids, one realization, one order,
incoming quantities -1 and 2 and outgoing ones 1 and 2 (so a batch can be split, and one can be
negative). One date suffices there: none of its properties
depends on which batch is taken first. `ledger_returns` has one receipt, one buyer return and one
supplier return, two warehouses, two dates (the reports compare them) and two batch ids: the cases
need goods of two origins, a taker, and a document in the wrong warehouse or period; quantities are
those of `ledger_receipts`. Nothing is sold in it, so what concerns sales (`SalesAreMoved`,
`SoldStockSurvives`) is checked in the other run. The pool of
batch ids is the only cap on behaviour in both: a call that needs more ids than are free is not
taken. `posting_loop` has two dates, three batches of up to 2, two products and documents of up to
two lines of quantity 0 to 2, all combinations as initial states. `concurrent` has two clients (a
race and a two-client circle need no more), two receipts, one realization and one supplier return
of 1 or 2 against receipts of 1, two batch ids; `RoomForBatch` caps the calls that may add a batch.
`concurrent_live`, without symmetry, has one receipt of 1 or 2 and one realization of 2, which can
take both batches of a receipt that was posted twice, so that receipt and batches are locked in
conflicting orders and an edit can be refused.

`payments` has two clients, two realizations of 1 and 2 dated 1 and 2, and two transactions that
pay 1 or 2, so that one payment covers an old debt and part of a new one and two payments compete
for one debt; `Transactions` is also the cap on creations. `finance_reports` has one client, one
document of each of the four kinds, two cashboxes, one counterparty and payments of both types
over two dates, so that each sign of the reports occurs on both sides of a period's start.
`repost` has one reposting at a time, one client, a receipt, a buyer return, a price document
dated 1, two realizations and a supplier return, dates 1 and 2, and three requests (everything,
POST from date 2, UNPOST of two kinds up to date 1): two sales compete for two units while dates
let the second posting order differ from the first (of the two sales, which are alike, the first is
never the younger). `prices` has two clients, one product with two price types, two documents, dates
0 and 2 beside the time of the call, a draft in the beginning that was inserted in the millisecond
it is dated with and one that was not, and `MaxCalls` = 3 calls: the race of two writers and one
call before or after it; or a document that is applied, another that is applied, and a reset. `orders` has two clients, an order with all operations, a second one that only full
syncs change (so that two full syncs can lock in opposite order), and a pool of two connections,
which is used up as soon as both calls need a second one.

The violating instances are the smallest that show the behaviour. Deadlock is checked except in
`prices`, which stops when its calls are used up, and where a configuration for a liveness
counterexample says so.

### Fairness

`ConcurrentPosting`: `SF(Step(c))`, because PostgreSQL executes a statement that can be executed
and serves lock waits first come, first served, so a call that can get its row again and again
gets it; `WF(DeadlockDetected(c))`, because the deadlock check runs after `deadlock_timeout`.
`Orders`: `SF(Step(c))` for the same reason, the queue of the pool being first come, first served
too; the victim of a circle of full syncs must fail (`MustFail`). `Repost`: `WF(Step(p))`: a
reposting that was started goes on while the server runs. `LockReleased` excepts a stop of the
server and a failure of the unlocking UPDATE (`UnlockFails`, which is not fair: it need not happen):
after either the lock stays set until somebody removes it by hand, or another reposting is refused,
whose `finally` block opens it. Nothing is assumed about
calls beginning or queries failing: calls need not come and queries need not fail.

## Proofs

Every type invariant, every other invariant and every action property that a passing run checks, and
the refinement of `AtomicPosting`, are theorems: they hold for every number of documents, products,
batches, clients, connections and so on. (`LockReleased` and `EveryCallReturns`, the liveness
properties, are not.) Each rests on an inductive invariant, called `Inv`, that the initial states
satisfy and every action preserves; for most there is one lemma per action. The proofs of an action
property and of the refinement use the same `Inv`.

### Assumptions

The named assumptions of the modules, which TLC evaluates in every run:

- quantities of incoming documents are integers, those of outgoing ones naturals, dates integers
  (`DataAssumption`, `BoundsAssumption`,
  `TimeAssumption`), and requests have the fields and ranges that the handlers' columns have
  (`ContentAssumption`, `DraftsAssumption`, `OptionsAssumption`);
- the sets that sums range over are finite (`FiniteAssumption`);
- ids of different tables are different and `NULL` is none of them (`IdAssumption`,
  `DocumentsAssumption`, `KindsAssumption`);
- there is a connection (`PoolAssumption`).

Three more are hypotheses of single theorems, because the code does not ensure them:

- `OneReposting`, one reposting at a time, in `UnitSoldOnce` and `RepostingRestores`: the run that is refused unlocks the one at work (`RepostTwice.cfg`);
- `OneCallPerTransaction` in `PaidIsWhatIsAllocated`, `PaymentSpentOnce` and
  `ReportsBalanceIsOpenDebt`: two edits of one payment revert its allocations twice;
- `BuyerReturns = {}` in `ReceiptsCoverSales`: unposting a buyer return strips sales of their goods
  (run `ledger_buyer_return_unpost`).

### Sums

`QuantitiesProofs` proves what `Total` and `Net` do on disjoint unions, single elements, changes of
one element, grouped and paired indices. `Total` counts units with the cardinality of a set instead
of recursing, and `Net` is a difference of two `Total`s, so that the library's theorems about
cardinality suffice and no induction is needed. `TotalMoved` and `TotalGrouped` carry most of what
follows: goods that move between the parts of a sum, and sums taken document by document that are
to be taken batch by batch.

### Stock

`StockLedgerProofs`:

- `LedgerTypeOK`: in particular no document takes a batch below zero, so that a negative
  `quantityLeft` is all of a batch that was entered negative (`NothingOverdrawn`);
- `LedgerConservesStock`, `LedgerSoldStockSurvives`;
- `LedgerReceiptAccounted`: the batches of a POSTED receipt add up to its lines;
- `LedgerHoldsAtMostItsLines`: no outgoing document holds more than its lines;
- `ReceiptsCoverSales`: without buyer returns it holds exactly its lines (`PostedSaleCovered`);
- `ReportsMovementEndsInBalance`, `ReportsBalanceIsStockLeft`, `ReportsSalesAreMoved` (this one
  also where buyer returns and sales are together, which no run has).

`Inv` adds to `TypeOK` and `StockConserved` that a batch of a document belongs to a POSTED one
(otherwise posting could add to a group that has batches), that rows point at existing batches
(otherwise a new batch could be born with goods taken from it), that nothing was taken from a
batch that is negative (`NegativeUntouched`; otherwise giving goods back would change it) and that drafts hold nothing (otherwise editing or deleting a draft would lose goods). The argument per action: most actions
leave every group of batches of a document and product alone (`SameStock`); post adds a group
where nothing is taken; an outgoing document moves goods from left to taken batch by batch
(`MovedStock`); `update` of a posted receipt needs that what it computes as sold is what was
taken (`SoldIsTaken`), so that the consolidated batch carries the right remainder and a dropped
group has nothing taken from it. `ReceiptAccounted` and `HoldsAtMostItsLines` are preserved beside
`Inv`, group by group. The reports need no invariant of `StockReports` but that every document has
its date (`SaleDated`): that what comes in less what goes out by documents is what is left in
batches is conservation, summed over documents and exchanged with the sum over batches.

`PostingLoopProofs`: `PostMovesGoods` (`GoodsMoved` at every query) and `LoopsImplementAtomic`
(`Spec => ImplementsAtomic`). `Inv` says what the half-done loops have: while posting, what was
taken off a batch is on the rows inserted, the lines behind are served, and no batch before an older
one is empty (`Posting`); the rest of the SELECT is all the stock there is, as it was read and in
order (`Selection`), so that a loop that comes to its end without filling the line has found
the stock wanting, which is the only reason the atomic step has to refuse; while unposting, what is
still to be returned and what is returned make up the rows (`Returning`). COMMIT, the throw and the
rollback map to the atomic steps, every other query to a stutter.

`ConcurrentPostingProofs`: `TypeCorrect`, `GoodsTakenOnce` (`TakesOnce`), `SoldGoodsKept`
(`SoldQuantityKept`) and `PostedReturnNotEdited` (`PostedReturnKept`), without a hypothesis on what
calls overlap. COMMIT writes from what the call has read, so `Inv` says why that is still true:
row locks exclude each other (`Exclusive`), the document of a call on an outgoing document is locked
since its status was checked (`DocumentLocked`), the batches it has read are locked and as it read
them (`BatchesLocked`), those of a call on a receipt are the receipt's (`OwnBatches`), and the rows
that unpost has read without locking cannot have changed, because only a holder of the document
changes them (`LinksCurrent`). The receipts' missing locks break none of this; what they do break
is among the counterexamples.

### Reposting

`RepostProofs`: `UnitSoldOnce` (`SoldOnce`) and `RepostingRestores` (`RepostRestores`), for one reposting at a time and any number of other calls;
`TypeCorrect` for any number of both. `Inv` is about the tables *and* about what the run would
commit now: that view sells no unit twice (`ViewSoldOnce`) although other calls move units beneath
it, which is what the locks on the rows it wrote are for; a document is unposted once and only if it
is POSTED (`Undoing`); a realization that was posted again has its unit (`Redone`); a full reposting
owes exactly the documents it has unposted and not posted yet (`Owes`), so that it owes none when
it commits. `TypeInv`, for the types, needs of a run only that it unposts a document.

### Payments and the reports on money

`PaymentsProofs`, with one call at a time per payment: `PaidIsWhatIsAllocated`
(`PaidIsAllocated`), `PaymentSpentOnce` (`SpentOnce`) and `ReportsBalanceIsOpenDebt`
(`BalanceIsOpenDebt`). `Inv` adds to them that no two calls are about one transaction
(`Exclusive`, the hypothesis at work), where in its handler a call is (`Routed`), that what it has still to add or subtract is
on its list, each document once (`Planned`), that its `delta` is what it will add to the
allocations less what it will remove (`Balanced`), that an edit removes all allocations of its
transaction (`DropsAll`) and that it adds no more than the amount (`WithinAmount`). Documents may be
posted, unposted, edited and deleted at any time, since none of that touches `paidAmount`.

Without that hypothesis, for any calls at all: `TypeCorrect` and `ReportsPeriodsJoin`
(`PeriodsJoin`), from `TypeInv`. That allocations stay naturals needs only that a call adds what is
positive; that periods join needs the queries for the opening balance and for the movements to
select, between them, every row once. The balance and the allocations are sums over the same
payments, taken once by payment and once by document; exchanging them is the proof of
`BalanceIsOpenDebt`.

### Prices and orders

`PricesProofs`: `TypeCorrect` and `JournalKnowsPrices` (`EveryPriceJournaled`). A transaction
writes back prices that it read long ago, so `Inv` says of these too, not only of the table,
that the journal knows them, or a running call will tell it, or a failed one has not, or a reset
has deleted the entry (`PricesAccounted`, `ReadAccounted`, `MineAccounted`). A call that has read a
price need not be the one whose entry a reset deletes, so the invariant must speak of prices, not of
who wrote them; `ApplyOK` and `EditOK` say where calls are.

`OrdersProofs`: `TypeCorrect`, `RowsAreTheLines` (`OneSetOfRows`) and `PushIsStored`
(`PushedIsStored`). `Inv` adds that no two transactions lock one order (`LocksExclude`), that an
order a PUT has locked is there and the rows a call has deleted are all its rows (`LockedStays`;
otherwise its INSERT adds to another's rows), that no rows outlive their order (`NoStrayRows`) and
where calls are (`CallOK`).

### Only model-checked

- `EveryCallReturns` of `ConcurrentPosting` and of `Orders`, and `LockReleased` of `Repost`: liveness
  under fairness is out of the prover's reach, as is anything about ENABLED.
- What the code violates: the two violated runs and the counterexamples.

## Not modelled, and the plan

- Arithmetic: `deductStock` and the allocation loop compute in floating point; quantities and
  amounts here are whole numbers of the smallest unit.
- Orders: status (beyond what realizations write), total and the deletion mark as data; the
  timestamp of `/sync/pull`; the values of document numbers (COUNT + 1).
- Prices: `POST /prices/set` (its controller takes a database client nobody provides or calls
  `require`, which an ES module does not have, so every call answers 500); price types and the
  renaming of their slugs; overlapping replacements of one price document's lines; soft deletion of
  products.
- Reposting: realizations that are soft-deleted, documents of more than one unit (the ledger has
  those), receipts and buyer returns edited meanwhile (`ConcurrentPosting` has the races of
  receipts).
- Amounts, costs and profits in the reports on sales, and sales by client: they read the same rows.
- Cashboxes and categories, authentication, users, organization, counterparties, schedule and
  picking list: single statements or reads with nothing to get wrong between calls.
- Start of the server, migrations, scripts and the generated client bundle.

Order of work from here:

1. Proofs: what a full sync does ensure (what it reports is stored unless a statement of it
   failed), and that posting changes nothing of another document's batches.
2. `/sync/pull` and its timestamp: a change that commits late must not be missed.
3. Document numbers: two calls that count at once.
4. Buyer returns and deletes in `ConcurrentPosting`.
