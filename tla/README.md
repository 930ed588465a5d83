# Formal models of the Lojas Schimitz API

TLA+ models of the parts of `apps/api` where several requests, webhooks and jobs
meet over the same rows: the order lifecycle with everything an order holds
(stock, coupon uses, cashback), the payment flow between checkout, provider,
expiry job, customers and administrators, refunds and chargebacks with their
ledger, the idempotent checkout, carts at sign-in, account deletion, reminders
and push campaigns, and the lease and the mutex under them. TLC checks the models
on small instances; TLAPS proves the main safety results for every value of the
constants. `PROJECT.json` ties every definition to the source lines it models,
every property to the run that checks it and to a plausible bug it catches.

Run a check: `tlc -workers 2 -config OrderStock.cfg MCOrderStock.tla`.
Check the proofs of a module: `tlapm OrderStockProofs.tla`.

## 1. Inventory of the system

A NestJS API (`src/apps/api`) over PostgreSQL through Prisma, with a web
storefront, an administration UI and thin Android clients. Several replicas may
run; each also runs the periodic jobs. Transactions are READ COMMITTED, and the
code protects itself with conditional updates (`UPDATE ... WHERE <expected>`,
then `affected === 0` is a lost race), unique keys, and journals or ledgers with
`ON CONFLICT DO NOTHING`. Paths below are under `src/apps/api/src`.

| Part (source) | State | Operations | Interacts with |
|---|---|---|---|
| Order lifecycle (`modules/orders/orders.service.ts`, `common/order-status.ts`) | Order, OrderItem, reservation deadline | create, cancel, transitionFromAwaiting, adminUpdateFulfillmentStatus, expireReservations | reserves and releases through inventory, coupons, loyalty; payments drive `paid` and `refunded` |
| Idempotent checkout (`orders.service.ts` create, `idempotency.ts`) | IdempotencyRecord, the cart it empties | POST /orders | cart, inventory |
| Cart (`modules/cart/cart.service.ts`) | Cart, CartItem | add, update, remove, clear, merge at sign-in | the checkout reads and empties it |
| Inventory (`modules/inventory/inventory.service.ts`) | qtyOnHand, qtyReserved, InventoryMovement journal | reserve, release, commitSale, restock, setOnHandCas, coupon counters | called inside the transactions of orders, payments, admin |
| Coupons (`modules/coupons`) | active, maxUses, usedCount, reservedCount | admin edits; counters via inventory | orders |
| Loyalty (`modules/loyalty`) | User.cashbackBalance, CashbackLedger | redeemInTx, refundRedeemInTx, creditEarnOnPaid | orders, payments |
| Payments (`modules/payments/payments.service.ts`) | Payment (status, externalId), WebhookEvent, orphan rows | createIntent, handleWebhook, applyProviderStatus, adminRefund, finalizeRefundLocal | provider, orders, finance |
| Provider (Mercado Pago, external) | charges, refunds, disputes | charge, refund, cancel, notify | webhooks, repeated until answered |
| Expiry job (`orders/reservations-expiry.service.ts`) | `running` flag | tick each minute | expireReservations, the lease |
| Lease (`orders/scheduler-lock.ts`) | SchedulerLock row | tryAcquire, release | every periodic job |
| Refunds (`modules/finance/refunds.service.ts`, `financial-recorder.service.ts`) | PaymentRefund rows, ledger, financialState | requestRefund, execute, retry, refresh, recordObservedRefunds, syncPaymentState | payments, provider |
| Chargebacks (`modules/finance/chargebacks.service.ts`) | Chargeback rows, discrepancies, the loss's debit | handleNotification, ensureFromPaymentStatus | webhooks, syncPaymentState |
| Mutex (`modules/finance/keyed-mutex.ts`) | a promise per key | run | a provider's answer applied to a payment, adminRefund |
| Reconciliation (`modules/finance/reconciliation*.ts`) | discrepancies | read-only checks, off by default | reads everything |
| Admin catalogue and stock (`modules/admin/admin-products*.ts`) | Inventory, products | quantity edit, batch `set`/`delta` | inventory |
| Account deletion (`modules/account-deletion`) | audit events that stand for the request | request, cancel, process | orders, users |
| Reminders (`modules/push/abandoned-view*.ts`) | ProductViewEvent, AbandonedViewPush | record, processDue each tick | push service, the lease |
| Push campaigns (`modules/push/push-campaigns.service.ts`) | PushCampaign, PushDispatch | create, cancel, dispatch | push service, scheduler |
| Pricing, commissions, auth, marketplace OAuth, mail, shipping, chat, catalogue, reviews | own tables | mostly single-row operations, or I/O | orders read pricing |

What is hard about each, and what makes it right:

* **Inventory and orders.** Payment, cancellation, expiry and administrators race
  for the same order; a quantity read early is written late. Right when the
  reserved quantity is exactly what open orders hold, nothing is oversold, units
  are neither lost nor invented, and the journal tells the order's story.
* **Coupons and cashback.** Two orders at the limit, a cancel after a
  redemption. Right when uses and balance are conserved.
* **Payments.** Webhooks come twice, late, before the checkout has saved the
  charge's id, or while the order is being cancelled; a process may die between
  any two queries; a provider call may time out after charging. Right when an
  order is paid only with money behind it, and no captured money is forgotten.
* **Refunds.** Unknown outcomes, retries, the webhook recording the same
  refund. Right when debits are recorded once and never exceed what was paid.
* **Chargebacks.** Two notifications of one dispute, each fetched before it is
  applied, errors that are logged and answered 200. Right when a loss is debited
  once and in full and an open dispute is in front of a person.
* **Idempotent checkout.** Two tabs, retries after a crash, a cart that is read
  early and emptied late. Right when one key makes one order and every answer
  names it.
* **Cart.** Nothing makes a customer's cart unique; quantities are written as
  absolute values. Right when signing in never multiplies units.
* **Lease and mutex.** The lease is not renewed and uses two clocks; the mutex
  drops map entries while calls arrive; a process that is asked to exit gives its
  lease back while its tick goes on. Right when work overlaps only after an
  overrun or during an exit, nobody waits for ever and the map does not grow.
* **Account deletion.** The request has no row: the last event by time stamp
  decides. Right when an answered cancellation is honoured and an erased account
  has no order under way that the store had seen.
* **Reminders and campaigns.** Claim, push and record are three steps and a
  replica may die between any two. Right when nobody is pushed twice, limits
  hold, nothing is sent after it was cancelled, and nothing is scanned for ever.

The hazards, each at its line, are in `PROJECT.json`.

## 2. Modules

| Module | Models | Role |
|---|---|---|
| `OrderStatus` | `common/order-status.ts` | status graph and the sets derived from it; used by all that have orders |
| `Tally` | - | sum of bounded quantities over a set, as a cardinality, so that it can be proved about without recursion |
| `OrderStock` | orders, inventory, coupons, loyalty, admin stock edits | any number of orders against what they hold |
| `OrderMoney` | - | abstract: what the shop promises about one order and its money |
| `PaymentFlow` | payments, webhooks, expiry, checkout | one order in detail; implements `OrderMoney` |
| `MoneyBack` | - | abstract: what the ledger promises about the money of one payment that goes back |
| `RefundLedger` | `finance/refunds.service.ts`, `financial-recorder.service.ts`, finalizeRefundLocal and the end of handleWebhook | one approved payment, its refunds and their debits; implements `MoneyBack` |
| `Disputes` | `finance/chargebacks.service.ts`, syncPaymentState, `payment-state-machine.ts` | one approved payment and its dispute |
| `OnceOnly` | - | abstract: what an idempotency key promises |
| `Checkout` | `orders.service.ts` create, up to its transaction and after it | requests of one customer; implements `OnceOnly` |
| `Cart` | `cart.service.ts` | carts of one customer, one product line |
| `AccountDeletion` | `modules/account-deletion` | requests to delete one account |
| `AbandonedViews` | `push/abandoned-view*.ts` | views of products and the ticks that push reminders |
| `PushCampaigns` | `push/push-campaigns.service.ts` | one campaign and the dispatches that meet |
| `SchedulerLease` | `orders/scheduler-lock.ts` | replicas that take turns at a job |
| `KeyedMutex` | `finance/keyed-mutex.ts` | calls of one process |
| `MCOrderStock`, `MCEntitlements`, `MCPaymentFlow`, `MCRefundLedger`, `MCMoney`, `MCStorefront`, `MCProgress` | - | instances for TLC |
| `TallyProofs`, `OrderStockProofs`, `PaymentFlowProofs`, `RefundLedgerProofs`, `DisputesProofs`, `CheckoutProofs`, `StorefrontProofs` (campaigns, deletion, carts), `JobsProofs` (lease, mutex, reminders) | - | theorems |

A step is, everywhere, what runs between two awaits: a query, a transaction, or
a call of another service. A definition that ends in *mutant* in its comment is a
plausible bug of the one after it; no specification uses it.

### OrderStock

One database transaction is one action. A conditional update that matches no
row makes the code throw and roll back, so it is a guard of the action; where
the code goes on after a lost race (`finalizeRefundLocal`, the fulfilment
PATCH), the action has that branch. Three handlers read long before they write
and are two actions each, with the read kept in a variable in between:
`ReadFulfillment`/`WriteFulfillment` (a carrier call lies in between),
`ReadRefund`/`WriteRefund`, and `ReadBatchDelta`/`WriteBatchDelta` (applyBatch in
`delta` mode). `CreditEarnOnPaid` is apart from `MarkPaid` because the code calls
it after the transaction, and `CrashBeforeEarn` is the process dying before it.

Correspondence: `status`, `items`, `withCoupon`, `cashbackUsed` are columns of
Order/OrderItem; `money` the status of the payment that paid the order;
`onHand`, `reserved` the Inventory row; `journal` InventoryMovement, whose
unique key (item, kind) makes each operation idempotent; `coupon` the Coupon
row; `balance`, `cashLedger` the cashback and its ledger, unique per (order,
kind). `adjusted` is history: what administrators meant to add, the reference
for `StockConserved`.

Abstracted: prices, addresses, eligibility and dates of coupons (a coupon is
simply usable while active), one coupon; an order's items are keyed by product.

### PaymentFlow

One order, up to `MaxPayments` payment rows, and one charge at the provider for
each: the provider's idempotency key is derived from the payment's id. `Strays`
are charges of the shop's account that belong to no order of it. A step
of a handler is what runs between two awaits. `handler` holds the runs of
`applyProviderStatus` - one for each webhook worker, one for the checkout's
approval on the spot, one for the administrator's refund - with the program
counter, the charge, the status fetched from the provider (`seen`), the local
row, and the order status read before the refund's transaction (`from`).
`intent` is a createIntent between awaits, `expiry` a pass of
expireReservations over this order. `notices` are notifications the provider
still repeats; several of one charge count as one, kept while the answered
status is not the charge's current one. `flagged` and `orphans` are what
administrators see: discrepancies, and of a charge without a payment its
PaymentReconciliation row, with the status last written, and its discrepancy,
which is opened in a step of its own (`ReportOrphan`). Discrepancies are best
effort: a write that fails is caught and counted, and the handler goes on and
answers (`OpenDiscrepancy`). `unflagged` is history: the charges this happened to.
A webhook finds its payment in two queries: by externalId (`Lookup`), else among
the unbound payments of the order that the charge's external_reference names
(`PickPayment`), to which the charge is then linked (`Link`), under the unique index on
(provider, externalId) where the database has it: the migration creates it only
if no duplicate exists, hence the constant `UniqueExternalId`. createIntent writes
a refusal on the spot twice, the second time by id alone (`RefuseIntent`). A link the index
refuses, and an approval that fails, end the webhook with an error, and the
provider notifies again.

The mutex that serialises `applyProviderStatus` within a process is not used:
two replicas do not share it, so the model has more interleavings than one
process has. Every handler may die at any step.

Abstracted: amounts and currency (charge of the right value and reference), the
PIX discount, chargebacks, split, commissions, mail and push, and
`financialState`; the provider's `expired` is treated like `cancelled`; one
checkout and one administrative refund at a time; adminRefund's read and its
provider call are one step; a payment row the code marks FAILED is one whose
status is `refused`.

### OrderMoney

Five actions say what an interleaving may do to an order and its money:
`Capture`, `Return`, `Pay` (only if some charge was captured), `Cancel`, `Fulfill`
(along the allowlist), `Refund` (only if some money was returned). PaymentFlow
implements it with `captured` = charges approved or refunded at the provider and
`returned` = charges refunded.

### RefundLedger

One approved payment of `Paid` units. A step is one query, one transaction or one
provider call. `pay` is Payment.status and financialState; `refund` the
PaymentRefund rows; `remote` what the provider did; `ledger` and `synced` the
debits of FinancialLedgerEntry under their two kinds of unique key,
`REFUND_COMPLETED:mp:<provider refund>` and
`REFUND_COMPLETED:sync:<payment>:<cap>`; `handler` the administrators' requests
and the webhooks in progress. The provider is called under the key
`sch-refund-<row>`, so a row and the one provider refund it can make share a
name; refunds made in the provider's panel (`Panel`) have names of their own.

`RequestRefund` computes what is refundable under the payment's row lock;
`Claim`, `CountPrior`, `CallProvider` and the four endings are `execute`;
`ReadRetry`/`WriteRetry` is `retry`, whose second write is unconditional;
`ReadRefresh`/`ListRefunds` is `refreshFromProvider`; `ReadFinal`,
`FinalizeRefund`, `SyncFinal` are `finalizeRefundLocal` as far as the payment goes
(its order is OrderStock's `WriteRefund`); `Observe` and `SyncObserved` the webhook.
An answer may be lost with or without effect, a refund may stay in process, any
handler may die at any step, and `SyncFails` is the error that
`syncPaymentStateSafe` swallows. A row is `Stale` when no handler has it: the code
waits two minutes and provider calls give up after one.

Abstracted: amounts are units rather than cents; the order of the provider's list
is any (the model lets any debit be the one that is cut); panel refunds settle at
once; a replayed request key returns the row and changes nothing. Left out:
disputes (module `Disputes`), corrective adjustments, ledger rows older than the
canonical keys, the single-step `adminRefund`, discrepancies and audit rows.

### MoneyBack

Two actions: the provider returns money (`Return`), and the shop writes down, in one
transaction, debits of what was returned so far and, if that is all, that the
payment is refunded (`Record`). Neither is ever taken back. RefundLedger implements
it with `returned` and `debited` = the sums at the provider and in the ledger, and
`refunded` = the payment's state. `ImplementsMoneyBack` is `MB!Spec`, written so that
TLC takes no sums where nothing changes; `RefundsImplementMoneyBack` proves both.

### Disputes

One approved payment, one dispute. `claim` is what the provider says of the
payment; `unread` the notifications that it will repeat until they get a 2xx, by
topic. A webhook (`hook`) of the payment's topic reads the claim (`FetchClaim`),
writes the state (`Sync`) and only then looks for the case and writes it
(`FindCase`, `UpsertStatus`, `RaiseOpen`: ensureFromPaymentStatus); one of the
chargeback's topic goes the other way round (`FetchCase`, `UpsertCase`,
`RaiseCase`, `Refetch`, then the same steps). `fetched` is how the read of the
case went: it may be refused for good or fail for now, and the latter asks for
the notification again. `finState` is Payment.financialState, `debited` and
`lost` its debits, `caseRow` the Chargeback rows of the two names a case may
have (its own, and `payment:<id>`), `raised` the open discrepancies.
`SwallowError` is each of the places where an error is logged and the webhook
answered 200; `HookDies` a death, after which the provider notifies again.

Abstracted: partial chargebacks (the schema has the amount, the debit ignores
it); refunds in the panel happen before the dispute only, are of one unit and do
not empty the payment; the shop's own refunds are in RefundLedger, not here.

### Checkout and OnceOnly

`req` is a POST /orders between its awaits. Its steps are the code's: the order
of the key (`ReadOrder`), the record (`ReadRecord`), the cart (`ReadCart`, which
also decides replay or conflict), the insert of the record (`Claim`), what a
lost insert reads again (`Reread`, `ReadRaced`), the checks before the transaction
(`Preflight`), the transaction (`Commit`, which takes the cart's items as read
and empties the cart as it is now) and the record's completion (`Complete`, best
effort). Customers edit the cart and stock moves between any two; a request may
die at any step. Bodies and contents are opaque: the hash is the pair of both.

OnceOnly has three actions - ask under a key, perform once, tell the effect -
and Checkout implements it with `effect` = the order of a key.

### Cart

The carts of one customer, as a visitor and signed in, and one product line of
them. `line` is the quantity, `row` counts the rows the line has had (an update
by id of a row that was deleted fails even if another exists now). Requests that
add (`ReadProduct` to `WriteLine`) and merges at sign-in (`ReadGuestCart` to
`MergeCarts`, the last a transaction) keep what they read. Since no constraint
makes the customer's cart unique, resolving may create a second one. `asked` is
history: units the customer ever asked for. Coupon codes on a cart are left out.

### AccountDeletion

`events` are the audit rows requested, cancelled and processed with their stamps;
`States` is the set of answers deletionStateFromEvents may give, since rows with
the same stamp come in any order. `Stamp` is nextEventAt, apart from the write
because the code awaits in between. `CheckOrders`, `CheckState`, `Stamp` and
`Erase` are the administrator's process. `wish` is history: what the customer was
last told, `unclear` if two of the customer's handlers overlapped. What is erased
is one transaction and one boolean.

### AbandonedViews

Times are ages and remaining times, so that hours pass without a bound: `view`
(age of the last visit, whether it is to be decided, for how long it is
deferred), `rowAge` and `rowDay` (age of the newest sent push of a view, and how
many midnights ago that of the device was), `hour` of the day. A tick reads its
batch and the time once (`StartTick`), then row by row reads the limits (`Read`),
writes the decision only if the visit is still the one it read (`WriteDecision`),
pushes (`Send`) and records (`RecordPush`). A new visit slides the row under a
tick (`slid`). Two ticks at once stand for one that outlasted its lease or whose
process is being shut down. `StartTick` is the query of the ids and the read of
the rows in one: the claim of `WriteDecision` compares the visit again, so a visit
between the two is one that slides the row.

### PushCampaigns

`campaign` is the status, `dispatched` the phones with a PushDispatch row. A
dispatch, of the scheduler or an administrator, counts the dispatches, claims
(`UPDATE ... WHERE status IN (sending, scheduled)`), loads the devices, sends and
records batch by batch and writes the final status by id. `ReadCancel` and
`CancelById` are cancel, whose write is unconditional too. `withdrawn` and
`disturbed` are history: the campaign was cancelled before any claim; two
dispatches held it or one died having sent.

### SchedulerLease and KeyedMutex

`SchedulerLease`: `holder` and `left` are the row as the database's clock sees
it; `phase` is a replica's tick, `ran` how long it has worked. A replica writes
the end of the lease with its own clock, hence `ClockError`. `EndTick` deletes
the row where the holder is still itself, and may fail to. `Shutdown` is
onModuleDestroy, run by main.ts on the SIGTERM of a deploy: it clears the timer and
deletes the row if it is this replica's, without waiting for the tick in progress,
which goes on; `closing` counts the time since. A tick that waits for its INSERT at
that moment may get the lease after all. The process is gone when `app.close()` is
done or when the timer of installGracefulShutdown forces it (8 s), whichever comes
first: time does not pass `Grace` before it is (`Crash`, which is the kill without
notice too). A restarted process has another holder name, so a crash turns its row
into one of `Gone`.

`KeyedMutex`: `tails` is the map, `prev` the tail a call found, `stage` where it
is. `Enter` is run up to its first await, `Finish` its finally block. `before` is
history: the calls of the key that came earlier.

## 3. Runs

| Run | Instance | Shows |
|---|---|---|
| `order_stock` | 2 orders, 1 product, quantities to 2, stock 2 (to 3 by edits), one handler of each kind between read and write | reservations, journal, stock and status agree under all interleavings of checkout, cancel, payment, fulfilment, refund and quantity edits; goods come back only from the warehouse |
| `order_entitlements` | 2 orders of one customer; either a coupon with limit 1 or none, 1 unit of cashback and one product; or 2 products and batches of +1/-1 split between read and write | coupon uses are counted once per order, never beyond the limit in force; cashback is conserved; reservations stay exact over several items, and even a stale batch write does not oversell |
| `payment_flow` | 1 payment, 2 webhook workers, all other actors; from there a second payment, one webhook at a time; or, with the order idle, a stray charge and 2 workers | refinement of OrderMoney; no captured money is forgotten once all is settled, but for a charge whose own discrepancy failed to be written |
| `money_out` | refunds: 2 refunds, 1 panel refund, 3 units, 1 administrator at a time, 1 webhook; disputes: 2 webhooks, 1 panel refund, 2 units | no debit without money behind it; refunded only when all went back; refinement of MoneyBack; a loss debited once and in full; a dispute is in front of a person |
| `storefront` | checkout: 2 requests, 2 keys, 2 bodies, 2 contents; cart: 3 carts, 1 add, 2 merges; deletion: 2 requests, 1 cancellation, 1 erasure, 1 order; reminders: 2 ticks with 1 product, 1 tick with 2; campaign: 2 dispatches, 2 phones, batches of 1 | the checkout implements OnceOnly, and who saw the order is told of it only for its own body; no unit invented by a merge; answered cancellations honoured; no double push; limits; campaigns cancelled in time reach nobody |
| `progress` | lease: 2 replicas, 4 steps, error 1, 2 steps to exit; mutex: 4 calls, 2 keys; reminders: 1 tick, 1 view; 1 payment without stray charges and fulfilment, 1 worker; fairness | overlap only after an overrun or beside a process that exits, takeover; calls in turn, no leak, every call runs; every view is decided; captured money is resolved, reservations end |
| `stock_batch_lost_update` | 2 orders, 1 product | violation: a sale between read and write of a batch is lost |
| `refund_race` | 2 orders | violation: payment refunded, order not |
| `paid_without_payment` | 1 payment, 1 worker | violation: the checkout overwrites an approval |
| `orphan_overwritten` | 1 stray charge, 2 workers | violation: a late webhook makes captured money look pending |
| `refund_ledger_stale` | 1 refund, 1 panel refund, 4 units | violation: a late observation leaves the ledger short for good |
| `checkout_fix_cart` | 2 requests, 1 key | violation: a cart corrected as told is refused |

**One run, several parts.** `MCMoney`, `MCStorefront` and `MCProgress` instantiate
modules that share no state, chosen by the variable `part`, which is set at the
start and never changes: the graph is the union of the parts' graphs, and a
property of one part is checked on that part's states. `OneProduct` and `OneTick`
restrict the two reminder parts of `storefront`: two ticks are checked on one
product, two products with one tick. In `progress` each part is fair to its own
actions only, and `ItsReservationEnds` is `ReservationEnds` where the order runs.

**Constraints.** `MCEntitlements` asks two questions of OrderStock at once;
`OneQuestion` does not follow a state that belongs to both. `MCPaymentFlow` has
`CalmWhenMany`: once a second payment is opened, one webhook runs at a time and
none beside a pass of the expiry job, and customers' cancellations, refunds,
fulfilment, repeated notifications and deaths of the expiry job, which one payment
already meets in full, are left out; the stray
charge moves only where the checkout has done nothing, since an orphan's row
touches no order. A `Mishap` (a discrepancy that was not written, an orphan row of a
charge that has a payment) is followed with one payment and one webhook at a time.

**Why these bounds.** Two orders are the least that compete for the last unit,
the last use of a coupon and one balance; quantity 2 with stock 2 lets an order
take all or half; two products are the least for a loop over items to be
half done. One handler of each kind between read and write already meets any
number of complete transactions of everybody else. Two webhook workers are the
least for a duplicated notification handled twice at once, and two payments the
least for a retry after a failed attempt and for a charge linked to another's
row. Three units let a refund be a part, the rest or all, with a panel refund
beside two of the shop's; one administrator at a time still meets rows that
another left at any step, since handlers die. `Answers` bounds what the provider
may say: `money_out` leaves out the refusals that say nothing of the refund
(section 5), and `refund_ledger_stale` needs only approvals. Two requests are the
least for a double submit and for a retry after a crash, with a second key for
two tabs; three carts are a visitor's and a customer's two; two merges are two
tabs signing in. Two requests to delete, with one cancellation, on a clock of two
values meet in one millisecond. In the reminders a day is two steps, the product
cap outlasts the age limit and a tick may cross midnight once. Four calls are the
least for one that arrives while another leaves and a third waits, with one on
another key. A lease of four steps with an error of one and two steps to exit
leaves room for a process that gives its lease back and is gone before the next
holder overruns, and two replicas are all that the properties speak of: one may
die or be asked to exit while the other goes on. Each further unit multiplies the state space without a new kind of
meeting; the theorems of section 4 remove the bounds for what they cover. The
bounds are `MaxPending`, `MaxBatches`, `MaxQty`, `MaxCash`, `MaxOnHand`,
`MaxPayments`, `FulfillTargets`, `Paid`, `Answers`, `Amount`, `MaxAsked`, `MaxNow`,
`Day`, `MaxTick`, `Batch`, `Ttl`, `ClockError`, `Grace` and `PushBatch`; each is named in its module.

Interchangeable names are symmetric where the cfg says so; runs with liveness
properties use no symmetry. In `storefront` parts that never meet share model
values, so that there are fewer permutations. `CHECK_DEADLOCK FALSE` appears where
work really ends: an order cancelled before any charge (the PaymentFlow runs),
requests and handlers that are each sent once (`storefront`,
`checkout_fix_cart`), and the mutex's calls (`progress`). In `money_out` the end of a
decided dispute is an explicit step (`DisputeIsOver`), so a deadlock anywhere
else is reported.

**Fairness.** `Fairness` (PaymentFlow): time passes; each webhook worker, the
checkout's and the administrator's apply, an opened createIntent, and the expiry
job keep going (the provider repeats a notification until it gets a 2xx; the
expiry job ticks every minute); and deaths eventually stop, `<>[][~Deaths]_vars`.
Nothing is assumed of customers, administrators, of new checkouts, or of the
provider's decision on a pending charge. `LeaseFairness`: time passes, each
replica that is idle and may take the lease does (it tries at every tick), a
tick ends, and a process that was asked to exit does (the timer of main.ts);
nothing about restarts, and the property is about runs where some
replica stays up. `MutexFairness`: the work of a call ends and its continuation
runs. `ViewsFairness`: hours pass, ticks start while something is due (the
scheduler's interval) and go on; that ticks die only finitely often is a premise
of `VisitsAreDecided`.

## 4. Proofs

Eight modules, a theorem for every invariant, every action property and every
refinement that a passing run checks; what is left to TLC is liveness. They rest
on the assumptions on the constants that the modules name, and on no other
unless the theorem says so: `OrderStockAssumption` (types of the constants,
finitely many orders), `PaymentFlowAssumption` (a number of payments, targets
among those of the administrator's screen, worker names distinct from the two
named handlers), `RefundLedgerAssumption` (finitely many refunds, the shop's and
the panel's apart, at least one unit paid), `CartAssumption` (finitely many
carts and requests), `DeletionAssumption` (the administrator's processes are not
the customer's requests), `ViewsAssumption` (finitely many devices and products,
a day of at least one step, ticks no longer than it, limits in their order),
`CheckoutAssumption` and `MutexAssumption` (the name for "nothing" is not one of
the others), `LeaseAssumption` (natural numbers, clocks off by less than the
lease), `CampaignAssumption` (a batch is not empty) and `DisputesAssumption`
(finitely many panel refunds, fewer than the payment has units). TLC evaluates
each on the runs that extend the module.

* `OrderStockProofs!TypeCorrect`, `AllowlistFollowed`, `StockSafe`,
  `JournalTellsStory`, `ReservationsExact`: for any orders, products, quantities and any number of
  handlers between read and write. The journal is not inductive alone: that a
  fresh order's rows are not in it yet, that a payment is approved only on an
  order that was paid (so a refund starts from a paid order), and that a
  fulfilment handler carries an allowed pair however late it writes, are the
  parts of `CoreInv`. `StockInv` adds the journal and `NeverOversold`, and
  together with the exact reservations is the inductive invariant of the stock:
  `release` and `commitSale` skip journaled items, so that they give back every
  item needs the journal to match the status. `Tally` gives the sum over open
  orders; `TallyProofs` shows what adding and removing an order does to it.
* `OrderStockProofs!CouponExact`, `CouponLimitKept`: a step leaves the two
  counters and the two sets of orders they count alone, or moves one order into,
  between or out of the sets and one use with it (`CouponCases`); consume and
  release are silent at zero, and the exact count is what shows they never are.
  The strengthening is that only a created order has a coupon.
* `OrderStockProofs!CashbackExact`: `CashRows` ties the ledger's redemption to the
  order that spends and its return exactly to the cancel, so that neither is
  written twice.
* `OrderStockProofs!RestockedFromWarehouse`, `GoodsConserved`: both follow from the
  journal. `GoodsConserved` assumes `BatchDeltas = {}`; with batch deltas it is
  false, as the run `stock_batch_lost_update` shows.
* `PaymentFlowProofs!FlowTypeCorrect`, `FlowImplementsOrderMoney`: PaymentFlow
  implements OrderMoney for any number of payments, workers and targets. A handler
  acts on a status fetched any number of steps ago, so the refinement needs:
  *what a handler saw of a charge can be late but never false*. If it saw
  `approved` the charge is approved or refunded now; if `refunded`, it still is.
  `FlowInv` is that, for webhooks (`RowSawIt`) and for the checkout's answer
  (`IntentSawIt`), with the types.
* `PaymentFlowProofs!NothingForFree`: what OrderMoney comes to, carried over by the
  refinement: an order that counts as paid stands on captured money, a refunded one
  on returned money, and neither is forgotten. That only a paid order is fulfilled
  or refunded is a fact of the status graph (`PaidBefore`), so the induction runs over
  OrderMoney's five actions instead of PaymentFlow's.
* `PaymentFlowProofs!CaptureAccounted`: for any payments, stray charges and
  workers, with the unique index or without. `ViewInv` adds to `FlowInv` that
  captured money the order has not earned is always in view (`AllInView`): still
  notified, or flagged, or on an orphan row, or of a charge whose own discrepancy
  failed to be written. A webhook's error branches keep the notice, its answer
  follows a flag, the failure of one, or a row, and of an approved charge it is an
  answer about an order that was paid (`AnswersPaid`), which no step unpays.
  When nothing is in flight any more, being in view is the property.
* `RefundLedgerProofs!RefundsTypeCorrect`, `NeverBeyondPaid`: for any refunds,
  requests at once, webhooks and answers. `Capped`: every write to the ledger
  and every movement at the provider is cut to the room that is left, and both
  sums are `Tally`s over finite sets.
* `RefundLedgerProofs!LedgerReal`, `RefundedReal`: the same, under the hypothesis
  `Alone`: one request is executed at a time (at most one element in `Clerks`,
  any number of webhooks and of refunds) and no refusal that says nothing of the
  refund. The code ensures neither; without them both properties are false, as
  section 5 says with the instances: the hypothesis is where the promise ends, not
  a convenience of the proof. `Real` is the strengthening: a refund whose row waits or
  failed was not made (`RowsAnswered`); the provider moved at least the row's
  amount, or all that was left with nothing else in process (`EnoughMoved`, which
  is what a total refund sent without amount needs); what a handler carries is
  still true of the provider (`Carries`, `Knows`); and until everything went
  back, each debit is the provider's refund of its key (`DebitsReal`).
* `RefundLedgerProofs!NothingTakenBack`: with no hypothesis at all, money returned
  and money debited only grow, and a payment refunded in full stays so. A row that
  was refused or retried in the wrong moment may make the ledger wrong, but never
  makes it take a debit back.
* `RefundLedgerProofs!RefundsImplementMoneyBack`: under `Alone`. Each step is a
  movement at the provider and nothing in the ledger, or a transaction and nothing
  at the provider (`MovesOrRecords`, one lemma per part of the engine); the first is
  `Return`, cut to what is left by `Capped`, the second `Record`, because `Real`,
  `RefundedIsReal` and `LedgerOnlyRealMoney` hold after it.
* `CheckoutProofs!CheckoutTypeCorrect`, `RecordTells`, `RetryFinds`,
  `ToldOfTheirOwn`, `AnswersAgree`, `CheckoutImplementsOnceOnly`: for any
  requests, keys, bodies and contents. `CheckoutInv` says that a record's hash
  never changes once it is there, that whoever is past the claim holds that very
  hash (`RowOK`), and that orders of a key agree with the record (`Agree`).
  `ToldOfItsOwn` needs of a request that saw the order that the record it reads
  next is there, which is so because orders come after records: then the
  comparison of hashes is never skipped. The refinement needs besides that an
  order's request is past its transaction (`Made`), so that it cannot make
  another, and that orders stay (`Grow`), so that an answer read earlier still
  names the key's order.
* `DisputesProofs!LossRecorded`: for any number of webhooks and panel refunds.
  `DisputesInv`: what a webhook saw of a *decided* dispute is the decision and so
  is a decided state (`Decided`; a dispute that is still open may be seen late);
  the debits add up (`Debits`); and a loss that is not written is in an unread
  notification or in the hands of a webhook of the payment that is about to
  write it, unless an error was swallowed (`OnItsWay`). The transition table is
  what keeps an old observation from reopening a loss.
* `DisputesProofs!DisputesTypeCorrect`, `DisputeSeen`: `SeenInv` adds what was seen
  of a dispute that may still change. No case is won or lost before the dispute
  is decided (`OpenWhileOpen`); a webhook about to open a discrepancy names a case
  it left open (`CaseStepsTrue`); and a state that says a dispute is open, or a
  dispute that is, is told, or on its way to be, unless an error was swallowed
  (`StateIsSeen`, `ClaimIsSeen`).
* `JobsProofs!InTurn`, `Exclusive`, `NoLeak`: for any calls and keys. `MutexInv`: the map
  holds the last call of its key (`TailIsLast`), each call waits for the one
  before it (`PrevIsLast`), and calls of a key are ordered by arrival (`Ordered`),
  whence `RunsInTurn` follows along the chain.
* `JobsProofs!OneTickPerLease`: for any replicas, lease, clock error and time to
  exit. `LeaseInv`: a replica that was not asked to exit and has worked for less
  than the lease less the error still holds the row, and
  `left + ran >= Ttl - ClockError` (`RowIsOurs`); of two that have worked for less,
  one was asked to exit before the other began (`OneHandedOver`).
* `JobsProofs!ViewsTypeCorrect`, `OncePerVisit`, `DayLimit`: for any devices,
  products, ticks and lengths. `ViewsInv`: a visit is open, or claimed by one tick
  that is about to push it, or told once (`OneClaim`), which is what the WHERE of
  the claim buys; and without a mishap one tick works, and what it pushed today
  has a row or is about to (`OneADay`).
* `StorefrontProofs!CampaignTypeCorrect`, `WithdrawnIsQuiet`, `SentOnce`: for
  any dispatches, phones and batches. `CampaignInv`: a withdrawn campaign has no
  dispatch past the claim and nothing sent (`Quiet`); undisturbed, one dispatch
  holds the claim, and what it has still to send was not sent (`Single`).
* `StorefrontProofs!DeletionTypeCorrect`, `CancelHonoured`, `ErasedAreOver`: for
  any requests, cancellations, erasures and orders, and any clock.
  `DeletionInv`: a handler of the customer that ran alone carries a stamp later
  than every event when it writes, so that a wish to stay is never beside an
  event that says otherwise with the same stamp (`LastWord`); what a check saw
  as over stays over, by the status graph (`CheckedOver`).
* `StorefrontProofs!CartTypeCorrect`, `NothingComesFromNowhere`: for any carts,
  requests and sign-ins at once. That the lines add up to no more than was asked
  for is not inductive, since a request overwrites with a quantity it computed
  from a line read before, and a merge adds one read before. `CartInv`: there is
  a way to assign the units asked for to carts and to waiting requests
  (`Counts`) such that each line, each quantity about to be written and each
  visitor's cart about to be merged stays within its cart's share (`Within`). A
  write spends its own request's units on its cart, a merge hands the visitor's
  share to the customer, and can do so once because a cart that is gone has no
  share to give.
* `TallyProofs`: a sum over a set changes by one element's difference when the
  element does, adds over disjoint sets, is zero when all is zero and grows with
  its parts. The order's reservations, the refunds, their debits and the carts
  count with it.

Only model-checked: the liveness properties `CaptureResolves`, `ReservationEnds`,
`LeaseIsTakenOver`, `EveryCallRuns` and `VisitsAreDecided`: liveness under fairness
is out of the prover's reach. Only proved: the types of the parts of `storefront` and
`progress` (the theorems named `...TypeCorrect`), and `RefundedIsReal`, which
`ImplementsMoneyBack` implies; no run repeats them.

## 5. What the models found

Checked as violations, each with the document, comment or test it contradicts in
`PROJECT.json`:

1. **A batch stock edit loses a concurrent sale** (`stock_batch_lost_update`).
   `applyBatch` in `delta` mode reads qtyOnHand and writes the sum with a guard on
   qtyReserved only. A sale in between is put back on the shelf. Overselling
   against reservations stays impossible (`NeverOversold` holds with batches in
   `order_entitlements`).
2. **A refund can leave its order open** (`refund_race`). finalizeRefundLocal
   commits the payment as refunded even if the order moved on after the read; it
   is not repaired later, and the stock does not come back.
3. **A paid order without an approved payment** (`paid_without_payment`).
   createIntent writes the row by id after its provider call and undoes the
   approval of a webhook that was faster.
4. **Captured money of no order can end up looking pending**
   (`orphan_overwritten`). The orphan row and its discrepancy are written with the
   status the webhook fetched, whatever they say by now: of two webhooks of one
   charge the older observation may come last, and the discrepancy goes from
   CRITICAL to LOW. The charge stays in the queue (`CaptureIsAccounted` holds).
5. **An old observation leaves the refund ledger short for good**
   (`refund_ledger_stale`). recordObservedRefunds cuts a debit to the room under
   the total the webhook fetched, while the ledger is read now. When a local refund
   completes in between, a panel refund is debited short under its canonical key;
   that key then exists and no later observation completes it. The amount still
   refundable is overstated until the reconciliation reports the difference.
6. **A cart corrected as the shop asks is refused** (`checkout_fix_cart`). A
   checkout refused for its stock leaves its key claimed with the hash of the old
   cart; the storefront keeps the key and sends the customer to the cart, and the
   next attempt is answered as a key reused with another payload.

Met while modelling and not checked as violations:

* Orders and payments.
  * The expiry job decides on payments read before its loop and may cancel an
    order approved meanwhile (orders.service.ts:602 and 620), in spite of "A
    expiração de reservas agora ignora pedidos com pagamento aprovado"
    (docs/FINANCIAL_ARCHITECTURE.md:92). The webhook then refunds and flags it,
    which is why `CaptureIsAccounted` holds.
  * That refund and that flag are both best effort: their errors are caught
    (payments.service.ts:145 and 1382) and the webhook is answered 2xx, so the
    provider does not repeat it. If both fail, captured money stays on a cancelled
    order with nothing open that says so; what is left is an audit row, the
    approved payment, and the reconciliation (APPROVED_ON_CANCELLED_ORDER,
    reconciliation-checks.ts:112), which is off by default. FORBIDDEN_TRANSITION is
    written the same way. This is the exception that `CaptureIsAccounted`,
    `OrphanStaysCritical` and `CaptureResolves` name, for the charge it happened to.
  * The two queries by which a webhook finds its payment may straddle the
    checkout's write of the externalId: the first finds no payment with it, the
    second no payment without. The charge goes to the orphan queue although it has
    a payment. If the checkout, whose provider call was approved on the spot, then
    dies after it approved the payment and before the order's transition, nothing
    pays the order, and the expiry job, which skips orders with an approved
    payment, keeps its reservation: the second exception of `ReservationEnds`. An
    administrator sees the orphan row; the order shows as APPROVED_ORDER_NOT_PAID
    only when the reconciliation runs.
  * With two payments of an order, the link by external_reference may bind a
    charge to another charge's row; both can end on one (`DUPLICATE_EXTERNAL_ID` in
    reconciliation-checks.ts detects it).
  * A second charge approved for an order already past `paid` is answered
    (`order_not_awaiting`) and raises no discrepancy.
  * A handler that fetched `approved` may apply it after the refund was handled;
    the code forbids it and opens a discrepancy.
  * creditEarnOnPaid pays for four of the eight post-paid statuses; an order moved
    to `organizing` before it runs, or a crash before it, earns no cashback.
* Refunds.
  * An UNKNOWN refund whose retry gets any 4xx (credentials, too many requests) is
    marked FAILED although the first attempt may have moved the money, in spite of
    "Reprocessar com a mesma chave é seguro" (refunds.service.ts:387). With
    `"refused"` in `Answers` TLC finds `LedgerOnlyRealMoney` violated, and then
    `RefundedIsReal`: the amount is requested again, the debit of the second row
    fills the ledger, and the payment is refunded while the first refund is still in
    process and may yet be rejected.
  * A full refund executed while another is still REQUESTED is sent without amount
    and moves the other's money too; the ledger records only its row's amount.
  * markCompleted debits the row's amount, not the amount of the provider's answer.
    With two requests executing at once this breaks `LedgerOnlyRealMoney` for three
    units and a panel refund in between, and also without any panel refund: three
    refunds of the shop's own are enough (three units, or two with one webhook),
    when a refund is sent without amount while another is retried. Two refunds of
    the shop's own hold with two requests at once. The run handles one at a time,
    which is the hypothesis `Alone` of the theorems.
  * The retry's write PROCESSING to UNKNOWN is unconditional and can undo a
    COMPLETED written since its read.
* Disputes.
  * "ordem de chegada não importa" (docs/FINANCIAL_ARCHITECTURE.md:51) holds for
    the decision, not before it: a stale `in_mediation` applied after `approved`
    leaves the payment IN_DISPUTE although the mediation was withdrawn.
  * The row `payment:<id>` made before the case is known stays beside the case's
    own; a withdrawn mediation leaves its row IN_REVIEW.
  * A refund of the shop's own in flight when the loss is written is debited on
    top of a loss computed without it (financial-recorder.service.ts:622), so the
    debits can exceed the amount.
* Checkout and cart.
  * Two keys from two tabs order one cart twice: the transaction does not look at
    the cart again. What was added between the read and the transaction is
    deleted unordered.
  * A double submit under one key may be answered with a 409 although body and
    cart were the same: the first empties the cart between the second's reads.
  * A completed record whose order was not seen is answered without comparing: the
    condition of `ToldOfItsOwn`, which is false without it.
  * A customer with two carts may lose sight of the units in one of them.
* Account deletion, reminders, campaigns, commissions.
  * An order placed between the check and the erasure belongs to an erased
    account.
  * A tick started before midnight that pushes after it counts the day before.
  * The claim of a campaign accepts `sending`: two dispatches may both claim and
    send. A death after the claim leaves `sending`, which the scheduler, looking
    only for `scheduled`, never takes up again. The cancellation's write is
    unconditional: it may overwrite `sending` and be overwritten by `sent`.
  * Approval and payment of a commission are written by id after a read and may
    overwrite a reversal (commissions.service.ts:190).
* Jobs.
  * On SIGTERM a replica deletes its lease first and works on at its tick until
    `app.close()` ends or 8 s have passed (reservations-expiry.service.ts:39-43,
    push-scheduler.service.ts:40-44, main.ts:135-155), so another replica may run
    the job beside it. `OverlapNeedsOverrunOrShutdown` says that this and an overrun
    are the only ways. AbandonedViews and PushCampaigns let two ticks meet. Of
    expireReservations PaymentFlow has one pass at a time: the pass cancels an order
    by compare-and-set from `awaiting_payment` and goes on only if it won, so that a
    second pass over the same order ends there.

## 6. Not modelled, and why

* **Pricing**: sums and discounts rounded from IEEE doubles to cents; TLA+ has no
  such numbers, and there is no state. Amounts in the models are units.
* **Commissions**: rows written after the facts of orders and refunds, on which
  nothing else depends; the observation above is a single write.
* **Reconciliation, risk, metrics, health**: they read. The states the
  reconciliation looks for are what the properties above exclude.
* **Authentication**: sessions and rotating refresh tokens, on which no other part
  depends; two tabs that refresh at once log the customer out by design.
* **Mail, shipping and carriers, chat, catalogue, marketplace OAuth, reviews,
  favorites, addresses, uploads, device tokens, test sends**: I/O, queries or
  single-row operations with no property across steps.
* **Web storefront, administration UI, Android, deployment and backup**: clients of
  the API and configuration.

The mapped definitions stand for the parts of the API where state changes meet.
They are a small share of the repository's lines, most of which are pages,
controllers, queries and configuration that keep no state across steps.

Within the modelled parts, what is left out is named at the end of each section
of 2. Two compositions are not checked: refunds together with disputes (above),
and the order's stock together with the payment's detail; they meet in
`OrderStatus` and in the abstract `OrderMoney`.
