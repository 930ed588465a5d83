----------------------------- MODULE OrderStock -----------------------------
(***************************************************************************)
(* Orders against the things they hold: stock, the coupon counters and the *)
(* customer's cashback.                                                    *)
(*                                                                         *)
(* One database transaction of the code is one action.  Every conditional  *)
(* UPDATE (compare-and-set) is a guard; when it matches no row the code    *)
(* throws, the transaction is rolled back and nothing changes, so the      *)
(* action is simply not enabled.  What a handler read before its           *)
(* transaction is kept in fulfilling, refunding and batchWrites until the  *)
(* handler's own transaction runs, any number of steps later.              *)
(*                                                                         *)
(* Order items are keyed by product: CartItem is unique per cart and       *)
(* product, and an order copies the cart's rows.                           *)
(***************************************************************************)
EXTENDS Integers, FiniteSets, OrderStatus, Tally

CONSTANTS
    Orders,       \* order rows that may ever be created
    Products,
    Customers,
    Owner,        \* [Orders -> Customers]
    Demo,         \* products with isDemo = true (set by the seed only)
    InitOnHand,   \* [Products -> Nat]
    InitBalance,  \* [Customers -> Nat], cashback balance
    EarnAmount,   \* cashback credited for a paid order
    MaxQty,       \* bound: quantity of an item
    MaxCash,      \* bound: cashback spent on an order
    MaxOnHand,    \* bound: stock an administrator may set
    CouponLimits, \* the maxUses an administrator may set
    NoLimit,      \* maxUses = null
    BatchDeltas,  \* "Somar/subtrair" amounts of the admin batch screen
    MaxPending,   \* bound: order handlers of one kind between read and write
    MaxBatches    \* bound: admin batches between read and write

NoOrder == "none"   \* no row with this id yet

ASSUME OrderStockAssumption ==
    /\ IsFiniteSet(Orders)
    /\ Owner \in [Orders -> Customers]
    /\ Demo \subseteq Products
    /\ InitOnHand \in [Products -> Nat]
    /\ InitBalance \in [Customers -> Nat]
    /\ EarnAmount \in Nat
    /\ MaxQty \in Nat /\ MaxCash \in Nat /\ MaxOnHand \in Nat
    /\ CouponLimits \subseteq Nat
    /\ NoLimit \notin Nat
    /\ BatchDeltas \subseteq Int

VARIABLES
    status,       \* Order.status
    items,        \* OrderItem quantities
    withCoupon,   \* orders whose couponId is set
    cashbackUsed, \* Order.cashbackUsed
    money,        \* status of the payment that paid the order
    onHand,       \* Inventory.qtyOnHand
    reserved,     \* Inventory.qtyReserved
    journal,      \* InventoryMovement rows, unique per (item, kind)
    coupon,       \* the Coupon row
    balance,      \* User.cashbackBalance
    cashLedger,   \* CashbackLedger rows, unique per (order, kind)
    earnDue,      \* orders whose approval has yet to call creditEarnOnPaid
    fulfilling,   \* (order, from, to) of admin PATCHes past their read
    refunding,    \* (order, status read) of finalizeRefundLocal past its read
    batchWrites,  \* (product, delta, qtyOnHand read) of admin batches past their read
    adjusted      \* history: what administrators asked to add to qtyOnHand

orderVars == <<status, items, withCoupon, cashbackUsed>>
stockVars == <<onHand, reserved, journal>>
cashVars  == <<balance, cashLedger>>
handlers  == <<fulfilling, refunding, batchWrites>>
vars == <<orderVars, money, stockVars, coupon, cashVars, earnDue, handlers, adjusted>>

----------------------------------------------------------------------------
(* InventoryService *)

\* The products an order takes, and those of them whose movement of a kind
\* is not journaled yet: journal() answers false for the others, which are
\* then skipped.
ItemsOf(o) == { p \in Products : items[o][p] > 0 }
Unjournaled(o, kind) == { p \in ItemsOf(o) : <<o, p, kind>> \notin journal }

\* INSERT ... ON CONFLICT ("orderItemId", "kind") DO NOTHING
Journaled(o, kind) == journal \cup { <<o, p, kind>> : p \in ItemsOf(o) }

\* reserve(): UPDATE ... WHERE qtyOnHand - qtyReserved >= n.
ReserveIgnoringReserved(p, n) ==    \* mutant: compares with qtyOnHand alone
    p \notin Demo /\ onHand[p] >= n

CanReserve(p, n) == p \notin Demo /\ onHand[p] - reserved[p] >= n

\* The loops over the items: all compare-and-sets succeed or the tx aborts.
CanRelease(o) == \A p \in Unjournaled(o, "RELEASE") : reserved[p] >= items[o][p]

ReleaseOneItem(o) ==                \* mutant: the loop stops after one item
    /\ reserved' = LET p == CHOOSE q \in ItemsOf(o) : TRUE
                   IN  [reserved EXCEPT ![p] = @ - items[o][p]]
    /\ journal' = Journaled(o, "RELEASE")
    /\ UNCHANGED onHand

Release(o) ==
    /\ reserved' = [ p \in Products |->
                        IF p \in Unjournaled(o, "RELEASE")
                        THEN reserved[p] - items[o][p] ELSE reserved[p] ]
    /\ journal' = Journaled(o, "RELEASE")
    /\ UNCHANGED onHand

CanCommitSale(o) ==
    \A p \in ItemsOf(o) :
        /\ p \notin Demo
        /\ p \in Unjournaled(o, "COMMIT") =>
              reserved[p] >= items[o][p] /\ onHand[p] >= items[o][p]

CommitKeepingReservation(o) ==      \* mutant: qtyReserved is not given back
    LET fresh == Unjournaled(o, "COMMIT") IN
    /\ onHand' = [ p \in Products |->
                      IF p \in fresh THEN onHand[p] - items[o][p] ELSE onHand[p] ]
    /\ journal' = Journaled(o, "COMMIT")
    /\ UNCHANGED reserved

CommitSale(o) ==
    LET fresh == Unjournaled(o, "COMMIT") IN
    /\ onHand' = [ p \in Products |->
                      IF p \in fresh THEN onHand[p] - items[o][p] ELSE onHand[p] ]
    /\ reserved' = [ p \in Products |->
                      IF p \in fresh THEN reserved[p] - items[o][p] ELSE reserved[p] ]
    /\ journal' = Journaled(o, "COMMIT")

RestockUnjournaled(o) ==            \* mutant: the movement row is not written
    /\ onHand' = [ p \in Products |-> onHand[p] + items[o][p] ]
    /\ UNCHANGED <<reserved, journal>>

Restock(o) ==
    /\ onHand' = [ p \in Products |->
                      IF p \in Unjournaled(o, "RESTOCK")
                      THEN onHand[p] + items[o][p] ELSE onHand[p] ]
    /\ journal' = Journaled(o, "RESTOCK")
    /\ UNCHANGED reserved

\* Coupon counters.  consume and release match a row only while
\* reservedCount >= 1 and are silent otherwise.
ReserveCouponIgnoringReserved ==    \* mutant: counts the used uses only
    /\ coupon.active
    /\ coupon.maxUses # NoLimit => coupon.used < coupon.maxUses

CanReserveCoupon ==
    /\ coupon.active
    /\ coupon.maxUses # NoLimit => coupon.used + coupon.reserved < coupon.maxUses

ConsumeKeepingReserved ==           \* mutant: the reserved use is not converted
    IF coupon.reserved >= 1 THEN [coupon EXCEPT !.used = @ + 1] ELSE coupon

CouponAfterConsume ==
    IF coupon.reserved >= 1
    THEN [coupon EXCEPT !.reserved = @ - 1, !.used = @ + 1] ELSE coupon

CouponAfterRelease ==
    IF coupon.reserved >= 1 THEN [coupon EXCEPT !.reserved = @ - 1] ELSE coupon

----------------------------------------------------------------------------
Init ==
    /\ status = [o \in Orders |-> NoOrder]
    /\ items = [o \in Orders |-> [p \in Products |-> 0]]
    /\ withCoupon = {}
    /\ cashbackUsed = [o \in Orders |-> 0]
    /\ money = [o \in Orders |-> "none"]
    /\ onHand = InitOnHand
    /\ reserved = [p \in Products |-> 0]
    /\ journal = {}
    /\ \E limit \in CouponLimits \cup {NoLimit} :
          coupon = [active |-> TRUE, maxUses |-> limit, used |-> 0, reserved |-> 0]
    /\ balance = InitBalance
    /\ cashLedger = {}
    /\ earnDue = {}
    /\ fulfilling = {} /\ refunding = {} /\ batchWrites = {}
    /\ adjusted = [p \in Products |-> 0]

\* LoyaltyService.redeemInTx: UPDATE ... WHERE cashbackBalance >= amount.
RedeemUnchecked(o, cash) == TRUE    \* mutant: no compare-and-set on the balance

CanRedeem(o, cash) == balance[Owner[o]] >= cash

\* The transaction of OrdersService.create: the order row, one journaled
\* reservation per item, the coupon reservation and the cashback redemption.
Create(o, qty, useCoupon, cash) ==
    LET taken == { p \in Products : qty[p] > 0 } IN
    /\ status[o] = NoOrder
    /\ taken # {}
    /\ \A p \in taken : CanReserve(p, qty[p])
    /\ useCoupon => CanReserveCoupon
    /\ CanRedeem(o, cash)
    /\ status' = [status EXCEPT ![o] = "awaiting_payment"]
    /\ items' = [items EXCEPT ![o] = qty]
    /\ withCoupon' = IF useCoupon THEN withCoupon \cup {o} ELSE withCoupon
    /\ cashbackUsed' = [cashbackUsed EXCEPT ![o] = cash]
    /\ reserved' = [p \in Products |-> reserved[p] + qty[p]]
    /\ journal' = journal \cup { <<o, p, "RESERVE">> : p \in taken }
    /\ coupon' = IF useCoupon THEN [coupon EXCEPT !.reserved = @ + 1] ELSE coupon
    /\ balance' = [balance EXCEPT ![Owner[o]] = @ - cash]
    /\ cashLedger' = IF cash > 0 THEN cashLedger \cup {<<o, "redeem">>} ELSE cashLedger
    /\ UNCHANGED <<money, onHand, earnDue, handlers, adjusted>>

\* LoyaltyService.refundRedeemInTx: once, and only for a recorded redemption.
RedeemNotReturned(o) ==             \* mutant: a cancel keeps the cashback
    UNCHANGED cashVars

RefundRedeem(o) ==
    IF /\ cashbackUsed[o] > 0
       /\ <<o, "refund">> \notin cashLedger
       /\ <<o, "redeem">> \in cashLedger
    THEN /\ balance' = [balance EXCEPT ![Owner[o]] = @ + cashbackUsed[o]]
         /\ cashLedger' = cashLedger \cup {<<o, "refund">>}
    ELSE UNCHANGED cashVars

\* transitionFromAwaiting(order, 'cancelled'): the customer's cancel, the
\* expiry job and the administrator's release of a reservation.
Cancel(o) ==
    /\ status[o] = "awaiting_payment"
    /\ CanRelease(o)
    /\ status' = [status EXCEPT ![o] = "cancelled"]
    /\ Release(o)
    /\ coupon' = IF o \in withCoupon THEN CouponAfterRelease ELSE coupon
    /\ RefundRedeem(o)
    /\ UNCHANGED <<items, withCoupon, cashbackUsed, money, earnDue, handlers, adjusted>>

\* transitionFromAwaiting(order, 'paid'), run by the approval of a payment.
\* The approval goes on, outside the transaction, to creditEarnOnPaid.
MarkPaid(o) ==
    /\ status[o] = "awaiting_payment"
    /\ CanCommitSale(o)
    /\ status' = [status EXCEPT ![o] = "paid"]
    /\ CommitSale(o)
    /\ coupon' = IF o \in withCoupon THEN CouponAfterConsume ELSE coupon
    /\ money' = [money EXCEPT ![o] = "approved"]
    /\ earnDue' = earnDue \cup {o}
    /\ UNCHANGED <<items, withCoupon, cashbackUsed, cashVars, handlers, adjusted>>

\* LoyaltyService.creditEarnOnPaid.  It reads the status again, and pays only
\* for the four statuses it names; there is no retry.
CreditEarnOnPaid(o) ==
    /\ o \in earnDue
    /\ earnDue' = earnDue \ {o}
    /\ IF /\ status[o] \in {"paid", "separating", "shipped", "delivered"}
          /\ EarnAmount > 0
          /\ <<o, "earn">> \notin cashLedger
       THEN /\ balance' = [balance EXCEPT ![Owner[o]] = @ + EarnAmount]
            /\ cashLedger' = cashLedger \cup {<<o, "earn">>}
       ELSE UNCHANGED cashVars
    /\ UNCHANGED <<orderVars, money, stockVars, coupon, handlers, adjusted>>

\* The process dies between the two; the credit is never attempted again.
CrashBeforeEarn(o) ==
    /\ o \in earnDue
    /\ earnDue' = earnDue \ {o}
    /\ UNCHANGED <<orderVars, money, stockVars, coupon, cashVars, handlers, adjusted>>

\* adminUpdateFulfillmentStatus: read the order, check the allowlist, call the
\* carrier; then UPDATE ... WHERE status = from.
ReadFulfillment(o, to) ==
    /\ status[o] # NoOrder
    /\ canTransition(status[o], to)
    /\ Cardinality(fulfilling) < MaxPending
    /\ fulfilling' = fulfilling \cup {<<o, status[o], to>>}
    /\ UNCHANGED <<orderVars, money, stockVars, coupon, cashVars, earnDue,
                   refunding, batchWrites, adjusted>>

WriteFulfillmentBlind(o, from, to) ==   \* mutant: UPDATE without WHERE status = from
    /\ <<o, from, to>> \in fulfilling
    /\ fulfilling' = fulfilling \ {<<o, from, to>>}
    /\ status' = [status EXCEPT ![o] = to]
    /\ UNCHANGED <<items, withCoupon, cashbackUsed, money, stockVars, coupon,
                   cashVars, earnDue, refunding, batchWrites, adjusted>>

WriteFulfillment(o, from, to) ==
    /\ <<o, from, to>> \in fulfilling
    /\ fulfilling' = fulfilling \ {<<o, from, to>>}
    /\ status' = IF status[o] = from THEN [status EXCEPT ![o] = to] ELSE status
    /\ UNCHANGED <<items, withCoupon, cashbackUsed, money, stockVars, coupon,
                   cashVars, earnDue, refunding, batchWrites, adjusted>>

\* finalizeRefundLocal: payment and order are read before the transaction.
ReadRefund(o) ==
    /\ money[o] = "approved"
    /\ Cardinality(refunding) < MaxPending
    /\ refunding' = refunding \cup {<<o, status[o]>>}
    /\ UNCHANGED <<orderVars, money, stockVars, coupon, cashVars, earnDue,
                   fulfilling, batchWrites, adjusted>>

RefundTakesOrderBlind(o, from) ==   \* mutant: UPDATE without WHERE status = from
    isRefundAllowed(from)

RefundTakesOrder(o, from) == isRefundAllowed(from) /\ status[o] = from

\* Its transaction.  The payment is taken first; if the order has left the
\* status that was read, only the payment changes.
WriteRefund(o, from) ==
    /\ <<o, from>> \in refunding
    /\ refunding' = refunding \ {<<o, from>>}
    /\ LET takesPayment == money[o] = "approved"
           takesOrder   == takesPayment /\ RefundTakesOrder(o, from)
       IN  /\ money' = IF takesPayment THEN [money EXCEPT ![o] = "refunded"] ELSE money
           /\ status' = IF takesOrder THEN [status EXCEPT ![o] = "refunded"] ELSE status
           /\ IF takesOrder /\ shouldRestockOnRefund(from)
              THEN Restock(o) ELSE UNCHANGED stockVars
    /\ UNCHANGED <<items, withCoupon, cashbackUsed, coupon, cashVars, earnDue,
                   fulfilling, batchWrites, adjusted>>

\* setOnHandCas: UPDATE ... WHERE qtyReserved <= n.
OnHandUnchecked(p, n) == TRUE       \* mutant: no WHERE on the update

OnHandCas(p, n) == reserved[p] <= n

\* setOnHandCas with the quantity the administrator typed.
SetOnHand(p, n) ==
    /\ n \in 0 .. MaxOnHand
    /\ OnHandCas(p, n)
    /\ onHand' = [onHand EXCEPT ![p] = n]
    /\ adjusted' = [adjusted EXCEPT ![p] = @ + (n - onHand[p])]
    /\ UNCHANGED <<orderVars, money, reserved, journal, coupon, cashVars, earnDue, handlers>>

\* applyBatch in 'delta' mode: read qtyOnHand, then setOnHandCas(read + delta)
\* in the same READ COMMITTED transaction.
ReadBatchDelta(p, delta) ==
    /\ onHand[p] + delta \in 0 .. MaxOnHand
    /\ adjusted[p] + delta \in -MaxOnHand .. MaxOnHand
    /\ Cardinality(batchWrites) < MaxBatches
    /\ batchWrites' = batchWrites \cup {<<p, delta, onHand[p]>>}
    /\ UNCHANGED <<orderVars, money, stockVars, coupon, cashVars, earnDue,
                   fulfilling, refunding, adjusted>>

WriteBatchDelta(p, delta, read) ==
    /\ <<p, delta, read>> \in batchWrites
    /\ batchWrites' = batchWrites \ {<<p, delta, read>>}
    /\ IF OnHandCas(p, read + delta)
       THEN /\ onHand' = [onHand EXCEPT ![p] = read + delta]
            /\ adjusted' = [adjusted EXCEPT ![p] = @ + delta]
       ELSE UNCHANGED <<onHand, adjusted>>
    /\ UNCHANGED <<orderVars, money, reserved, journal, coupon, cashVars, earnDue,
                   fulfilling, refunding>>

\* CouponsService.updateAdmin: the limit may be set below what is in use.
UpdateCoupon(active, maxUses) ==
    /\ coupon' = [coupon EXCEPT !.active = active, !.maxUses = maxUses]
    /\ UNCHANGED <<orderVars, money, stockVars, cashVars, earnDue, handlers, adjusted>>

Next ==
    \/ \E o \in Orders :
        \/ \E qty \in [Products -> 0 .. MaxQty], useCoupon \in BOOLEAN,
              cash \in 0 .. MaxCash : Create(o, qty, useCoupon, cash)
        \/ Cancel(o)
        \/ MarkPaid(o)
        \/ CreditEarnOnPaid(o)
        \/ CrashBeforeEarn(o)
        \/ \E to \in ADMIN_FULFILLMENT_TARGETS : ReadFulfillment(o, to)
        \/ ReadRefund(o)
    \/ \E f \in fulfilling : WriteFulfillment(f[1], f[2], f[3])
    \/ \E r \in refunding : WriteRefund(r[1], r[2])
    \/ \E p \in Products :
        \/ \E n \in 0 .. MaxOnHand : SetOnHand(p, n)
        \/ \E delta \in BatchDeltas : ReadBatchDelta(p, delta)
    \/ \E b \in batchWrites : WriteBatchDelta(b[1], b[2], b[3])
    \/ \E active \in BOOLEAN, maxUses \in CouponLimits \cup {NoLimit} :
        UpdateCoupon(active, maxUses)

Spec == Init /\ [][Next]_vars

----------------------------------------------------------------------------
(* Properties *)

MovementKinds == {"RESERVE", "RELEASE", "COMMIT", "RESTOCK"}
LedgerKinds == {"redeem", "refund", "earn"}
CouponRow == [active : BOOLEAN, maxUses : CouponLimits \cup {NoLimit},
              used : Nat, reserved : Nat]

\* Types of the rows and of the reads handlers carry.
TypeOK ==
    /\ status \in [Orders -> OrderStatuses \cup {NoOrder}]
    /\ items \in [Orders -> [Products -> 0 .. MaxQty]]
    /\ withCoupon \subseteq Orders
    /\ cashbackUsed \in [Orders -> 0 .. MaxCash]
    /\ money \in [Orders -> {"none", "approved", "refunded"}]
    /\ onHand \in [Products -> Nat]
    /\ reserved \in [Products -> Nat]
    /\ journal \subseteq Orders \X Products \X MovementKinds
    /\ coupon \in CouponRow
    /\ balance \in [Customers -> Nat]
    /\ cashLedger \subseteq Orders \X LedgerKinds
    /\ earnDue \subseteq Orders
    /\ fulfilling \subseteq Orders \X OrderStatuses \X ADMIN_FULFILLMENT_TARGETS
    /\ refunding \subseteq Orders \X OrderStatuses
    /\ batchWrites \subseteq Products \X BatchDeltas \X Nat
    /\ adjusted \in [Products -> Int]

Awaiting == { o \in Orders : status[o] = "awaiting_payment" }

\* The quantities of product p by order, in the shape Tally takes.
Qty(p) == [o \in Orders |-> items[o][p]]

\* qtyReserved of a product is exactly what the orders awaiting payment hold:
\* no path leaks a reservation or gives one back twice (the drift that
\* checkInventory reports as STOCK_RESERVED_DRIFT).
ReservedMatchesOpenOrders ==
    \A p \in Products : reserved[p] = Tally(Awaiting, Qty(p), MaxQty)

\* A product is never promised beyond its stock, whatever administrators type
\* while customers reserve (the database CHECK reserved <= onHand never fires).
NeverOversold == \A p \in Products : reserved[p] <= onHand[p]

\* The journal tells the story of the order: an item is committed once the
\* order was paid and not otherwise, released exactly when it was cancelled,
\* and returned to stock only by a refund.
JournalMatchesStatus ==
    \A o \in Orders : \A p \in ItemsOf(o) :
        /\ <<o, p, "RESERVE">> \in journal
        /\ <<o, p, "RELEASE">> \in journal <=> status[o] = "cancelled"
        /\ <<o, p, "COMMIT">> \in journal <=> status[o] \in POST_PAID_STATUSES \cup {"refunded"}
        /\ <<o, p, "RESTOCK">> \in journal => status[o] = "refunded"

\* Goods neither vanish nor appear: stock is the initial quantity plus what
\* administrators added, less what was sold and not returned.
Sold(p) == { o \in Orders : <<o, p, "COMMIT">> \in journal /\ <<o, p, "RESTOCK">> \notin journal }
StockConserved ==
    \A p \in Products :
        onHand[p] = InitOnHand[p] + adjusted[p] - Tally(Sold(p), Qty(p), MaxQty)

\* reservedCount counts the open orders with the coupon and usedCount those
\* that were paid, so neither a cancel nor a refund frees or spends a use twice.
CouponCountsOrders ==
    /\ coupon.reserved = Cardinality(withCoupon \cap Awaiting)
    /\ coupon.used = Cardinality({ o \in withCoupon :
                        status[o] \in POST_PAID_STATUSES \cup {"refunded"} })

\* No order takes the coupon past the limit in force when it is created, and
\* no other step moves the total up: an approval turns a reserved use into a
\* used one.  (The limit itself may be lowered below the uses.)
CouponLimitRespected ==
    [][ coupon'.used + coupon'.reserved > coupon.used + coupon.reserved
          => (coupon.maxUses # NoLimit =>
                coupon'.used + coupon'.reserved <= coupon.maxUses) ]_vars

\* Cashback is conserved per customer: balance = initial + earned - spent,
\* where what was spent on a cancelled order has come back.
Spent(c)  == { o \in Orders : /\ Owner[o] = c
                              /\ <<o, "redeem">> \in cashLedger
                              /\ status[o] # "cancelled" }
Earned(c) == { o \in Orders : Owner[o] = c /\ <<o, "earn">> \in cashLedger }
CashbackConserved ==
    \A c \in Customers :
        balance[c] = InitBalance[c] + EarnAmount * Cardinality(Earned(c))
                       - Tally(Spent(c), cashbackUsed, MaxCash)

\* Whatever the delay between a handler's read and its write, an order only
\* moves along the allowlist, and a row is born awaiting payment.
StatusFollowsAllowlist ==
    [][ \A o \in Orders : status'[o] # status[o] =>
          \/ status[o] = NoOrder /\ status'[o] = "awaiting_payment"
          \/ status[o] # NoOrder /\ canTransition(status[o], status'[o]) ]_vars

\* A refund returns goods to stock only when they had not left the warehouse
\* at the moment the order was refunded, and always then.
RestockFromWarehouseOnly ==
    [][ \A o \in Orders :
          (status[o] # "refunded" /\ status'[o] = "refunded") =>
              \A p \in ItemsOf(o) :
                  <<o, p, "RESTOCK">> \in journal' <=> status[o] \in REFUND_RESTOCK_STATUSES ]_vars

\* FINANCIAL_ARCHITECTURE.md: a total refund leaves the order refunded.  (An
\* order delivered before the refund was recorded keeps its status by design
\* of the allowlist.)  Not an invariant of the code: see the README.
RefundedPaymentRefundsOrder ==
    \A o \in Orders : money[o] = "refunded" => status[o] \in {"refunded", "delivered"}
============================================================================
