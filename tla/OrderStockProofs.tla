-------------------------- MODULE OrderStockProofs --------------------------
(***************************************************************************)
(* For any number of orders, products and customers, and any quantities:   *)
(* stock reservations match the open orders, nothing is oversold, the      *)
(* journal tells the story of the order, statuses follow the allowlist,    *)
(* the coupon counters count orders, cashback is conserved, and so are the *)
(* goods while administrators make no relative batch edits.                *)
(***************************************************************************)
EXTENDS OrderStock, TallyProofs

PaidStatuses == POST_PAID_STATUSES \cup {"refunded"}

\* The strengthening.  A row that does not exist has no journal; a payment is
\* approved only on an order that was paid; a handler only carries a pair of
\* statuses the allowlist admits.
FreshRows ==
    \A o \in Orders : status[o] = NoOrder =>
        \A p \in Products, k \in MovementKinds : <<o, p, k>> \notin journal
MoneyOnPaidOrders ==
    \A o \in Orders : money[o] # "none" => status[o] \in PaidStatuses
HandlersAllowed == \A f \in fulfilling : canTransition(f[2], f[3])

CoreInv == TypeOK /\ FreshRows /\ MoneyOnPaidOrders /\ HandlersAllowed
StockInv == CoreInv /\ JournalMatchesStatus /\ NeverOversold

----------------------------------------------------------------------------
\* What the proofs need of the status graph: fulfillment moves paid orders to
\* paid orders, and only a paid order can be refunded.
LEMMA FulfillmentTransitions ==
    ASSUME NEW from \in OrderStatuses, NEW to \in ADMIN_FULFILLMENT_TARGETS,
           canTransition(from, to)
    PROVE  from \in POST_PAID_STATUSES /\ to \in POST_PAID_STATUSES
BY DEF canTransition, ORDER_TRANSITIONS, OrderStatuses,
       ADMIN_FULFILLMENT_TARGETS, POST_PAID_STATUSES

LEMMA RefundTransitions ==
    ASSUME NEW from \in OrderStatuses, isRefundAllowed(from)
    PROVE  from \in POST_PAID_STATUSES
BY DEF isRefundAllowed, canTransition, ORDER_TRANSITIONS, OrderStatuses,
       POST_PAID_STATUSES

LEMMA FulfillmentTargetsArePaid ==
    ADMIN_FULFILLMENT_TARGETS \subseteq POST_PAID_STATUSES
BY DEF ADMIN_FULFILLMENT_TARGETS, POST_PAID_STATUSES

LEMMA StatusNames ==
    /\ POST_PAID_STATUSES \subseteq OrderStatuses
    /\ PaidStatuses \subseteq OrderStatuses
    /\ {"awaiting_payment", "cancelled", "paid", "refunded"} \subseteq OrderStatuses
    /\ NoOrder \notin OrderStatuses
    /\ "paid" \in POST_PAID_STATUSES /\ "refunded" \notin POST_PAID_STATUSES
    /\ {"awaiting_payment", "cancelled", NoOrder} \cap PaidStatuses = {}
BY DEF POST_PAID_STATUSES, OrderStatuses, PaidStatuses, NoOrder

LEMMA CouponUpdates ==
    coupon \in CouponRow =>
        /\ [coupon EXCEPT !.reserved = @ + 1] \in CouponRow
        /\ CouponAfterConsume \in CouponRow
        /\ CouponAfterRelease \in CouponRow
<1> SUFFICES ASSUME coupon \in CouponRow
             PROVE  /\ [coupon EXCEPT !.reserved = @ + 1] \in CouponRow
                    /\ CouponAfterConsume \in CouponRow
                    /\ CouponAfterRelease \in CouponRow
    OBVIOUS
<1>1. coupon.used \in Nat /\ coupon.reserved \in Nat
    BY DEF CouponRow
<1>2. [coupon EXCEPT !.reserved = @ + 1] \in CouponRow
    BY <1>1 DEF CouponRow
<1>3. CouponAfterConsume \in CouponRow
    <2>1. ASSUME coupon.reserved >= 1
          PROVE  [coupon EXCEPT !.reserved = @ - 1, !.used = @ + 1] \in CouponRow
        <3>1. coupon.reserved - 1 \in Nat /\ coupon.used + 1 \in Nat
            BY <1>1, <2>1
        <3>. QED
            BY <3>1 DEF CouponRow
    <2>. QED
        BY <2>1 DEF CouponAfterConsume
<1>4. CouponAfterRelease \in CouponRow
    BY <1>1 DEF CouponRow, CouponAfterRelease
<1>. QED
    BY <1>2, <1>3, <1>4

----------------------------------------------------------------------------
LEMMA CoreInit == Init => CoreInv
<1> SUFFICES ASSUME Init PROVE CoreInv
    OBVIOUS
<1>. USE OrderStockAssumption
<1>1. TypeOK
    <2>1. coupon \in CouponRow
        BY DEF Init, CouponRow
    <2>2. /\ items \in [Orders -> [Products -> 0 .. MaxQty]]
          /\ cashbackUsed \in [Orders -> 0 .. MaxCash]
        BY DEF Init
    <2>3. /\ status \in [Orders -> OrderStatuses \cup {NoOrder}]
          /\ money \in [Orders -> {"none", "approved", "refunded"}]
          /\ onHand \in [Products -> Nat] /\ reserved \in [Products -> Nat]
          /\ balance \in [Customers -> Nat] /\ adjusted \in [Products -> Int]
        BY DEF Init
    <2>. QED
        BY <2>1, <2>2, <2>3 DEF Init, TypeOK
<1>2. FreshRows /\ MoneyOnPaidOrders /\ HandlersAllowed
    BY DEF Init, FreshRows, MoneyOnPaidOrders, HandlersAllowed
<1>. QED
    BY <1>1, <1>2 DEF CoreInv

LEMMA CoreStep == CoreInv /\ [Next]_vars => CoreInv'
<1> SUFFICES ASSUME CoreInv, [Next]_vars PROVE CoreInv'
    OBVIOUS
<1>. USE OrderStockAssumption
<1>1. ASSUME NEW o \in Orders, NEW qty \in [Products -> 0 .. MaxQty],
             NEW useCoupon \in BOOLEAN, NEW cash \in 0 .. MaxCash,
             Create(o, qty, useCoupon, cash)
      PROVE  CoreInv'
    <2>1. TypeOK'
        <3>1. /\ status' \in [Orders -> OrderStatuses \cup {NoOrder}]
              /\ items' \in [Orders -> [Products -> 0 .. MaxQty]]
              /\ withCoupon' \subseteq Orders
              /\ cashbackUsed' \in [Orders -> 0 .. MaxCash]
            BY <1>1, StatusNames DEF Create, CanReserve, CanRedeem, CoreInv, TypeOK
        <3>2. reserved' \in [Products -> Nat]
            BY <1>1 DEF Create, CanReserve, CanRedeem, CoreInv, TypeOK
        <3>3. journal' \subseteq Orders \X Products \X MovementKinds
            BY <1>1 DEF Create, CanReserve, CanRedeem, CoreInv, TypeOK, MovementKinds
        <3>4. coupon' \in CouponRow
            BY <1>1, CouponUpdates DEF Create, CanReserve, CanRedeem, CoreInv, TypeOK
        <3>5. balance' \in [Customers -> Nat] /\ cashLedger' \subseteq Orders \X LedgerKinds
            BY <1>1 DEF Create, CanReserve, CanRedeem, CoreInv, TypeOK, LedgerKinds
        <3>. QED
            BY <1>1, <3>1, <3>2, <3>3, <3>4, <3>5
               DEF Create, CanReserve, CanRedeem, CoreInv, TypeOK, handlers
    <2>2. FreshRows'
        BY <1>1, StatusNames DEF Create, CanReserve, CanRedeem, CoreInv, TypeOK, FreshRows
    <2>3. MoneyOnPaidOrders' /\ HandlersAllowed'
        BY <1>1, StatusNames
           DEF Create, CanReserve, CanRedeem, CoreInv, TypeOK, MoneyOnPaidOrders, HandlersAllowed, handlers
    <2>. QED
        BY <2>1, <2>2, <2>3 DEF CoreInv
<1>2. ASSUME NEW o \in Orders, Cancel(o)
      PROVE  CoreInv'
    <2>1. TypeOK'
        <3>1. reserved' \in [Products -> Nat]
            BY <1>2 DEF Cancel, Release, CanRelease, Unjournaled, ItemsOf, CoreInv, TypeOK
        <3>2. journal' \subseteq Orders \X Products \X MovementKinds
            BY <1>2 DEF Cancel, Release, Journaled, ItemsOf, MovementKinds, CoreInv, TypeOK
        <3>3. coupon' \in CouponRow
            BY <1>2, CouponUpdates DEF Cancel, CoreInv, TypeOK
        <3>4. balance' \in [Customers -> Nat] /\ cashLedger' \subseteq Orders \X LedgerKinds
            BY <1>2 DEF Cancel, RefundRedeem, CoreInv, TypeOK, LedgerKinds, cashVars
        <3>. QED
            BY <1>2, <3>1, <3>2, <3>3, <3>4, StatusNames
               DEF Cancel, Release, CoreInv, TypeOK, handlers
    <2>2. FreshRows'
        BY <1>2, StatusNames DEF Cancel, Release, Journaled, CoreInv, TypeOK, FreshRows
    <2>3. MoneyOnPaidOrders' /\ HandlersAllowed'
        BY <1>2, StatusNames
           DEF Cancel, CoreInv, TypeOK, MoneyOnPaidOrders, HandlersAllowed, handlers
    <2>. QED
        BY <2>1, <2>2, <2>3 DEF CoreInv
<1>3. ASSUME NEW o \in Orders, MarkPaid(o)
      PROVE  CoreInv'
    <2>1. TypeOK'
        <3>1. reserved' \in [Products -> Nat] /\ onHand' \in [Products -> Nat]
            BY <1>3 DEF MarkPaid, CommitSale, CanCommitSale, Unjournaled, ItemsOf, CoreInv, TypeOK
        <3>2. journal' \subseteq Orders \X Products \X MovementKinds
            BY <1>3 DEF MarkPaid, CommitSale, Journaled, ItemsOf, MovementKinds, CoreInv, TypeOK
        <3>3. coupon' \in CouponRow
            BY <1>3, CouponUpdates DEF MarkPaid, CoreInv, TypeOK
        <3>. QED
            BY <1>3, <3>1, <3>2, <3>3, StatusNames
               DEF MarkPaid, CoreInv, TypeOK, handlers, cashVars
    <2>2. FreshRows'
        BY <1>3, StatusNames DEF MarkPaid, CommitSale, Journaled, CoreInv, TypeOK, FreshRows
    <2>3. MoneyOnPaidOrders' /\ HandlersAllowed'
        BY <1>3, StatusNames
           DEF MarkPaid, CoreInv, TypeOK, MoneyOnPaidOrders, HandlersAllowed, handlers, PaidStatuses
    <2>. QED
        BY <2>1, <2>2, <2>3 DEF CoreInv
<1>4. ASSUME NEW o \in Orders, CreditEarnOnPaid(o)
      PROVE  CoreInv'
    <2>1. balance' \in [Customers -> Nat] /\ cashLedger' \subseteq Orders \X LedgerKinds
        <3>1. Owner[o] \in Customers /\ balance[Owner[o]] + EarnAmount \in Nat
            BY DEF CoreInv, TypeOK
        <3>2. CASE UNCHANGED cashVars
            BY <3>2 DEF CoreInv, TypeOK, cashVars
        <3>3. CASE /\ balance' = [balance EXCEPT ![Owner[o]] = @ + EarnAmount]
                   /\ cashLedger' = cashLedger \cup {<<o, "earn">>}
            BY <3>1, <3>3 DEF CoreInv, TypeOK, LedgerKinds
        <3>. QED
            BY <1>4, <3>2, <3>3 DEF CreditEarnOnPaid
    <2>. QED
      BY <1>4, <2>1 DEF CreditEarnOnPaid, CoreInv, TypeOK, LedgerKinds, FreshRows, MoneyOnPaidOrders,
                HandlersAllowed, orderVars, stockVars, cashVars, handlers
<1>5. ASSUME NEW o \in Orders, CrashBeforeEarn(o)
      PROVE  CoreInv'
    BY <1>5 DEF CrashBeforeEarn, CoreInv, TypeOK, FreshRows, MoneyOnPaidOrders,
                HandlersAllowed, orderVars, stockVars, cashVars, handlers
<1>6. ASSUME NEW o \in Orders, NEW to \in ADMIN_FULFILLMENT_TARGETS, ReadFulfillment(o, to)
      PROVE  CoreInv'
    <2>1. status[o] \in OrderStatuses
        BY <1>6 DEF ReadFulfillment, CoreInv, TypeOK
    <2>. QED
        BY <1>6, <2>1 DEF ReadFulfillment, CoreInv, TypeOK, FreshRows, MoneyOnPaidOrders,
                HandlersAllowed, orderVars, stockVars, cashVars
<1>7. ASSUME NEW f \in fulfilling, WriteFulfillment(f[1], f[2], f[3])
      PROVE  CoreInv'
    <2> DEFINE o == f[1]
    <2>1. /\ o \in Orders /\ f[2] \in OrderStatuses /\ f[3] \in ADMIN_FULFILLMENT_TARGETS
          /\ canTransition(f[2], f[3])
        BY DEF CoreInv, TypeOK, HandlersAllowed
    <2>2. f[2] \in POST_PAID_STATUSES /\ f[3] \in POST_PAID_STATUSES
        BY <2>1, FulfillmentTransitions
    <2>3. TypeOK'
        BY <1>7, <2>1, <2>2, StatusNames
           DEF WriteFulfillment, CoreInv, TypeOK, stockVars, cashVars
    <2>4. FreshRows'
        BY <1>7, <2>1, <2>2, StatusNames
           DEF WriteFulfillment, CoreInv, TypeOK, FreshRows, stockVars
    <2>5. MoneyOnPaidOrders' /\ HandlersAllowed'
        BY <1>7, <2>1, <2>2
           DEF WriteFulfillment, CoreInv, TypeOK, MoneyOnPaidOrders, HandlersAllowed, PaidStatuses
    <2>. QED
        BY <2>3, <2>4, <2>5 DEF CoreInv
<1>8. ASSUME NEW o \in Orders, ReadRefund(o)
      PROVE  CoreInv'
    <2>1. status[o] \in OrderStatuses
        BY <1>8, StatusNames DEF ReadRefund, CoreInv, MoneyOnPaidOrders
    <2>. QED
        BY <1>8, <2>1 DEF ReadRefund, CoreInv, TypeOK, FreshRows, MoneyOnPaidOrders,
                HandlersAllowed, orderVars, stockVars, cashVars
<1>9. ASSUME NEW r \in refunding, WriteRefund(r[1], r[2])
      PROVE  CoreInv'
    <2> DEFINE o == r[1]
    <2>1. o \in Orders /\ r[2] \in OrderStatuses
        BY DEF CoreInv, TypeOK
    <2>2. TypeOK'
        <3>1. onHand' \in [Products -> Nat]
            <4>1. onHand' = onHand \/ Restock(o)
                BY <1>9 DEF WriteRefund, RefundTakesOrder, stockVars
            <4>2. \A p \in Products : items[o][p] \in Nat /\ onHand[p] \in Nat
                BY <2>1 DEF CoreInv, TypeOK
            <4>. QED
                BY <4>1, <4>2 DEF Restock, CoreInv, TypeOK
        <3>2. reserved' = reserved /\ journal' \subseteq Orders \X Products \X MovementKinds
            BY <1>9, <2>1 DEF WriteRefund, RefundTakesOrder, Restock, Journaled, ItemsOf, MovementKinds,
                              CoreInv, TypeOK, stockVars
        <3>3. /\ status' \in [Orders -> OrderStatuses \cup {NoOrder}]
              /\ money' \in [Orders -> {"none", "approved", "refunded"}]
            BY <1>9, <2>1, StatusNames DEF WriteRefund, RefundTakesOrder, CoreInv, TypeOK
        <3>. QED
            BY <1>9, <2>1, <3>1, <3>2, <3>3 DEF WriteRefund, RefundTakesOrder, CoreInv, TypeOK, cashVars
    <2>3. FreshRows'
        BY <1>9, <2>1, StatusNames
           DEF WriteRefund, RefundTakesOrder, Restock, Journaled, CoreInv, TypeOK, FreshRows, stockVars
    <2>4. MoneyOnPaidOrders' /\ HandlersAllowed'
        BY <1>9, <2>1
           DEF WriteRefund, RefundTakesOrder, CoreInv, TypeOK, MoneyOnPaidOrders, HandlersAllowed, PaidStatuses
    <2>. QED
        BY <2>2, <2>3, <2>4 DEF CoreInv
<1>10. ASSUME NEW p \in Products, NEW n \in 0 .. MaxOnHand, SetOnHand(p, n)
       PROVE  CoreInv'
    BY <1>10 DEF SetOnHand, OnHandCas, CoreInv, TypeOK, FreshRows, MoneyOnPaidOrders,
                 HandlersAllowed, orderVars, cashVars, handlers
<1>11. ASSUME NEW p \in Products, NEW delta \in BatchDeltas, ReadBatchDelta(p, delta)
       PROVE  CoreInv'
    BY <1>11 DEF ReadBatchDelta, CoreInv, TypeOK, FreshRows, MoneyOnPaidOrders,
                 HandlersAllowed, orderVars, stockVars, cashVars
<1>12. ASSUME NEW b \in batchWrites, WriteBatchDelta(b[1], b[2], b[3])
       PROVE  CoreInv'
    <2>1. b[1] \in Products /\ b[2] \in Int /\ b[3] \in Nat
        BY DEF CoreInv, TypeOK
    <2>2. onHand' \in [Products -> Nat] /\ adjusted' \in [Products -> Int]
        <3>1. b[3] + b[2] \in Int /\ reserved[b[1]] \in Nat /\ adjusted[b[1]] + b[2] \in Int
            BY <2>1 DEF CoreInv, TypeOK
        <3>2. reserved[b[1]] <= b[3] + b[2] => b[3] + b[2] \in Nat
            BY <3>1
        <3>. QED
            BY <1>12, <2>1, <3>1, <3>2 DEF WriteBatchDelta, OnHandCas, CoreInv, TypeOK
    <2>. QED
        BY <1>12, <2>1, <2>2 DEF WriteBatchDelta, OnHandCas, CoreInv, TypeOK, FreshRows, MoneyOnPaidOrders,
                     HandlersAllowed, orderVars, cashVars
<1>13. ASSUME NEW active \in BOOLEAN, NEW maxUses \in CouponLimits \cup {NoLimit},
              UpdateCoupon(active, maxUses)
       PROVE  CoreInv'
    BY <1>13 DEF UpdateCoupon, CoreInv, TypeOK, FreshRows, MoneyOnPaidOrders,
                 HandlersAllowed, orderVars, stockVars, cashVars, handlers, CouponRow
<1>14. CASE UNCHANGED vars
    BY <1>14 DEF vars, CoreInv, TypeOK, FreshRows, MoneyOnPaidOrders,
                 HandlersAllowed, orderVars, stockVars, cashVars, handlers
<1>. QED
    BY <1>1, <1>2, <1>3, <1>4, <1>5, <1>6, <1>7, <1>8, <1>9, <1>10, <1>11, <1>12,
       <1>13, <1>14 DEF Next

\* Every row keeps its type, whatever the interleaving of handlers.
THEOREM TypeCorrect == Spec => []TypeOK
<1>1. CoreInv => TypeOK
    BY DEF CoreInv
<1>. QED
    BY <1>1, CoreInit, CoreStep, PTL DEF Spec

----------------------------------------------------------------------------
(* The steps, grouped by what they write *)

Quiet ==
    /\ UNCHANGED <<status, items, withCoupon, onHand, reserved, journal, adjusted>>
    /\ coupon'.used = coupon.used /\ coupon'.reserved = coupon.reserved

LEMMA NextCases ==
    ASSUME CoreInv, [Next]_vars
    PROVE  \/ \E o \in Orders, qty \in [Products -> 0 .. MaxQty], useCoupon \in BOOLEAN,
               cash \in 0 .. MaxCash : Create(o, qty, useCoupon, cash)
           \/ \E o \in Orders : Cancel(o) \/ MarkPaid(o)
           \/ \E f \in fulfilling : WriteFulfillment(f[1], f[2], f[3])
           \/ \E r \in refunding : WriteRefund(r[1], r[2])
           \/ \E p \in Products, n \in 0 .. MaxOnHand : SetOnHand(p, n)
           \/ \E b \in batchWrites : WriteBatchDelta(b[1], b[2], b[3])
           \/ Quiet
<1>1. ASSUME NEW o \in Orders, CreditEarnOnPaid(o) \/ CrashBeforeEarn(o) \/ ReadRefund(o)
      PROVE  Quiet
    BY <1>1 DEF CreditEarnOnPaid, CrashBeforeEarn, ReadRefund, Quiet, orderVars, stockVars
<1>2. ASSUME NEW o \in Orders, NEW to \in ADMIN_FULFILLMENT_TARGETS, ReadFulfillment(o, to)
      PROVE  Quiet
    BY <1>2 DEF ReadFulfillment, Quiet, orderVars, stockVars
<1>3. ASSUME NEW p \in Products, NEW delta \in BatchDeltas, ReadBatchDelta(p, delta)
      PROVE  Quiet
    BY <1>3 DEF ReadBatchDelta, Quiet, orderVars, stockVars
<1>4. ASSUME NEW active \in BOOLEAN, NEW maxUses \in CouponLimits \cup {NoLimit},
             UpdateCoupon(active, maxUses)
      PROVE  Quiet
    BY <1>4 DEF UpdateCoupon, Quiet, orderVars, stockVars, CoreInv, TypeOK, CouponRow
<1>5. UNCHANGED vars => Quiet
    BY DEF vars, Quiet, orderVars, stockVars
<1>. QED
    BY <1>1, <1>2, <1>3, <1>4, <1>5 DEF Next

----------------------------------------------------------------------------
(* Statuses *)

LEMMA StatusStep ==
    ASSUME CoreInv, [Next]_vars, NEW o \in Orders, status'[o] # status[o]
    PROVE  \/ status[o] = NoOrder /\ status'[o] = "awaiting_payment"
           \/ status[o] # NoOrder /\ canTransition(status[o], status'[o])
<1>. USE StatusNames DEF CoreInv, TypeOK
<1>0. /\ canTransition("awaiting_payment", "paid")
      /\ canTransition("awaiting_payment", "cancelled")
    BY DEF canTransition, ORDER_TRANSITIONS, OrderStatuses
<1>1. ASSUME NEW w \in Orders, NEW qty \in [Products -> 0 .. MaxQty],
             NEW useCoupon \in BOOLEAN, NEW cash \in 0 .. MaxCash,
             Create(w, qty, useCoupon, cash)
      PROVE  status[o] = NoOrder /\ status'[o] = "awaiting_payment"
    BY <1>1 DEF Create, CanReserve, CanRedeem
<1>2. ASSUME NEW w \in Orders, Cancel(w)
      PROVE  status[o] = "awaiting_payment" /\ status'[o] = "cancelled"
    BY <1>2 DEF Cancel
<1>3. ASSUME NEW w \in Orders, MarkPaid(w)
      PROVE  status[o] = "awaiting_payment" /\ status'[o] = "paid"
    BY <1>3 DEF MarkPaid
<1>4. ASSUME NEW f \in fulfilling, WriteFulfillment(f[1], f[2], f[3])
      PROVE  status[o] \in OrderStatuses /\ canTransition(status[o], status'[o])
    <2>1. /\ f[1] \in Orders /\ f[2] \in OrderStatuses /\ canTransition(f[2], f[3])
        BY DEF HandlersAllowed
    <2>2. f[1] = o /\ status[o] = f[2] /\ status'[o] = f[3]
        BY <1>4, <2>1 DEF WriteFulfillment
    <2>. QED
        BY <2>1, <2>2
<1>5. ASSUME NEW r \in refunding, WriteRefund(r[1], r[2])
      PROVE  status[o] \in OrderStatuses /\ canTransition(status[o], status'[o])
    <2>1. r[1] \in Orders /\ r[2] \in OrderStatuses
        OBVIOUS
    <2>2. r[1] = o /\ status[o] = r[2] /\ status'[o] = "refunded" /\ isRefundAllowed(r[2])
        BY <1>5, <2>1 DEF WriteRefund, RefundTakesOrder
    <2>. QED
        BY <2>1, <2>2 DEF isRefundAllowed
<1>6. ASSUME UNCHANGED status PROVE FALSE
    BY <1>6
<1>7. ASSUME NEW p \in Products, NEW n \in 0 .. MaxOnHand, SetOnHand(p, n)
      PROVE  UNCHANGED status
    BY <1>7 DEF SetOnHand, OnHandCas, orderVars
<1>8. ASSUME NEW b \in batchWrites, WriteBatchDelta(b[1], b[2], b[3])
      PROVE  UNCHANGED status
    BY <1>8 DEF WriteBatchDelta, OnHandCas, orderVars
<1>9. "awaiting_payment" # NoOrder /\ NoOrder \notin OrderStatuses
    BY DEF NoOrder
<1>. HIDE DEF CoreInv, TypeOK
<1>. QED
    BY <1>0, <1>1, <1>2, <1>3, <1>4, <1>5, <1>6, <1>7, <1>8, <1>9, NextCases DEF Quiet

\* However old the status a handler read, the order it writes moves along the
\* allowlist of order-status.ts.
THEOREM AllowlistFollowed == Spec => StatusFollowsAllowlist
<1>1. CoreInv /\ [Next]_vars =>
        [ \A o \in Orders : status'[o] # status[o] =>
            \/ status[o] = NoOrder /\ status'[o] = "awaiting_payment"
            \/ status[o] # NoOrder /\ canTransition(status[o], status'[o]) ]_vars
    BY StatusStep
<1>. QED
    BY <1>1, CoreInit, CoreStep, PTL DEF Spec, StatusFollowsAllowlist

----------------------------------------------------------------------------
(* Journal and oversell *)

LEMMA StockInit == Init => JournalMatchesStatus /\ NeverOversold
BY StatusNames, OrderStockAssumption
   DEF Init, JournalMatchesStatus, ItemsOf, NeverOversold

LEMMA JournalStep ==
    CoreInv /\ JournalMatchesStatus /\ [Next]_vars => JournalMatchesStatus'
<1> SUFFICES ASSUME CoreInv, JournalMatchesStatus, [Next]_vars
             PROVE  JournalMatchesStatus'
    OBVIOUS
<1>. USE StatusNames DEF CoreInv, TypeOK, JournalMatchesStatus, ItemsOf, PaidStatuses
<1>1. ASSUME NEW o \in Orders, NEW qty \in [Products -> 0 .. MaxQty],
             NEW useCoupon \in BOOLEAN, NEW cash \in 0 .. MaxCash,
             Create(o, qty, useCoupon, cash)
      PROVE  JournalMatchesStatus'
    <2> SUFFICES ASSUME NEW w \in Orders, NEW p \in Products, items'[w][p] > 0
                 PROVE  /\ <<w, p, "RESERVE">> \in journal'
                        /\ <<w, p, "RELEASE">> \in journal' <=> status'[w] = "cancelled"
                        /\ <<w, p, "COMMIT">> \in journal' <=> status'[w] \in PaidStatuses
                        /\ <<w, p, "RESTOCK">> \in journal' => status'[w] = "refunded"
        OBVIOUS
    <2>1. CASE w = o
        <3>1. \A k \in MovementKinds : <<o, p, k>> \notin journal
            BY <1>1 DEF Create, CanReserve, CanRedeem, FreshRows
        <3>2. status'[o] = "awaiting_payment" /\ items'[o] = qty
            BY <1>1 DEF Create, CanReserve, CanRedeem
        <3>3. journal' = journal \cup { <<o, x, "RESERVE">> : x \in {y \in Products : qty[y] > 0} }
            BY <1>1 DEF Create, CanReserve, CanRedeem
        <3>. QED
            BY <2>1, <3>1, <3>2, <3>3 DEF MovementKinds
    <2>2. CASE w # o
        <3>1. status'[w] = status[w] /\ items'[w] = items[w]
            BY <1>1, <2>2 DEF Create, CanReserve, CanRedeem
        <3>2. \A k : <<w, p, k>> \in journal' <=> <<w, p, k>> \in journal
            BY <1>1, <2>2 DEF Create, CanReserve, CanRedeem
        <3>. QED
            BY <3>1, <3>2
    <2>. QED
        BY <2>1, <2>2
<1>2. ASSUME NEW o \in Orders, Cancel(o) PROVE JournalMatchesStatus'
    BY <1>2 DEF Cancel, Release, Journaled
<1>3. ASSUME NEW o \in Orders, MarkPaid(o) PROVE JournalMatchesStatus'
    BY <1>3 DEF MarkPaid, CommitSale, Journaled
<1>4. ASSUME NEW f \in fulfilling, WriteFulfillment(f[1], f[2], f[3])
      PROVE  JournalMatchesStatus'
    <2>1. /\ f[1] \in Orders /\ f[2] \in POST_PAID_STATUSES /\ f[3] \in POST_PAID_STATUSES
        BY FulfillmentTransitions DEF HandlersAllowed
    <2>2. UNCHANGED <<items, journal>>
        BY <1>4 DEF WriteFulfillment, stockVars
    <2>3. \/ status' = status
          \/ status[f[1]] = f[2] /\ status' = [status EXCEPT ![f[1]] = f[3]]
        BY <1>4 DEF WriteFulfillment
    <2>4. ASSUME NEW w \in Orders
          PROVE  /\ status'[w] \in PaidStatuses <=> status[w] \in PaidStatuses
                 /\ status'[w] = "cancelled" <=> status[w] = "cancelled"
                 /\ status[w] = "refunded" => status'[w] = "refunded"
        <3>1. status \in [Orders -> OrderStatuses \cup {NoOrder}]
            OBVIOUS
        <3>2. /\ "cancelled" \notin POST_PAID_STATUSES
              /\ "refunded" \notin POST_PAID_STATUSES
            BY DEF POST_PAID_STATUSES
        <3>. HIDE StatusNames DEF CoreInv, TypeOK, JournalMatchesStatus
        <3>. QED
            BY <2>1, <2>3, <3>1, <3>2
    <2>. QED
        BY <2>2, <2>4
<1>5. ASSUME NEW r \in refunding, WriteRefund(r[1], r[2]) PROVE JournalMatchesStatus'
    <2>1. r[1] \in Orders /\ (isRefundAllowed(r[2]) => r[2] \in POST_PAID_STATUSES)
        BY RefundTransitions
    <2>. QED
        <3>1. CASE UNCHANGED <<status, items, journal>>
            BY <3>1
        <3>2. CASE /\ status[r[1]] \in POST_PAID_STATUSES
                   /\ status' = [status EXCEPT ![r[1]] = "refunded"]
                   /\ items' = items
                   /\ journal' = journal \/ journal' = Journaled(r[1], "RESTOCK")
            <4>1. \A w, p, k : k # "RESTOCK" =>
                    (<<w, p, k>> \in journal' <=> <<w, p, k>> \in journal)
                BY <3>2 DEF Journaled
            <4>2. \A w, p : <<w, p, "RESTOCK">> \in journal' =>
                    w = r[1] \/ <<w, p, "RESTOCK">> \in journal
                BY <3>2 DEF Journaled
            <4>3. \A w \in Orders : w # r[1] => status'[w] = status[w]
                BY <2>1, <3>2
            <4>4. status'[r[1]] = "refunded" /\ status[r[1]] \in POST_PAID_STATUSES
                BY <2>1, <3>2
            <4>5. \A w : ItemsOf(w)' = ItemsOf(w)
                BY <3>2 DEF ItemsOf
            <4>6. ASSUME NEW w \in Orders, NEW p \in ItemsOf(w), w # r[1]
                  PROVE  /\ <<w, p, "RESERVE">> \in journal'
                         /\ <<w, p, "RELEASE">> \in journal' <=> status'[w] = "cancelled"
                         /\ <<w, p, "COMMIT">> \in journal' <=> status'[w] \in PaidStatuses
                         /\ <<w, p, "RESTOCK">> \in journal' => status'[w] = "refunded"
                BY <4>1, <4>2, <4>3, <4>6
            <4>7. ASSUME NEW p \in ItemsOf(r[1])
                  PROVE  /\ <<r[1], p, "RESERVE">> \in journal'
                         /\ <<r[1], p, "RELEASE">> \notin journal'
                         /\ <<r[1], p, "COMMIT">> \in journal'
                <5>. HIDE DEF CoreInv, TypeOK, ItemsOf
                <5>1. status[r[1]] # "cancelled"
                    BY <4>4
                <5>2. /\ <<r[1], p, "RESERVE">> \in journal
                      /\ <<r[1], p, "RELEASE">> \notin journal
                      /\ <<r[1], p, "COMMIT">> \in journal
                    BY <2>1, <4>4, <5>1
                <5>. QED
                    BY <4>1, <5>2
            <4>. HIDE DEF CoreInv, TypeOK, ItemsOf
            <4>. QED
                BY <4>4, <4>5, <4>6, <4>7
        <3>. QED
            BY <1>5, <2>1, <3>1, <3>2 DEF WriteRefund, RefundTakesOrder, Restock, stockVars
<1>6. ASSUME UNCHANGED <<status, items, journal>> PROVE JournalMatchesStatus'
    BY <1>6
<1>7. ASSUME NEW p \in Products, NEW n \in 0 .. MaxOnHand, SetOnHand(p, n)
      PROVE  UNCHANGED <<status, items, journal>>
    BY <1>7 DEF SetOnHand, OnHandCas, orderVars
<1>8. ASSUME NEW b \in batchWrites, WriteBatchDelta(b[1], b[2], b[3])
      PROVE  UNCHANGED <<status, items, journal>>
    BY <1>8 DEF WriteBatchDelta, OnHandCas, orderVars
<1>9. Quiet => UNCHANGED <<status, items, journal>>
    BY DEF Quiet
<1>. HIDE StatusNames DEF CoreInv, TypeOK, JournalMatchesStatus, ItemsOf, PaidStatuses
<1>. QED
    BY <1>1, <1>2, <1>3, <1>4, <1>5, <1>6, <1>7, <1>8, <1>9, NextCases

LEMMA OversellStep == CoreInv /\ NeverOversold /\ [Next]_vars => NeverOversold'
<1> SUFFICES ASSUME CoreInv, NeverOversold, [Next]_vars PROVE NeverOversold'
    OBVIOUS
<1>. USE OrderStockAssumption DEF CoreInv, TypeOK, NeverOversold
<1>1. ASSUME NEW o \in Orders, NEW qty \in [Products -> 0 .. MaxQty],
             NEW useCoupon \in BOOLEAN, NEW cash \in 0 .. MaxCash,
             Create(o, qty, useCoupon, cash)
      PROVE  NeverOversold'
    <2> SUFFICES ASSUME NEW p \in Products PROVE reserved'[p] <= onHand'[p]
        OBVIOUS
    <2>1. onHand' = onHand /\ reserved'[p] = reserved[p] + qty[p]
        BY <1>1 DEF Create
    <2>2. qty[p] > 0 => onHand[p] - reserved[p] >= qty[p]
        BY <1>1 DEF Create, CanReserve
    <2>3. onHand[p] \in Nat /\ reserved[p] \in Nat /\ reserved[p] <= onHand[p] /\ qty[p] \in Nat
        OBVIOUS
    <2>. HIDE DEF CoreInv, TypeOK, NeverOversold
    <2>. QED
        BY <2>1, <2>2, <2>3
<1>2. ASSUME NEW o \in Orders, Cancel(o) PROVE NeverOversold'
    BY <1>2 DEF Cancel, Release, Unjournaled, ItemsOf
<1>3. ASSUME NEW o \in Orders, MarkPaid(o) PROVE NeverOversold'
    <2>. DEFINE fresh == Unjournaled(o, "COMMIT")
    <2>1. \A p \in Products : items[o][p] \in Nat /\ reserved[p] \in Nat /\ onHand[p] \in Nat
        OBVIOUS
    <2>2. /\ onHand' = [ p \in Products |->
                            IF p \in fresh THEN onHand[p] - items[o][p] ELSE onHand[p] ]
          /\ reserved' = [ p \in Products |->
                            IF p \in fresh THEN reserved[p] - items[o][p] ELSE reserved[p] ]
        BY <1>3 DEF MarkPaid, CommitSale
    <2>. HIDE DEF fresh
    <2>. QED
        BY <2>1, <2>2
<1>4. ASSUME NEW r \in refunding, WriteRefund(r[1], r[2]) PROVE NeverOversold'
    <2>1. r[1] \in Orders
        OBVIOUS
    <2>2. CASE UNCHANGED stockVars
        BY <2>2 DEF stockVars
    <2>3. CASE Restock(r[1])
        BY <2>1, <2>3 DEF Restock, Unjournaled, ItemsOf
    <2>. QED
        BY <1>4, <2>2, <2>3 DEF WriteRefund, RefundTakesOrder
<1>5. ASSUME NEW p \in Products, NEW n \in 0 .. MaxOnHand, SetOnHand(p, n)
      PROVE  NeverOversold'
    BY <1>5 DEF SetOnHand, OnHandCas
<1>6. ASSUME NEW b \in batchWrites, WriteBatchDelta(b[1], b[2], b[3])
      PROVE  NeverOversold'
    BY <1>6 DEF WriteBatchDelta, OnHandCas
<1>7. ASSUME UNCHANGED <<onHand, reserved>> PROVE NeverOversold'
    BY <1>7
<1>8. ASSUME NEW f \in fulfilling, WriteFulfillment(f[1], f[2], f[3])
      PROVE  UNCHANGED <<onHand, reserved>>
    BY <1>8 DEF WriteFulfillment, stockVars
<1>. HIDE DEF CoreInv, TypeOK, NeverOversold
<1>. QED
    BY <1>1, <1>2, <1>3, <1>4, <1>5, <1>6, <1>7, <1>8, NextCases DEF Quiet

\* The journal agrees with the status of its order, and no product is promised
\* beyond its stock.
THEOREM StockSafe == Spec => [](JournalMatchesStatus /\ NeverOversold)
<1>1. StockInv /\ [Next]_vars => StockInv'
    BY CoreStep, JournalStep, OversellStep DEF StockInv
<1>2. Init => StockInv
    BY CoreInit, StockInit DEF StockInv
<1>3. StockInv => JournalMatchesStatus /\ NeverOversold
    BY DEF StockInv
<1>. QED
    BY <1>1, <1>2, <1>3, PTL DEF Spec

\* The movements written for an order tell its story, for any number of orders
\* and however late a handler writes.
COROLLARY JournalTellsStory == Spec => []JournalMatchesStatus
BY StockSafe, PTL

----------------------------------------------------------------------------
(* Reservations match the open orders *)

LEMMA AwaitingFinite == IsFiniteSet(Awaiting)
BY OrderStockAssumption, FS_Subset DEF Awaiting

LEMMA ReservedInit == Init => ReservedMatchesOpenOrders
<1> SUFFICES ASSUME Init, NEW p \in Products
             PROVE  reserved[p] = Tally(Awaiting, Qty(p), MaxQty)
    BY DEF ReservedMatchesOpenOrders
<1>1. Awaiting = {}
    BY DEF Init, Awaiting, NoOrder
<1>2. reserved[p] = 0
    BY DEF Init
<1>. QED
    BY <1>1, <1>2, TallyEmpty

\* Closing an order gives back its quantities exactly when its items have not
\* been journaled with the closing movement before.
LEMMA CloseOrder ==
    ASSUME CoreInv, ReservedMatchesOpenOrders, NEW o \in Awaiting, NEW kind,
           Unjournaled(o, kind) = ItemsOf(o),
           Awaiting' = Awaiting \ {o}, items' = items,
           reserved' = [ p \in Products |->
                            IF p \in Unjournaled(o, kind)
                            THEN reserved[p] - items[o][p] ELSE reserved[p] ]
    PROVE  ReservedMatchesOpenOrders'
<1> SUFFICES ASSUME NEW p \in Products
             PROVE  reserved'[p] = Tally(Awaiting \ {o}, Qty(p)', MaxQty)
    BY DEF ReservedMatchesOpenOrders
<1>1. o \in Orders /\ items[o][p] \in 0 .. MaxQty /\ reserved[p] \in Nat
    BY DEF Awaiting, CoreInv, TypeOK
<1>2. Qty(p)[o] = items[o][p] /\ Qty(p)' = Qty(p)
    BY <1>1 DEF Qty
<1>3. Tally(Awaiting \ {o}, Qty(p), MaxQty) = Tally(Awaiting, Qty(p), MaxQty) - Qty(p)[o]
    <2>1. Qty(p)[o] \in 0 .. MaxQty /\ MaxQty \in Nat
        BY <1>1, <1>2, OrderStockAssumption
    <2>. QED
        BY <2>1, AwaitingFinite, TallyRemove
<1>4. reserved[p] = Tally(Awaiting, Qty(p), MaxQty)
    BY DEF ReservedMatchesOpenOrders
<1>5. reserved'[p] = reserved[p] - items[o][p]
    BY <1>1 DEF ItemsOf
<1>. QED
    BY <1>2, <1>3, <1>4, <1>5

LEMMA ReservedStep ==
    StockInv /\ ReservedMatchesOpenOrders /\ [Next]_vars => ReservedMatchesOpenOrders'
<1> SUFFICES ASSUME StockInv, ReservedMatchesOpenOrders, [Next]_vars
             PROVE  ReservedMatchesOpenOrders'
    OBVIOUS
<1>0. CoreInv /\ JournalMatchesStatus
    BY DEF StockInv
<1>1. ASSUME NEW o \in Orders, NEW qty \in [Products -> 0 .. MaxQty],
             NEW useCoupon \in BOOLEAN, NEW cash \in 0 .. MaxCash,
             Create(o, qty, useCoupon, cash)
      PROVE  ReservedMatchesOpenOrders'
    <2>1. o \notin Awaiting /\ Awaiting' = Awaiting \cup {o}
        BY <1>0, <1>1 DEF Create, CanReserve, CanRedeem, Awaiting, CoreInv, TypeOK, NoOrder
    <2> SUFFICES ASSUME NEW p \in Products
                 PROVE  reserved'[p] = Tally(Awaiting \cup {o}, Qty(p)', MaxQty)
        BY <2>1 DEF ReservedMatchesOpenOrders
    <2>2. items' = [items EXCEPT ![o] = qty] /\ reserved'[p] = reserved[p] + qty[p]
        BY <1>1 DEF Create, CanReserve, CanRedeem
    <2>3. Qty(p)'[o] = qty[p] /\ qty[p] \in 0 .. MaxQty
        BY <1>0, <2>2 DEF Qty, CoreInv, TypeOK
    <2>4. \A x \in Awaiting : Qty(p)'[x] = Qty(p)[x]
        BY <1>0, <2>1, <2>2 DEF Qty, Awaiting, CoreInv, TypeOK
    <2>5. Tally(Awaiting, Qty(p)', MaxQty) = Tally(Awaiting, Qty(p), MaxQty)
        BY <2>4, TallySame
    <2>6. Tally(Awaiting \cup {o}, Qty(p)', MaxQty) = Tally(Awaiting, Qty(p)', MaxQty) + qty[p]
        <3>1. Qty(p)'[o] \in 0 .. MaxQty /\ MaxQty \in Nat
            BY <2>3, OrderStockAssumption
        <3>2. ASSUME NEW amount, amount[o] \in 0 .. MaxQty
              PROVE  Tally(Awaiting \cup {o}, amount, MaxQty)
                       = Tally(Awaiting, amount, MaxQty) + amount[o]
            <4>1. IsFiniteSet(Awaiting) /\ o \notin Awaiting /\ MaxQty \in Nat
                BY <2>1, <3>1, AwaitingFinite
            <4>. HIDE DEF Awaiting, Tally
            <4>. QED
                BY <3>2, <4>1, TallyAdd, SMT
        <3>3. Tally(Awaiting \cup {o}, Qty(p)', MaxQty)
                = Tally(Awaiting, Qty(p)', MaxQty) + Qty(p)'[o]
            BY <3>1, <3>2, Zenon
        <3>. QED
            BY <2>3, <3>3
    <2>. QED
        BY <2>2, <2>5, <2>6 DEF ReservedMatchesOpenOrders
<1>2. ASSUME NEW o \in Orders, Cancel(o) PROVE ReservedMatchesOpenOrders'
    <2>1. o \in Awaiting /\ Awaiting' = Awaiting \ {o} /\ items' = items
        BY <1>0, <1>2 DEF Cancel, Awaiting, CoreInv, TypeOK
    <2>2. Unjournaled(o, "RELEASE") = ItemsOf(o)
        BY <1>0, <1>2 DEF Cancel, Unjournaled, JournalMatchesStatus
    <2>. QED
        BY <1>0, <1>2, <2>1, <2>2, CloseOrder DEF Cancel, Release
<1>3. ASSUME NEW o \in Orders, MarkPaid(o) PROVE ReservedMatchesOpenOrders'
    <2>1. o \in Awaiting /\ Awaiting' = Awaiting \ {o} /\ items' = items
        BY <1>0, <1>3 DEF MarkPaid, Awaiting, CoreInv, TypeOK
    <2>2. Unjournaled(o, "COMMIT") = ItemsOf(o)
        BY <1>0, <1>3, StatusNames DEF MarkPaid, Unjournaled, JournalMatchesStatus, PaidStatuses
    <2>. QED
        BY <1>0, <1>3, <2>1, <2>2, CloseOrder DEF MarkPaid, CommitSale
<1>4. ASSUME UNCHANGED <<items, reserved>>, Awaiting' = Awaiting
      PROVE  ReservedMatchesOpenOrders'
    BY <1>4 DEF ReservedMatchesOpenOrders, Qty
<1>5. ASSUME NEW f \in fulfilling, WriteFulfillment(f[1], f[2], f[3])
      PROVE  UNCHANGED <<items, reserved>> /\ Awaiting' = Awaiting
    <2>1. f[2] \in POST_PAID_STATUSES /\ f[3] \in POST_PAID_STATUSES
        BY <1>0, FulfillmentTransitions DEF CoreInv, TypeOK, HandlersAllowed
    <2>2. "awaiting_payment" \notin POST_PAID_STATUSES
        BY DEF POST_PAID_STATUSES
    <2>. QED
        BY <1>0, <1>5, <2>1, <2>2 DEF WriteFulfillment, Awaiting, CoreInv, TypeOK, stockVars
<1>6. ASSUME NEW r \in refunding, WriteRefund(r[1], r[2])
      PROVE  UNCHANGED <<items, reserved>> /\ Awaiting' = Awaiting
    <2>1. isRefundAllowed(r[2]) => r[2] \in POST_PAID_STATUSES
        BY <1>0, RefundTransitions DEF CoreInv, TypeOK
    <2>2. "awaiting_payment" \notin POST_PAID_STATUSES
        BY DEF POST_PAID_STATUSES
    <2>. QED
        BY <1>0, <1>6, <2>1, <2>2 DEF WriteRefund, RefundTakesOrder, Restock, Awaiting, CoreInv, TypeOK, stockVars
<1>7. ASSUME NEW p \in Products, NEW n \in 0 .. MaxOnHand, SetOnHand(p, n)
      PROVE  UNCHANGED <<items, reserved>> /\ Awaiting' = Awaiting
    BY <1>7 DEF SetOnHand, OnHandCas, orderVars, Awaiting
<1>8. ASSUME NEW b \in batchWrites, WriteBatchDelta(b[1], b[2], b[3])
      PROVE  UNCHANGED <<items, reserved>> /\ Awaiting' = Awaiting
    BY <1>8 DEF WriteBatchDelta, OnHandCas, orderVars, Awaiting
<1>9. Quiet => UNCHANGED <<items, reserved>> /\ Awaiting' = Awaiting
    BY DEF Quiet, Awaiting
<1>. QED
    BY <1>0, <1>1, <1>2, <1>3, <1>4, <1>5, <1>6, <1>7, <1>8, <1>9, NextCases

\* The stock counter is exactly what the orders awaiting payment hold, for any
\* number of orders and products and any quantities.
THEOREM ReservationsExact == Spec => []ReservedMatchesOpenOrders
<1>1. StockInv /\ [Next]_vars => StockInv'
    BY CoreStep, JournalStep, OversellStep DEF StockInv
<1>2. Init => StockInv
    BY CoreInit, StockInit DEF StockInv
<1>. QED
    BY <1>1, <1>2, ReservedInit, ReservedStep, PTL DEF Spec
----------------------------------------------------------------------------
(* Coupon counters *)

OpenWithCoupon == withCoupon \cap Awaiting
PaidWithCoupon == { o \in withCoupon : status[o] \in PaidStatuses }

\* The strengthening: only a created order has a coupon.
CouponOnRows == \A o \in withCoupon : status[o] # NoOrder
CouponInv == CouponOnRows /\ CouponCountsOrders

LEMMA CouponSetsFinite == CoreInv => IsFiniteSet(OpenWithCoupon) /\ IsFiniteSet(PaidWithCoupon)
<1>1. CoreInv => OpenWithCoupon \subseteq Orders /\ PaidWithCoupon \subseteq Orders
    BY DEF CoreInv, TypeOK, OpenWithCoupon, PaidWithCoupon
<1>. QED
    BY <1>1, OrderStockAssumption, FS_Subset

LEMMA CouponInit == Init => CouponInv
<1> SUFFICES ASSUME Init PROVE CouponInv
    OBVIOUS
<1>1. withCoupon = {} /\ coupon.used = 0 /\ coupon.reserved = 0
    BY DEF Init
<1>2. /\ withCoupon \cap Awaiting = {}
      /\ { o \in withCoupon : status[o] \in POST_PAID_STATUSES \cup {"refunded"} } = {}
    BY <1>1
<1>. QED
    BY <1>1, <1>2, FS_EmptySet DEF CouponInv, CouponOnRows, CouponCountsOrders

\* What a step does to the two counters and to the orders they count.
LEMMA CouponCases ==
    ASSUME CoreInv, CouponOnRows, [Next]_vars
    PROVE  /\ CouponOnRows'
           /\ \/ /\ OpenWithCoupon' = OpenWithCoupon /\ PaidWithCoupon' = PaidWithCoupon
                 /\ coupon'.used = coupon.used /\ coupon'.reserved = coupon.reserved
              \/ /\ CanReserveCoupon /\ PaidWithCoupon' = PaidWithCoupon
                 /\ \E o \in Orders \ OpenWithCoupon : OpenWithCoupon' = OpenWithCoupon \cup {o}
                 /\ coupon' = [coupon EXCEPT !.reserved = @ + 1]
              \/ \E o \in OpenWithCoupon :
                 /\ OpenWithCoupon' = OpenWithCoupon \ {o}
                 /\ \/ PaidWithCoupon' = PaidWithCoupon /\ coupon' = CouponAfterRelease
                    \/ /\ PaidWithCoupon' = PaidWithCoupon \cup {o} /\ o \notin PaidWithCoupon
                       /\ coupon' = CouponAfterConsume
<1>0. /\ status \in [Orders -> OrderStatuses \cup {NoOrder}] /\ withCoupon \subseteq Orders
      /\ "awaiting_payment" # NoOrder
    BY DEF CoreInv, TypeOK, NoOrder
<1>. USE DEF OpenWithCoupon, PaidWithCoupon, Awaiting, CouponOnRows
<1>1. ASSUME NEW o \in Orders, NEW qty \in [Products -> 0 .. MaxQty],
             NEW useCoupon \in BOOLEAN, NEW cash \in 0 .. MaxCash,
             Create(o, qty, useCoupon, cash)
      PROVE  /\ CouponOnRows' /\ PaidWithCoupon' = PaidWithCoupon
             /\ \/ OpenWithCoupon' = OpenWithCoupon /\ coupon' = coupon
                \/ /\ CanReserveCoupon /\ o \in Orders \ OpenWithCoupon
                   /\ OpenWithCoupon' = OpenWithCoupon \cup {o}
                   /\ coupon' = [coupon EXCEPT !.reserved = @ + 1]
    <2>1. /\ o \notin withCoupon /\ status[o] = NoOrder
          /\ status' = [status EXCEPT ![o] = "awaiting_payment"]
        BY <1>1 DEF Create
    <2>2. CASE useCoupon
        <3>1. /\ CanReserveCoupon /\ withCoupon' = withCoupon \cup {o}
              /\ coupon' = [coupon EXCEPT !.reserved = @ + 1]
            BY <1>1, <2>2 DEF Create
        <3>. QED
            BY <1>0, <2>1, <3>1, StatusNames
    <2>3. CASE ~useCoupon
        <3>1. withCoupon' = withCoupon /\ coupon' = coupon
            BY <1>1, <2>3 DEF Create
        <3>. QED
            BY <1>0, <2>1, <3>1, StatusNames
    <2>. QED
        BY <2>2, <2>3
<1>2. ASSUME NEW o \in Orders, Cancel(o)
      PROVE  /\ CouponOnRows' /\ PaidWithCoupon' = PaidWithCoupon
             /\ \/ OpenWithCoupon' = OpenWithCoupon /\ coupon' = coupon
                \/ /\ o \in OpenWithCoupon /\ OpenWithCoupon' = OpenWithCoupon \ {o}
                   /\ coupon' = CouponAfterRelease
    BY <1>0, <1>2, StatusNames DEF Cancel
<1>3. ASSUME NEW o \in Orders, MarkPaid(o)
      PROVE  /\ CouponOnRows'
             /\ \/ /\ OpenWithCoupon' = OpenWithCoupon /\ coupon' = coupon
                   /\ PaidWithCoupon' = PaidWithCoupon
                \/ /\ o \in OpenWithCoupon /\ OpenWithCoupon' = OpenWithCoupon \ {o}
                   /\ o \notin PaidWithCoupon /\ PaidWithCoupon' = PaidWithCoupon \cup {o}
                   /\ coupon' = CouponAfterConsume
    BY <1>0, <1>3, StatusNames DEF MarkPaid, PaidStatuses
<1>4. ASSUME UNCHANGED <<withCoupon, coupon>>,
             \A w \in Orders : \/ status'[w] = status[w]
                               \/ status[w] \in PaidStatuses /\ status'[w] \in PaidStatuses
      PROVE  /\ CouponOnRows' /\ PaidWithCoupon' = PaidWithCoupon
             /\ OpenWithCoupon' = OpenWithCoupon /\ coupon' = coupon
    BY <1>0, <1>4, StatusNames DEF PaidStatuses, POST_PAID_STATUSES
<1>5. ASSUME NEW f \in fulfilling, WriteFulfillment(f[1], f[2], f[3])
      PROVE  /\ UNCHANGED <<withCoupon, coupon>>
             /\ \A w \in Orders : \/ status'[w] = status[w]
                                  \/ status[w] \in PaidStatuses /\ status'[w] \in PaidStatuses
    <2>1. f[1] \in Orders /\ f[2] \in POST_PAID_STATUSES /\ f[3] \in POST_PAID_STATUSES
        BY FulfillmentTransitions DEF CoreInv, TypeOK, HandlersAllowed
    <2>. QED
        BY <1>0, <1>5, <2>1 DEF WriteFulfillment, PaidStatuses
<1>6. ASSUME NEW r \in refunding, WriteRefund(r[1], r[2])
      PROVE  /\ UNCHANGED <<withCoupon, coupon>>
             /\ \A w \in Orders : \/ status'[w] = status[w]
                                  \/ status[w] \in PaidStatuses /\ status'[w] \in PaidStatuses
    <2>1. r[1] \in Orders /\ (isRefundAllowed(r[2]) => r[2] \in POST_PAID_STATUSES)
        BY RefundTransitions DEF CoreInv, TypeOK
    <2>. QED
        BY <1>0, <1>6, <2>1 DEF WriteRefund, RefundTakesOrder, PaidStatuses
<1>7. ASSUME NEW p \in Products, NEW n \in 0 .. MaxOnHand, SetOnHand(p, n)
      PROVE  UNCHANGED <<withCoupon, coupon, status>>
    BY <1>7 DEF SetOnHand, orderVars
<1>8. ASSUME NEW b \in batchWrites, WriteBatchDelta(b[1], b[2], b[3])
      PROVE  UNCHANGED <<withCoupon, coupon, status>>
    BY <1>8 DEF WriteBatchDelta, orderVars
<1>9. Quiet => /\ CouponOnRows' /\ PaidWithCoupon' = PaidWithCoupon
               /\ OpenWithCoupon' = OpenWithCoupon
               /\ coupon'.used = coupon.used /\ coupon'.reserved = coupon.reserved
    BY DEF Quiet
<1>. HIDE DEF OpenWithCoupon, PaidWithCoupon, Awaiting, CouponOnRows
<1>. QED
    BY <1>1, <1>2, <1>3, <1>4, <1>5, <1>6, <1>7, <1>8, <1>9, NextCases

LEMMA CouponStep == CoreInv /\ CouponInv /\ [Next]_vars => CouponInv'
<1> SUFFICES ASSUME CoreInv, CouponInv, [Next]_vars PROVE CouponInv'
    OBVIOUS
<1>0. /\ CouponOnRows
      /\ coupon.reserved = Cardinality(OpenWithCoupon)
      /\ coupon.used = Cardinality(PaidWithCoupon)
    BY DEF CouponInv, CouponCountsOrders, OpenWithCoupon, PaidWithCoupon, PaidStatuses
<1>1. IsFiniteSet(OpenWithCoupon) /\ IsFiniteSet(PaidWithCoupon) /\ coupon \in CouponRow
    BY CouponSetsFinite DEF CoreInv, TypeOK
<1> SUFFICES /\ coupon'.reserved = Cardinality(OpenWithCoupon')
             /\ coupon'.used = Cardinality(PaidWithCoupon')
    BY <1>0, CouponCases
       DEF CouponInv, CouponCountsOrders, OpenWithCoupon, PaidWithCoupon, PaidStatuses
<1>2. ASSUME NEW o \in OpenWithCoupon
      PROVE  /\ Cardinality(OpenWithCoupon \ {o}) = coupon.reserved - 1
             /\ coupon.reserved >= 1
    <2>1. OpenWithCoupon # {}
        OBVIOUS
    <2>2. coupon.reserved \in Nat /\ coupon.reserved # 0
        BY <1>0, <1>1, <2>1, FS_CardinalityType, FS_EmptySet
    <2>3. Cardinality(OpenWithCoupon \ {o}) = Cardinality(OpenWithCoupon) - 1
        BY <1>1, FS_RemoveElement
    <2>. QED
        BY <1>0, <2>2, <2>3
<1>3. ASSUME NEW o \in Orders \ OpenWithCoupon
      PROVE  Cardinality(OpenWithCoupon \cup {o}) = coupon.reserved + 1
    BY <1>0, <1>1, FS_AddElement
<1>4. ASSUME NEW o, o \notin PaidWithCoupon
      PROVE  Cardinality(PaidWithCoupon \cup {o}) = coupon.used + 1
    BY <1>0, <1>1, <1>4, FS_AddElement
<1>5. ASSUME coupon.reserved >= 1
      PROVE  /\ CouponAfterRelease.reserved = coupon.reserved - 1
             /\ CouponAfterRelease.used = coupon.used
             /\ CouponAfterConsume.reserved = coupon.reserved - 1
             /\ CouponAfterConsume.used = coupon.used + 1
    BY <1>1, <1>5 DEF CouponAfterRelease, CouponAfterConsume, CouponRow
<1>6. /\ [coupon EXCEPT !.reserved = @ + 1].reserved = coupon.reserved + 1
      /\ [coupon EXCEPT !.reserved = @ + 1].used = coupon.used
    BY <1>1 DEF CouponRow
<1>. QED
    BY <1>0, <1>2, <1>3, <1>4, <1>5, <1>6, CouponCases

\* reservedCount is the number of open orders with the coupon and usedCount
\* the number of paid ones: no interleaving of orders, approvals, cancels,
\* refunds and edits of the coupon spends or frees a use twice.
THEOREM CouponExact == Spec => []CouponCountsOrders
<1>1. CoreInv /\ CouponInv /\ [Next]_vars => (CoreInv /\ CouponInv)'
    BY CoreStep, CouponStep
<1>2. Init => CoreInv /\ CouponInv
    BY CoreInit, CouponInit
<1>3. CouponInv => CouponCountsOrders
    BY DEF CouponInv
<1>. QED
    BY <1>1, <1>2, <1>3, PTL DEF Spec

LEMMA LimitStep ==
    ASSUME CoreInv, CouponInv, [Next]_vars,
           coupon'.used + coupon'.reserved > coupon.used + coupon.reserved,
           coupon.maxUses # NoLimit
    PROVE  coupon'.used + coupon'.reserved <= coupon.maxUses
<1>1. coupon.used \in Nat /\ coupon.reserved \in Nat /\ coupon.maxUses \in Nat
    BY OrderStockAssumption DEF CoreInv, TypeOK, CouponRow
<1>2. coupon \in CouponRow
    BY DEF CoreInv, TypeOK
<1>3. /\ CouponAfterRelease.used + CouponAfterRelease.reserved <= coupon.used + coupon.reserved
      /\ CouponAfterConsume.used + CouponAfterConsume.reserved <= coupon.used + coupon.reserved
    BY <1>1, <1>2 DEF CouponAfterRelease, CouponAfterConsume, CouponRow
<1>4. /\ [coupon EXCEPT !.reserved = @ + 1].reserved = coupon.reserved + 1
      /\ [coupon EXCEPT !.reserved = @ + 1].used = coupon.used
    BY <1>2 DEF CouponRow
<1>5. coupon' = CouponAfterRelease \/ coupon' = CouponAfterConsume => FALSE
    <2>1. coupon' \in CouponRow
        BY CoreStep DEF CoreInv, TypeOK
    <2>2. coupon'.used \in Nat /\ coupon'.reserved \in Nat
        BY <2>1 DEF CouponRow
    <2>. QED
        BY <1>1, <1>3, <2>2
<1>6. CanReserveCoupon => coupon.used + coupon.reserved + 1 <= coupon.maxUses
    BY <1>1 DEF CanReserveCoupon
<1>7. CanReserveCoupon /\ coupon' = [coupon EXCEPT !.reserved = @ + 1]
    <2>1. coupon'.used = coupon.used /\ coupon'.reserved = coupon.reserved => FALSE
        BY <1>1
    <2>. QED
        BY <1>5, <2>1, CouponCases DEF CouponInv
<1>. QED
    BY <1>1, <1>4, <1>6, <1>7

\* No order takes the coupon past the limit in force when it is created, for
\* any number of orders and any edits of the limit.
THEOREM CouponLimitKept == Spec => CouponLimitRespected
<1>1. CoreInv /\ CouponInv /\ [Next]_vars => (CoreInv /\ CouponInv)'
    BY CoreStep, CouponStep
<1>2. Init => CoreInv /\ CouponInv
    BY CoreInit, CouponInit
<1>3. CoreInv /\ CouponInv /\ [Next]_vars =>
        [ coupon'.used + coupon'.reserved > coupon.used + coupon.reserved
            => (coupon.maxUses # NoLimit =>
                  coupon'.used + coupon'.reserved <= coupon.maxUses) ]_vars
    BY LimitStep
<1>. QED
    BY <1>1, <1>2, <1>3, PTL DEF Spec, CouponLimitRespected
----------------------------------------------------------------------------
(* Goods of a refund *)

LEMMA RestockStep ==
    ASSUME CoreInv, JournalMatchesStatus, [Next]_vars, NEW o \in Orders,
           status[o] # "refunded", status'[o] = "refunded", NEW p \in ItemsOf(o)
    PROVE  <<o, p, "RESTOCK">> \in journal' <=> status[o] \in REFUND_RESTOCK_STATUSES
<1>0. /\ status \in [Orders -> OrderStatuses \cup {NoOrder}]
      /\ p \in Products /\ <<o, p, "RESTOCK">> \notin journal
    BY DEF CoreInv, TypeOK, ItemsOf, JournalMatchesStatus
<1>1. ASSUME NEW r \in refunding, WriteRefund(r[1], r[2])
      PROVE  <<o, p, "RESTOCK">> \in journal' <=> status[o] \in REFUND_RESTOCK_STATUSES
    <2>1. r[1] = o /\ r[2] = status[o] /\ isRefundAllowed(r[2])
          /\ money[r[1]] = "approved" /\ RefundTakesOrder(r[1], r[2])
        BY <1>0, <1>1 DEF WriteRefund, RefundTakesOrder, CoreInv, TypeOK
    <2>2. CASE status[o] \in REFUND_RESTOCK_STATUSES
        <3>1. journal' = Journaled(o, "RESTOCK")
            BY <1>1, <2>1, <2>2 DEF WriteRefund, Restock, shouldRestockOnRefund
        <3>. QED
            BY <2>2, <3>1 DEF Journaled
    <2>3. CASE status[o] \notin REFUND_RESTOCK_STATUSES
        <3>1. journal' = journal
            BY <1>1, <2>1, <2>3 DEF WriteRefund, shouldRestockOnRefund, stockVars
        <3>. QED
            BY <1>0, <2>3, <3>1
    <2>. QED
        BY <2>2, <2>3
<1>2. ASSUME NEW w \in Orders, NEW qty \in [Products -> 0 .. MaxQty],
             NEW useCoupon \in BOOLEAN, NEW cash \in 0 .. MaxCash,
             Create(w, qty, useCoupon, cash)
      PROVE  FALSE
    BY <1>0, <1>2 DEF Create
<1>3. ASSUME NEW w \in Orders, Cancel(w) \/ MarkPaid(w)
      PROVE  FALSE
    BY <1>0, <1>3 DEF Cancel, MarkPaid
<1>4. ASSUME NEW f \in fulfilling, WriteFulfillment(f[1], f[2], f[3])
      PROVE  FALSE
    <2>1. f[1] \in Orders /\ f[3] \in ADMIN_FULFILLMENT_TARGETS
        BY DEF CoreInv, TypeOK
    <2>. QED
        BY <1>0, <1>4, <2>1 DEF WriteFulfillment, ADMIN_FULFILLMENT_TARGETS
<1>5. ASSUME NEW q \in Products, NEW n \in 0 .. MaxOnHand, SetOnHand(q, n)
      PROVE  FALSE
    BY <1>5 DEF SetOnHand, orderVars
<1>6. ASSUME NEW b \in batchWrites, WriteBatchDelta(b[1], b[2], b[3])
      PROVE  FALSE
    BY <1>6 DEF WriteBatchDelta, orderVars
<1>7. ~Quiet
    BY DEF Quiet
<1>. QED
    BY <1>1, <1>2, <1>3, <1>4, <1>5, <1>6, <1>7, NextCases

\* A refund returns every item of the order to stock when the goods had not
\* left the warehouse at the moment it is recorded, and none otherwise,
\* however old the status the refund read.
THEOREM RestockedFromWarehouse == Spec => RestockFromWarehouseOnly
<1>1. StockInv /\ [Next]_vars => StockInv'
    BY CoreStep, JournalStep, OversellStep DEF StockInv
<1>2. Init => StockInv
    BY CoreInit, StockInit DEF StockInv
<1>3. StockInv /\ [Next]_vars =>
        [ \A o \in Orders :
            (status[o] # "refunded" /\ status'[o] = "refunded") =>
                \A p \in ItemsOf(o) :
                    <<o, p, "RESTOCK">> \in journal' <=> status[o] \in REFUND_RESTOCK_STATUSES ]_vars
    BY RestockStep DEF StockInv
<1>. QED
    BY <1>1, <1>2, <1>3, PTL DEF Spec, RestockFromWarehouseOnly
----------------------------------------------------------------------------
(* Cashback *)

\* The strengthening: a redemption is recorded with the order that spends, and
\* its return exactly with the cancel.
CashRows ==
    \A o \in Orders :
        /\ status[o] = NoOrder => \A k \in LedgerKinds : <<o, k>> \notin cashLedger
        /\ status[o] # NoOrder => (<<o, "redeem">> \in cashLedger <=> cashbackUsed[o] > 0)
        /\ <<o, "refund">> \in cashLedger <=> status[o] = "cancelled" /\ cashbackUsed[o] > 0
CashInv == CashRows /\ CashbackConserved

\* A step that writes no cashback neither opens nor cancels an order.
CashQuiet ==
    /\ UNCHANGED <<balance, cashLedger, cashbackUsed>>
    /\ \A w \in Orders : /\ status'[w] = NoOrder <=> status[w] = NoOrder
                         /\ status'[w] = "cancelled" <=> status[w] = "cancelled"

LEMMA CashCases ==
    ASSUME CoreInv, [Next]_vars
    PROVE  \/ \E o \in Orders, qty \in [Products -> 0 .. MaxQty], useCoupon \in BOOLEAN,
               cash \in 0 .. MaxCash : Create(o, qty, useCoupon, cash)
           \/ \E o \in Orders : Cancel(o) \/ CreditEarnOnPaid(o)
           \/ CashQuiet
<1>0. status \in [Orders -> OrderStatuses \cup {NoOrder}]
    BY DEF CoreInv, TypeOK
<1>1. ASSUME NEW o \in Orders, MarkPaid(o) PROVE CashQuiet
    BY <1>0, <1>1, StatusNames DEF MarkPaid, CashQuiet, cashVars, NoOrder
<1>2. ASSUME NEW o \in Orders, CrashBeforeEarn(o) \/ ReadRefund(o) PROVE CashQuiet
    BY <1>2 DEF CrashBeforeEarn, ReadRefund, CashQuiet, orderVars, cashVars
<1>3. ASSUME NEW o \in Orders, NEW to \in ADMIN_FULFILLMENT_TARGETS, ReadFulfillment(o, to)
      PROVE  CashQuiet
    BY <1>3 DEF ReadFulfillment, CashQuiet, orderVars, cashVars
<1>4. ASSUME NEW f \in fulfilling, WriteFulfillment(f[1], f[2], f[3]) PROVE CashQuiet
    <2>1. f[1] \in Orders /\ f[2] \in POST_PAID_STATUSES /\ f[3] \in POST_PAID_STATUSES
        BY FulfillmentTransitions DEF CoreInv, TypeOK, HandlersAllowed
    <2>. QED
        BY <1>0, <1>4, <2>1
           DEF WriteFulfillment, CashQuiet, cashVars, POST_PAID_STATUSES, NoOrder
<1>5. ASSUME NEW r \in refunding, WriteRefund(r[1], r[2]) PROVE CashQuiet
    <2>1. r[1] \in Orders /\ (isRefundAllowed(r[2]) => r[2] \in POST_PAID_STATUSES)
        BY RefundTransitions DEF CoreInv, TypeOK
    <2>. QED
        BY <1>0, <1>5, <2>1
           DEF WriteRefund, RefundTakesOrder, CashQuiet, cashVars, POST_PAID_STATUSES, NoOrder
<1>6. ASSUME NEW p \in Products, NEW n \in 0 .. MaxOnHand, SetOnHand(p, n) PROVE CashQuiet
    BY <1>6 DEF SetOnHand, CashQuiet, orderVars, cashVars
<1>7. ASSUME NEW p \in Products, NEW delta \in BatchDeltas, ReadBatchDelta(p, delta)
      PROVE  CashQuiet
    BY <1>7 DEF ReadBatchDelta, CashQuiet, orderVars, cashVars
<1>8. ASSUME NEW b \in batchWrites, WriteBatchDelta(b[1], b[2], b[3]) PROVE CashQuiet
    BY <1>8 DEF WriteBatchDelta, CashQuiet, orderVars, cashVars
<1>9. ASSUME NEW active \in BOOLEAN, NEW maxUses \in CouponLimits \cup {NoLimit},
             UpdateCoupon(active, maxUses)
      PROVE  CashQuiet
    BY <1>9 DEF UpdateCoupon, CashQuiet, orderVars, cashVars
<1>10. UNCHANGED vars => CashQuiet
    BY DEF vars, CashQuiet, orderVars, cashVars
<1>. QED
    BY <1>1, <1>2, <1>3, <1>4, <1>5, <1>6, <1>7, <1>8, <1>9, <1>10 DEF Next

LEMMA CashRowsStep == CoreInv /\ CashRows /\ [Next]_vars => CashRows'
<1> SUFFICES ASSUME CoreInv, CashRows, [Next]_vars PROVE CashRows'
    OBVIOUS
<1>0. /\ status \in [Orders -> OrderStatuses \cup {NoOrder}]
      /\ cashbackUsed \in [Orders -> 0 .. MaxCash]
    BY DEF CoreInv, TypeOK
<1>. USE DEF CashRows
<1>1. ASSUME NEW o \in Orders, NEW qty \in [Products -> 0 .. MaxQty],
             NEW useCoupon \in BOOLEAN, NEW cash \in 0 .. MaxCash,
             Create(o, qty, useCoupon, cash)
      PROVE  CashRows'
    <2>1. /\ status[o] = NoOrder /\ status' = [status EXCEPT ![o] = "awaiting_payment"]
          /\ cashbackUsed' = [cashbackUsed EXCEPT ![o] = cash]
          /\ cashLedger' = IF cash > 0 THEN cashLedger \cup {<<o, "redeem">>} ELSE cashLedger
        BY <1>1 DEF Create
    <2>. QED
        BY <1>0, <2>1 DEF LedgerKinds, NoOrder
<1>2. ASSUME NEW o \in Orders, Cancel(o) PROVE CashRows'
    <2>1. /\ status[o] = "awaiting_payment" /\ status' = [status EXCEPT ![o] = "cancelled"]
          /\ cashbackUsed' = cashbackUsed /\ RefundRedeem(o)
        BY <1>2 DEF Cancel
    <2>2. cashLedger' = IF cashbackUsed[o] > 0 THEN cashLedger \cup {<<o, "refund">>}
                                               ELSE cashLedger
        BY <2>1 DEF RefundRedeem, cashVars, NoOrder
    <2>. QED
        BY <1>0, <2>1, <2>2 DEF LedgerKinds, NoOrder
<1>3. ASSUME NEW o \in Orders, CreditEarnOnPaid(o) PROVE CashRows'
    <2>1. /\ status' = status /\ cashbackUsed' = cashbackUsed
          /\ \/ cashLedger' = cashLedger
             \/ status[o] # NoOrder /\ cashLedger' = cashLedger \cup {<<o, "earn">>}
        BY <1>3 DEF CreditEarnOnPaid, orderVars, cashVars, NoOrder
    <2>2. \A w \in Orders, k \in LedgerKinds :
            status[w] = NoOrder \/ k # "earn" =>
                (<<w, k>> \in cashLedger' <=> <<w, k>> \in cashLedger)
        BY <2>1
    <2>. QED
        BY <2>1, <2>2 DEF LedgerKinds
<1>4. CashQuiet => CashRows'
    BY DEF CashQuiet
<1>. QED
    BY <1>1, <1>2, <1>3, <1>4, CashCases

LEMMA CashSetsFinite ==
    ASSUME NEW c \in Customers
    PROVE  /\ IsFiniteSet(Spent(c)) /\ IsFiniteSet(Earned(c))
           /\ Cardinality(Earned(c)) \in Nat /\ Tally(Spent(c), cashbackUsed, MaxCash) \in Nat
<1>1. IsFiniteSet(Spent(c)) /\ IsFiniteSet(Earned(c))
    BY OrderStockAssumption, FS_Subset DEF Spent, Earned
<1>2. Cardinality(Earned(c)) \in Nat
    BY <1>1, FS_CardinalityType
<1>3. Tally(Spent(c), cashbackUsed, MaxCash) \in Nat
    BY <1>1, OrderStockAssumption, TallyType
<1>. QED
    BY <1>1, <1>2, <1>3

LEMMA CashInit == Init => CashInv
<1> SUFFICES ASSUME Init PROVE CashInv
    OBVIOUS
<1>1. CashRows
    BY DEF Init, CashRows, NoOrder
<1>2. ASSUME NEW c \in Customers
      PROVE  balance[c] = InitBalance[c] + EarnAmount * Cardinality(Earned(c))
                            - Tally(Spent(c), cashbackUsed, MaxCash)
    <2>1. Earned(c) = {} /\ Spent(c) = {} /\ balance[c] = InitBalance[c]
        BY DEF Init, Earned, Spent
    <2>2. Cardinality(Earned(c)) = 0 /\ Tally(Spent(c), cashbackUsed, MaxCash) = 0
        BY <2>1, FS_EmptySet, TallyEmpty
    <2>3. InitBalance[c] \in Nat /\ EarnAmount \in Nat
        BY OrderStockAssumption
    <2>. QED
        BY <2>1, <2>2, <2>3
<1>. QED
    BY <1>1, <1>2 DEF CashInv, CashbackConserved

LEMMA CashStep == CoreInv /\ CashInv /\ [Next]_vars => CashInv'
<1> SUFFICES ASSUME CoreInv, CashInv, [Next]_vars PROVE CashbackConserved'
    BY CashRowsStep DEF CashInv
<1> SUFFICES ASSUME NEW c \in Customers
             PROVE  balance'[c] = InitBalance[c] + EarnAmount * Cardinality(Earned(c)')
                                    - Tally(Spent(c)', cashbackUsed', MaxCash)
    BY DEF CashbackConserved
<1>0. /\ status \in [Orders -> OrderStatuses \cup {NoOrder}]
      /\ cashbackUsed \in [Orders -> 0 .. MaxCash]
      /\ balance \in [Customers -> Nat] /\ Owner \in [Orders -> Customers]
      /\ InitBalance[c] \in Nat /\ EarnAmount \in Nat /\ MaxCash \in Nat
      /\ CashRows
    BY OrderStockAssumption DEF CoreInv, TypeOK, CashInv
<1>. DEFINE earned == EarnAmount * Cardinality(Earned(c))
            spent  == Tally(Spent(c), cashbackUsed, MaxCash)
<1>a. balance[c] = InitBalance[c] + earned - spent
    BY DEF CashInv, CashbackConserved
<1>b. earned \in Nat /\ spent \in Nat /\ balance[c] \in Nat
    BY <1>0, CashSetsFinite
<1>1. ASSUME NEW o \in Orders, NEW qty \in [Products -> 0 .. MaxQty],
             NEW useCoupon \in BOOLEAN, NEW cash \in 0 .. MaxCash,
             Create(o, qty, useCoupon, cash)
      PROVE  balance'[c] = InitBalance[c] + EarnAmount * Cardinality(Earned(c)')
                             - Tally(Spent(c)', cashbackUsed', MaxCash)
    <2>1. /\ status[o] = NoOrder /\ status' = [status EXCEPT ![o] = "awaiting_payment"]
          /\ cashbackUsed' = [cashbackUsed EXCEPT ![o] = cash]
          /\ cashLedger' = IF cash > 0 THEN cashLedger \cup {<<o, "redeem">>} ELSE cashLedger
          /\ balance' = [balance EXCEPT ![Owner[o]] = @ - cash]
        BY <1>1 DEF Create
    <2>2. o \notin Spent(c) /\ \A x \in Spent(c) : x \in Orders /\ x # o
        BY <1>0, <2>1 DEF Spent, CashRows, LedgerKinds
    <2>3. Tally(Spent(c), cashbackUsed', MaxCash) = spent
        <3>1. \A x \in Spent(c) : cashbackUsed'[x] = cashbackUsed[x]
            BY <1>0, <2>1, <2>2
        <3>. QED
            BY <3>1, TallySame
    <2>4. Earned(c)' = Earned(c)
        BY <2>1 DEF Earned
    <2>5. CASE Owner[o] = c /\ cash > 0
        <3>1. Spent(c)' = Spent(c) \cup {o}
            BY <1>0, <2>1, <2>5 DEF Spent
        <3>2. cashbackUsed'[o] = cash /\ cash \in 0 .. MaxCash
            BY <1>0, <2>1
        <3>3. Tally(Spent(c)', cashbackUsed', MaxCash)
                = Tally(Spent(c), cashbackUsed', MaxCash) + cash
            <4>1. ASSUME NEW amount, amount[o] = cash
                  PROVE  Tally(Spent(c) \cup {o}, amount, MaxCash)
                           = Tally(Spent(c), amount, MaxCash) + cash
                <5>. DEFINE S == Spent(c)
                <5>1. IsFiniteSet(S) /\ o \notin S /\ MaxCash \in Nat
                    BY <1>0, <2>2, CashSetsFinite
                <5>2. amount[o] \in 0 .. MaxCash
                    BY <3>2, <4>1
                <5>. HIDE DEF S
                <5>3. Tally(S \cup {o}, amount, MaxCash) = Tally(S, amount, MaxCash) + amount[o]
                    BY <5>1, <5>2, TallyAdd
                <5>. QED
                    BY <4>1, <5>3 DEF S
            <4>. QED
                BY <3>1, <3>2, <4>1, Zenon
        <3>4. balance'[c] = balance[c] - cash
            BY <1>0, <2>1, <2>5
        <3>. QED
            BY <1>0, <1>a, <1>b, <2>3, <2>4, <3>2, <3>3, <3>4
    <2>6. CASE ~(Owner[o] = c /\ cash > 0)
        <3>1. Spent(c)' = Spent(c)
            BY <1>0, <2>1, <2>2, <2>6 DEF Spent, CashRows, LedgerKinds, NoOrder
        <3>2. balance'[c] = balance[c]
            BY <1>0, <2>1, <2>6
        <3>. QED
            BY <1>a, <2>3, <2>4, <3>1, <3>2
    <2>. QED
        BY <2>5, <2>6
<1>2. ASSUME NEW o \in Orders, Cancel(o)
      PROVE  balance'[c] = InitBalance[c] + EarnAmount * Cardinality(Earned(c)')
                             - Tally(Spent(c)', cashbackUsed', MaxCash)
    <2>1. /\ status[o] = "awaiting_payment" /\ status' = [status EXCEPT ![o] = "cancelled"]
          /\ cashbackUsed' = cashbackUsed /\ RefundRedeem(o)
        BY <1>2 DEF Cancel
    <2>2. IF cashbackUsed[o] > 0
          THEN /\ balance' = [balance EXCEPT ![Owner[o]] = @ + cashbackUsed[o]]
               /\ cashLedger' = cashLedger \cup {<<o, "refund">>}
          ELSE UNCHANGED cashVars
        BY <1>0, <2>1 DEF RefundRedeem, CashRows, NoOrder
    <2>3. Earned(c)' = Earned(c) /\ Spent(c)' = Spent(c) \ {o}
        BY <1>0, <2>1, <2>2 DEF Earned, Spent, cashVars
    <2>4. o \in Spent(c) <=> Owner[o] = c /\ cashbackUsed[o] > 0
        BY <1>0, <2>1 DEF Spent, CashRows, NoOrder
    <2>5. CASE o \in Spent(c)
        <3>1. Tally(Spent(c) \ {o}, cashbackUsed, MaxCash) = spent - cashbackUsed[o]
            BY <1>0, <2>5, CashSetsFinite, TallyRemove
        <3>2. balance'[c] = balance[c] + cashbackUsed[o] /\ cashbackUsed[o] \in Nat
            BY <1>0, <2>2, <2>4, <2>5
        <3>. QED
            BY <1>0, <1>a, <1>b, <2>1, <2>3, <3>1, <3>2
    <2>6. CASE o \notin Spent(c)
        <3>1. Spent(c)' = Spent(c) /\ balance'[c] = balance[c]
            BY <1>0, <2>2, <2>3, <2>4, <2>6 DEF cashVars
        <3>. QED
            BY <1>a, <2>1, <2>3, <3>1
    <2>. QED
        BY <2>5, <2>6
<1>3. ASSUME NEW o \in Orders, CreditEarnOnPaid(o)
      PROVE  balance'[c] = InitBalance[c] + EarnAmount * Cardinality(Earned(c)')
                             - Tally(Spent(c)', cashbackUsed', MaxCash)
    <2>1. UNCHANGED <<status, cashbackUsed>>
        BY <1>3 DEF CreditEarnOnPaid, orderVars
    <2>2. CASE UNCHANGED cashVars
        BY <1>a, <2>1, <2>2 DEF cashVars, Earned, Spent
    <2>3. CASE /\ <<o, "earn">> \notin cashLedger
               /\ balance' = [balance EXCEPT ![Owner[o]] = @ + EarnAmount]
               /\ cashLedger' = cashLedger \cup {<<o, "earn">>}
        <3>1. Spent(c)' = Spent(c)
            BY <2>1, <2>3 DEF Spent
        <3>2. CASE Owner[o] = c
            <4>1. o \notin Earned(c) /\ Earned(c)' = Earned(c) \cup {o}
                BY <2>3, <3>2 DEF Earned
            <4>2. Cardinality(Earned(c)') = Cardinality(Earned(c)) + 1
                BY <4>1, CashSetsFinite, FS_AddElement
            <4>3. EarnAmount * (Cardinality(Earned(c)) + 1) = earned + EarnAmount
                <5>1. ASSUME NEW a \in Nat, NEW n \in Nat
                      PROVE  a * (n + 1) = a * n + a
                    OBVIOUS
                <5>. QED
                    BY <1>0, <5>1, CashSetsFinite
            <4>4. balance'[c] = balance[c] + EarnAmount
                BY <1>0, <2>3, <3>2
            <4>. HIDE DEF earned, spent
            <4>5. Tally(Spent(c)', cashbackUsed', MaxCash) = spent
                BY <2>1, <3>1 DEF spent
            <4>. QED
                BY <1>0, <1>a, <1>b, <4>2, <4>3, <4>4, <4>5
        <3>3. CASE Owner[o] # c
            <4>1. Earned(c)' = Earned(c) /\ balance'[c] = balance[c]
                BY <1>0, <2>3, <3>3 DEF Earned
            <4>. QED
                BY <1>a, <2>1, <3>1, <4>1
        <3>. QED
            BY <3>2, <3>3
    <2>. QED
        BY <1>3, <2>2, <2>3 DEF CreditEarnOnPaid
<1>4. ASSUME CashQuiet
      PROVE  balance'[c] = InitBalance[c] + EarnAmount * Cardinality(Earned(c)')
                             - Tally(Spent(c)', cashbackUsed', MaxCash)
    BY <1>a, <1>4 DEF CashQuiet, Earned, Spent
<1>. QED
    BY <1>1, <1>2, <1>3, <1>4, CashCases

\* A customer's balance is the initial one plus what paid orders earned, less
\* what is spent on orders that were not cancelled, for any number of
\* customers and orders and any amounts.
THEOREM CashbackExact == Spec => []CashbackConserved
<1>1. CoreInv /\ CashInv /\ [Next]_vars => (CoreInv /\ CashInv)'
    BY CoreStep, CashStep
<1>2. Init => CoreInv /\ CashInv
    BY CoreInit, CashInit
<1>3. CashInv => CashbackConserved
    BY DEF CashInv
<1>. QED
    BY <1>1, <1>2, <1>3, PTL DEF Spec
----------------------------------------------------------------------------
(* Goods neither vanish nor appear *)

LEMMA SoldFinite == \A p \in Products : IsFiniteSet(Sold(p))
BY OrderStockAssumption, FS_Subset DEF Sold

LEMMA ConservedInit == Init => StockConserved
<1> SUFFICES ASSUME Init, NEW p \in Products
             PROVE  onHand[p] = InitOnHand[p] + adjusted[p] - Tally(Sold(p), Qty(p), MaxQty)
    BY DEF StockConserved
<1>1. Sold(p) = {} /\ onHand[p] = InitOnHand[p] /\ adjusted[p] = 0
    BY DEF Init, Sold
<1>2. InitOnHand[p] \in Nat
    BY OrderStockAssumption
<1>. QED
    BY <1>1, <1>2, TallyEmpty

LEMMA ConservedStep ==
    ASSUME BatchDeltas = {}, StockInv, StockConserved, [Next]_vars
    PROVE  StockConserved'
<1> SUFFICES ASSUME NEW p \in Products
             PROVE  onHand'[p] = InitOnHand[p] + adjusted'[p]
                                   - Tally(Sold(p)', Qty(p)', MaxQty)
    BY DEF StockConserved
<1> DEFINE S == Sold(p)
           Goal == onHand'[p] = InitOnHand[p] + adjusted'[p]
                                  - Tally(Sold(p)', Qty(p)', MaxQty)
<1>0. /\ status \in [Orders -> OrderStatuses \cup {NoOrder}]
      /\ items \in [Orders -> [Products -> 0 .. MaxQty]]
      /\ onHand \in [Products -> Nat] /\ adjusted \in [Products -> Int]
      /\ InitOnHand[p] \in Nat /\ MaxQty \in Nat
      /\ FreshRows /\ JournalMatchesStatus /\ CoreInv
    BY OrderStockAssumption DEF StockInv, CoreInv, TypeOK
<1>a. onHand[p] = InitOnHand[p] + adjusted[p] - Tally(S, Qty(p), MaxQty)
    BY DEF StockConserved
<1>b. IsFiniteSet(S) /\ Tally(S, Qty(p), MaxQty) \in Nat
    BY <1>0, SoldFinite, TallyType
<1>c. ASSUME onHand'[p] = onHand[p], adjusted'[p] = adjusted[p], Sold(p)' = S,
             \A x \in S : items'[x][p] = items[x][p]
      PROVE  Goal
    <2>1. Tally(S, Qty(p)', MaxQty) = Tally(S, Qty(p), MaxQty)
        <3>1. \A x \in S : Qty(p)'[x] = Qty(p)[x]
            BY <1>c DEF Qty, Sold
        <3>. HIDE DEF S
        <3>. QED
            BY <3>1, TallySame
    <2>. QED
        BY <1>a, <1>c, <2>1
<1>1. ASSUME NEW o \in Orders, NEW qty \in [Products -> 0 .. MaxQty],
             NEW useCoupon \in BOOLEAN, NEW cash \in 0 .. MaxCash,
             Create(o, qty, useCoupon, cash)
      PROVE  Goal
    <2>1. /\ status[o] = NoOrder /\ items' = [items EXCEPT ![o] = qty]
          /\ UNCHANGED <<onHand, adjusted>>
          /\ \A w, k : k # "RESERVE" => (<<w, p, k>> \in journal' <=> <<w, p, k>> \in journal)
        BY <1>1 DEF Create
    <2>2. o \notin S
        BY <1>0, <2>1 DEF Sold, FreshRows, MovementKinds
    <2>3. Sold(p)' = S
        BY <2>1 DEF Sold
    <2>. QED
        BY <1>0, <1>c, <2>1, <2>2, <2>3 DEF Sold
<1>2. ASSUME NEW o \in Orders, Cancel(o) PROVE Goal
    <2>1. /\ UNCHANGED <<items, onHand, adjusted>>
          /\ \A w, k : k # "RELEASE" => (<<w, p, k>> \in journal' <=> <<w, p, k>> \in journal)
        BY <1>2 DEF Cancel, Release, Journaled
    <2>2. Sold(p)' = S
        BY <2>1 DEF Sold
    <2>. QED
        BY <1>c, <2>1, <2>2
<1>3. ASSUME NEW o \in Orders, MarkPaid(o) PROVE Goal
    <2>1. /\ status[o] = "awaiting_payment" /\ UNCHANGED <<items, adjusted>>
          /\ journal' = Journaled(o, "COMMIT")
          /\ onHand' = [ q \in Products |-> IF q \in Unjournaled(o, "COMMIT")
                                            THEN onHand[q] - items[o][q] ELSE onHand[q] ]
        BY <1>3 DEF MarkPaid, CommitSale
    <2>2. CASE p \in ItemsOf(o)
        <3>1. <<o, p, "COMMIT">> \notin journal /\ <<o, p, "RESTOCK">> \notin journal
            BY <1>0, <2>1, <2>2, StatusNames DEF JournalMatchesStatus, PaidStatuses
        <3>2. o \notin S /\ Sold(p)' = S \cup {o}
            BY <2>1, <2>2, <3>1 DEF Sold, Journaled
        <3>3. Qty(p)' = Qty(p) /\ Qty(p)[o] = items[o][p] /\ items[o][p] \in 0 .. MaxQty
            BY <1>0, <2>1 DEF Qty
        <3>4. onHand'[p] = onHand[p] - items[o][p]
            BY <2>1, <2>2, <3>1 DEF Unjournaled
        <3>5. Tally(S \cup {o}, Qty(p), MaxQty) = Tally(S, Qty(p), MaxQty) + items[o][p]
            <4>. HIDE DEF S
            <4>1. Qty(p)[o] \in 0 .. MaxQty
                BY <3>3
            <4>2. Tally(S \cup {o}, Qty(p), MaxQty) = Tally(S, Qty(p), MaxQty) + Qty(p)[o]
                BY <1>0, <1>b, <3>2, <4>1, TallyAdd
            <4>. QED
                BY <3>3, <4>2
        <3>. HIDE DEF S
        <3>. QED
            BY <1>0, <1>a, <1>b, <2>1, <3>2, <3>3, <3>4, <3>5
    <2>3. CASE p \notin ItemsOf(o)
        <3>1. Sold(p)' = S /\ onHand'[p] = onHand[p]
            BY <2>1, <2>3 DEF Sold, Journaled, Unjournaled
        <3>. QED
            BY <1>c, <2>1, <3>1
    <2>. QED
        BY <2>2, <2>3
<1>4. ASSUME NEW o \in Orders, NEW from \in OrderStatuses, WriteRefund(o, from) PROVE Goal
    <2>1. UNCHANGED <<items, adjusted>>
        BY <1>4 DEF WriteRefund
    <2>2. \/ UNCHANGED stockVars
          \/ status[o] \in POST_PAID_STATUSES /\ Restock(o)
        BY <1>4, RefundTransitions DEF WriteRefund, RefundTakesOrder
    <2>3. CASE UNCHANGED stockVars
        BY <1>c, <2>1, <2>3 DEF stockVars, Sold
    <2>4. CASE status[o] \in POST_PAID_STATUSES /\ Restock(o) /\ p \in ItemsOf(o)
        <3>1. <<o, p, "COMMIT">> \in journal /\ <<o, p, "RESTOCK">> \notin journal
            BY <1>0, <2>1, <2>4, StatusNames DEF JournalMatchesStatus
        <3>2. o \in S /\ Sold(p)' = S \ {o}
            BY <2>4, <3>1 DEF Sold, Restock, Journaled
        <3>3. Qty(p)' = Qty(p) /\ Qty(p)[o] = items[o][p] /\ items[o][p] \in 0 .. MaxQty
            BY <1>0, <2>1 DEF Qty
        <3>4. onHand'[p] = onHand[p] + items[o][p]
            BY <2>4, <3>1 DEF Restock, Unjournaled
        <3>5. Tally(S \ {o}, Qty(p), MaxQty) = Tally(S, Qty(p), MaxQty) - items[o][p]
            <4>. HIDE DEF S
            <4>1. /\ Qty(p)[o] \in 0 .. MaxQty /\ MaxQty \in Nat
                  /\ IsFiniteSet(S) /\ o \in S
                BY <1>0, <1>b, <3>2, <3>3
            <4>2. Tally(S \ {o}, Qty(p), MaxQty) = Tally(S, Qty(p), MaxQty) - Qty(p)[o]
                BY <4>1, TallyRemove
            <4>. QED
                BY <3>3, <4>2
        <3>. HIDE DEF S
        <3>. QED
            BY <1>0, <1>a, <1>b, <2>1, <3>2, <3>3, <3>4, <3>5
    <2>5. CASE Restock(o) /\ p \notin ItemsOf(o)
        <3>1. Sold(p)' = S /\ onHand'[p] = onHand[p]
            BY <2>5 DEF Sold, Restock, Journaled, Unjournaled
        <3>. QED
            BY <1>c, <2>1, <3>1
    <2>. QED
        BY <2>2, <2>3, <2>4, <2>5
<1>5. ASSUME NEW q \in Products, NEW n \in 0 .. MaxOnHand, SetOnHand(q, n) PROVE Goal
    <2>1. /\ UNCHANGED <<items, journal>> /\ n \in Int
          /\ onHand'[p] - onHand[p] = adjusted'[p] - adjusted[p]
          /\ onHand'[p] \in Int /\ adjusted'[p] \in Int
        BY <1>0, <1>5 DEF SetOnHand, orderVars
    <2>2. Sold(p)' = S /\ Qty(p)' = Qty(p)
        BY <2>1 DEF Sold, Qty
    <2>. HIDE DEF S
    <2>. QED
        BY <1>0, <1>a, <1>b, <2>1, <2>2
<1>6. batchWrites = {} /\ \A r \in refunding : r[1] \in Orders /\ r[2] \in OrderStatuses
    BY <1>0 DEF CoreInv, TypeOK
<1>7. ASSUME UNCHANGED <<items, onHand, journal, adjusted>> PROVE Goal
    <2>1. Sold(p)' = S
        BY <1>7 DEF Sold
    <2>. QED
        BY <1>7, <1>c, <2>1
<1>8. ASSUME NEW f \in fulfilling, WriteFulfillment(f[1], f[2], f[3])
      PROVE  UNCHANGED <<items, onHand, journal, adjusted>>
    BY <1>8 DEF WriteFulfillment, stockVars
<1>9. Quiet => UNCHANGED <<items, onHand, journal, adjusted>>
    BY DEF Quiet
<1>. HIDE DEF Goal
<1>10. Goal
    BY <1>0, <1>1, <1>2, <1>3, <1>4, <1>5, <1>6, <1>7, <1>8, <1>9, NextCases
<1>. QED
    BY <1>10 DEF Goal

\* While no administrator uses the "Somar/subtrair" batch, the stock of a
\* product is the initial one plus what administrators typed, less what was
\* sold and not returned: the lost update of that batch is the only leak.
THEOREM GoodsConserved == ASSUME BatchDeltas = {} PROVE Spec => []StockConserved
<1>1. StockInv /\ StockConserved /\ [Next]_vars => (StockInv /\ StockConserved)'
    BY CoreStep, JournalStep, OversellStep, ConservedStep DEF StockInv
<1>2. Init => StockInv /\ StockConserved
    BY CoreInit, StockInit, ConservedInit DEF StockInv
<1>. QED
    BY <1>1, <1>2, PTL DEF Spec
============================================================================
