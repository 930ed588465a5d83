--------------------------- MODULE MCEntitlements ---------------------------
(* OrderStock on two smaller questions at once.  In one the orders share a  *)
(* coupon and cashback, are fulfilled and refunded, and want one product; in *)
(* the other administrators' batches move the stock while the orders, which  *)
(* may want two products, are made, paid and cancelled.  A state that is of  *)
(* both is not followed further.                                             *)
EXTENDS MCOrderStock

InDemand == { p \in Products : \E o \in Orders : items[o][p] > 0 }

StockMoved ==
    \/ batchWrites # {} \/ \E p \in Products : adjusted[p] # 0
    \/ ~StockConserved
    \/ Cardinality(InDemand) > 1

EntitlementsMoved ==
    \/ withCoupon # {} \/ coupon.maxUses # NoLimit \/ ~coupon.active
    \/ \E o \in Orders :
        \/ cashbackUsed[o] > 0
        \/ status[o] \notin {NoOrder, "awaiting_payment", "paid", "cancelled"}
    \/ cashLedger # {} \/ fulfilling # {} \/ refunding # {}

OneQuestion == EntitlementsMoved => ~StockMoved
============================================================================
